--------------------------- MODULE BLMallocProofs ---------------------------
(***************************************************************************)
(* What holds of the allocator in every heap, fitting or not, for any      *)
(* number of threads, any requests and any contents of the memory: types,  *)
(* and the use of the lock.                                                *)
(***************************************************************************)
EXTENDS HeapProperties, TLAPS

(* The operators of BoundaryTags keep addresses, words and memories what   *)
(* they are, for every address space and every heap in it.                 *)
Memory == [Addr -> Cell]

LEMMA AddrInt == \A a \in Addr : a \in Int /\ 0 <= a /\ a < W
  BY Geometry DEF Addr

LEMMA AddrFacts == Bottom \in Addr /\ End \in Addr /\ End - 1 \in Addr
                   /\ Bottom + 1 \in Addr /\ 0 \in Addr
  BY Geometry DEF Addr, End

(* One subtraction of W is enough for the sum of two addresses and one, and *)
(* one addition for a difference.                                           *)
LEMMA WrapType ==
  ASSUME NEW x \in Int, 0 - W <= x, x < 2 * W
  PROVE  Wrap(x) \in Addr
  BY Geometry DEF Wrap, Addr

LEMMA WrapSum == \A a, b \in Addr : Wrap(a + b) \in Addr /\ Wrap(a - b) \in Addr
                                    /\ Wrap(a + 1) \in Addr /\ Wrap(a - 1) \in Addr
                                    /\ Wrap(a + 2) \in Addr
  BY Geometry DEF Wrap, Addr

LEMMA AlignType == \A n \in Addr : Align(n) \in Addr
  BY Geometry DEF Align, Wrap, Addr

LEMMA WordType == \A a \in Addr : Link(a) \in Word /\ Freed(a) \in Word /\ Used(a) \in Word
  BY DEF Link, Freed, Used, Word

LEMMA CellFields ==
  ASSUME NEW m \in Memory, NEW a \in Addr
  PROVE  /\ m[a].p \in Word /\ m[a].c \in Word
         /\ m[a].p.v \in Addr /\ m[a].c.v \in Addr
         /\ m[a].p.f \in BOOLEAN /\ m[a].c.f \in BOOLEAN
  BY DEF Memory, Cell, Word

LEMMA HeaderType ==
  ASSUME NEW m \in Memory, NEW h \in Addr
  PROVE  NextHeader(m, h) \in Addr /\ PrevHeader(m, h) \in Addr
  BY CellFields, WrapSum DEF NextHeader, PrevHeader

(* A store of a word into a header or a link. *)
LEMMA StoreType ==
  ASSUME NEW m \in Memory, NEW a \in Addr, NEW w \in Word
  PROVE  [m EXCEPT ![a].p = w] \in Memory /\ [m EXCEPT ![a].c = w] \in Memory
  BY DEF Memory, Cell

LEMMA StoreCellType ==
  ASSUME NEW m \in Memory, NEW a \in Addr, NEW w \in Word, NEW x \in Word
  PROVE  [m EXCEPT ![a] = [p |-> w, c |-> x]] \in Memory
  BY DEF Memory, Cell

LEMMA SetLinkType ==
  ASSUME NEW m \in Memory, NEW w \in Word, NEW x \in Word
  PROVE  SetNext(m, w, x) \in Memory /\ SetPrev(m, w, x) \in Memory
<1>1. w.v \in Addr
  BY DEF Word
<1> QED BY <1>1, StoreType DEF SetNext, SetPrev

(* The first chunk has a size in the address space, however large HEAP_SIZE *)
(* makes it.                                                                *)
LEMMA HeapSizeType == HeapSize \in Addr
  BY Geometry DEF HeapSize, Addr, End

LEMMA ConstructedType == Constructed \in Memory
<1>1. Ram \in Memory
  BY Geometry DEF Memory
<1>2. /\ [p |-> Used(0), c |-> Freed(HeapSize)] \in Cell
      /\ [p |-> Freed(HeapSize), c |-> Used(0)] \in Cell
      /\ [p |-> Link(0), c |-> Link(0)] \in Cell
  BY WordType, HeapSizeType, AddrFacts DEF Cell
<1> QED BY <1>1, <1>2, AddrFacts DEF Constructed, Memory

-----------------------------------------------------------------------------
(* Types. *)

Labels == Out \cup Wait \cup In

(* TypeOK with the definition of the memory's type named. *)
LEMMA TypeOKMemory == TypeOK <=> /\ mem \in Memory
                                 /\ dibbs \in Addr
                                 /\ lock \in {0, 1}
                                 /\ pc \in [Threads -> Labels]
                                 /\ loc \in [Threads -> Locals]
                                 /\ DOMAIN owned \subseteq Addr
                                 /\ \A p \in DOMAIN owned : owned[p] \in Nat
                                 /\ hdrs \subseteq Addr
  BY DEF TypeOK, Memory, Labels

LEMMA InitTypeOK == Init => TypeOK
<1> SUFFICES ASSUME Init PROVE TypeOK
  OBVIOUS
<1>1. NoCall \in Locals
  BY AddrFacts DEF NoCall, Locals, Ops
<1>2. pc \in [Threads -> Labels] /\ loc \in [Threads -> Locals]
  BY <1>1 DEF Init, Labels, Out
<1>3. DOMAIN owned \subseteq Addr /\ \A p \in DOMAIN owned : owned[p] \in Nat
  BY DEF Init
<1> QED BY <1>2, <1>3, ConstructedType, AddrFacts, TypeOKMemory DEF Init

(* The memory operators of malloc and free. *)
LEMMA RelinkType ==
  ASSUME NEW m \in Memory, NEW f \in Addr
  PROVE  Relink(m, f) \in Memory
  BY CellFields, SetLinkType DEF Relink

LEMMA FlaggedType ==
  ASSUME NEW m \in Memory, NEW ptr \in Addr, NEW nxt \in Addr
  PROVE  Flagged(m, ptr, nxt) \in Memory
<1> DEFINE m1 == [m EXCEPT ![ptr] = [p |-> Link(0), c |-> Link(0)]]
           m2 == [m1 EXCEPT ![nxt].p = Freed(m1[nxt].p.v)]
           curr == Wrap(ptr - 1)
           m3 == [m2 EXCEPT ![curr].c = Freed(m2[curr].c.v)]
<1>1. m1 \in Memory /\ curr \in Addr
  BY StoreCellType, WordType, AddrFacts, WrapSum
<1> HIDE DEF m1, curr
<1>2. m2 \in Memory
  BY <1>1, CellFields, StoreType, WordType
<1> HIDE DEF m2
<1>3. m3 \in Memory
  BY <1>1, <1>2, CellFields, StoreType, WordType
<1> QED BY <1>3 DEF Flagged, m1, m2, m3, curr

LEMMA JoinedType ==
  ASSUME NEW m \in Memory, NEW top \in Addr, NEW bot \in Addr
  PROVE  Joined(m, top, bot) \in Word
  BY CellFields, WrapSum, WordType DEF Joined

LEMMA MergePrevType ==
  ASSUME NEW m \in Memory, NEW bot \in Addr
  PROVE  MergePrev(m, bot) \in Memory
<1> DEFINE top  == PrevHeader(m, bot)
           size == Joined(m, top, bot)
           m1   == [m EXCEPT ![top].c = size]
           m2   == [m1 EXCEPT ![NextHeader(m, bot)].p = size]
<1>1. top \in Addr /\ NextHeader(m, bot) \in Addr /\ size \in Word
  BY HeaderType, JoinedType
<1>2. m1 \in Memory
  BY <1>1, StoreType
<1>3. m2 \in Memory
  BY <1>1, <1>2, StoreType
<1>4. [m2 EXCEPT ![bot] = [p |-> Used(0), c |-> Used(0)]] \in Memory
  BY <1>3, StoreCellType, WordType, AddrFacts
<1> QED BY <1>4 DEF MergePrev

LEMMA MergeNextType ==
  ASSUME NEW m \in Memory, NEW top \in Addr, NEW d \in Addr
  PROVE  MergeNext(m, top, d) \in Memory
<1> DEFINE bot  == NextHeader(m, top)
           t_f  == Wrap(top + 1)
           prev == m[Wrap(bot + 1)].p
           next == m[Wrap(bot + 1)].c
           size == Joined(m, top, bot)
           n    == NextHeader(m, bot)
           a1   == [m EXCEPT ![top].c = size]
           a2   == [a1 EXCEPT ![n].p = size]
           a3   == [a2 EXCEPT ![t_f].c = next]
           m2   == SetPrev(a3, next, Link(t_f))
           b1   == [m2 EXCEPT ![t_f].p = prev]
           b2   == [b1 EXCEPT ![prev.v].c = Link(t_f)]
<1>1. bot \in Addr /\ n \in Addr /\ t_f \in Addr /\ Wrap(bot + 1) \in Addr
  BY HeaderType, WrapSum
<1>2. prev \in Word /\ next \in Word /\ size \in Word /\ Link(t_f) \in Word /\ prev.v \in Addr
  BY <1>1, CellFields, JoinedType, WordType
<1> HIDE DEF bot, t_f, prev, next, size, n
<1>3. a1 \in Memory
  BY <1>2, StoreType
<1>4. a2 \in Memory
  BY <1>1, <1>2, <1>3, StoreType
<1>5. a3 \in Memory
  BY <1>1, <1>2, <1>4, StoreType
<1>6. m2 \in Memory
  BY <1>2, <1>5, SetLinkType
<1>7. b1 \in Memory
  BY <1>1, <1>2, <1>6, StoreType
<1>8. b2 \in Memory
  BY <1>2, <1>7, StoreType
<1>9. MergeNext(m, top, d) \in {m2, b2}
  BY DEF MergeNext, bot, t_f, prev, next, size, n
<1> QED BY <1>6, <1>8, <1>9

-----------------------------------------------------------------------------
(* Every step keeps the types.                                             *)

LEMMA LocalsFields ==
  ASSUME NEW l \in Locals
  PROVE  /\ l.op \in Ops /\ l.asked \in Nat
         /\ l.size \in Addr /\ l.ptr \in Addr /\ l.f \in Addr
         /\ l.best \in Addr /\ l.nxt \in Addr /\ l.res \in Addr
  BY DEF Locals

(* Control. *)
LEMMA GotoType ==
  ASSUME pc \in [Threads -> Labels], NEW t \in Threads, NEW label \in Labels, Goto(t, label)
  PROVE  pc' \in [Threads -> Labels]
  BY DEF Goto

LEMMA MallocReturnsType ==
  ASSUME TypeOK, NEW t \in Threads, NEW r \in Addr, MallocReturns(t, r)
  PROVE  pc' \in [Threads -> Labels] /\ loc' \in [Threads -> Locals]
<1>1. pc \in [Threads -> Labels] /\ loc \in [Threads -> Locals]
  BY TypeOKMemory
<1>2. pc' \in [Threads -> Labels]
  BY <1>1 DEF MallocReturns, Goto, Labels, Out
<1>3. [loc[t] EXCEPT !.res = r, !.f = 0, !.best = 0] \in Locals
  BY <1>1, AddrFacts DEF Locals
<1>4. loc' = [loc EXCEPT ![t].res = r, ![t].f = 0, ![t].best = 0]
  BY DEF MallocReturns
<1>5. loc' \in [Threads -> Locals]
  BY <1>1, <1>3, <1>4
<1> QED BY <1>2, <1>5

LEMMA FreeReturnsType ==
  ASSUME TypeOK, NEW t \in Threads, FreeReturns(t)
  PROVE  pc' \in [Threads -> Labels] /\ loc' \in [Threads -> Locals]
<1>1. pc \in [Threads -> Labels] /\ loc \in [Threads -> Locals]
  BY TypeOKMemory
<1>2. pc' \in [Threads -> Labels]
  BY <1>1 DEF FreeReturns, Goto, Labels, Out
<1>3. [loc[t] EXCEPT !.ptr = 0, !.f = 0, !.nxt = 0] \in Locals
  BY <1>1, AddrFacts DEF Locals
<1>4. loc' = [loc EXCEPT ![t].ptr = 0, ![t].f = 0, ![t].nxt = 0]
  BY DEF FreeReturns
<1>5. loc' \in [Threads -> Locals]
  BY <1>1, <1>3, <1>4
<1> QED BY <1>2, <1>5

LEMMA ReallocReturnsType ==
  ASSUME TypeOK, NEW t \in Threads, NEW r \in Addr, ReallocReturns(t, r)
  PROVE  pc' \in [Threads -> Labels] /\ loc' \in [Threads -> Locals]
<1>1. pc \in [Threads -> Labels] /\ loc \in [Threads -> Locals]
  BY TypeOKMemory
<1>2. pc' \in [Threads -> Labels]
  BY <1>1 DEF ReallocReturns, Goto, Labels, Out
<1>3. loc' \in [Threads -> Locals]
  BY <1>1, AddrFacts DEF ReallocReturns, Locals
<1> QED BY <1>2, <1>3

LEMMA TakeLockType ==
  ASSUME TypeOK, NEW t \in Threads, NEW wait, NEW in \in Labels, NEW l \in Locals,
         TakeLock(t, wait, in, l)
  PROVE  TypeOK'
<1>1. pc' \in [Threads -> Labels] /\ loc' \in [Threads -> Locals]
  BY TypeOKMemory DEF TakeLock, Goto
<1> QED BY <1>1, TypeOKMemory DEF TakeLock, heap, TypeOK, Labels

(* What the client and the heap keep when a step leaves them alone. *)
LEMMA TypeOKPrime ==
  ASSUME mem' \in Memory, dibbs' \in Addr, lock' \in {0, 1},
         pc' \in [Threads -> Labels], loc' \in [Threads -> Locals],
         DOMAIN owned' \subseteq Addr, \A p \in DOMAIN owned' : owned'[p] \in Nat,
         hdrs' \subseteq Addr
  PROVE  TypeOK'
  BY DEF TypeOK, Memory, Labels

(* calloc's product is taken modulo the address space. *)
LEMMA ProductType ==
  ASSUME NEW a \in Addr, NEW b \in Addr
  PROVE  a * b \in Nat /\ (a * b) % W \in Addr
<1>1. a \in Nat /\ b \in Nat /\ W \in Nat \ {0}
  BY Geometry DEF Addr
<1>2. a * b \in Nat
  BY <1>1
<1>3. ASSUME NEW n \in Nat PROVE n % W \in 0 .. W - 1
  BY <1>1
<1> QED BY <1>2, <1>3 DEF Addr

(* The locals of a call of malloc or calloc. *)
LEMMA RequestType ==
  ASSUME TypeOK, NEW t \in Threads, NEW op \in Ops, NEW asked \in Nat, NEW size \in Addr
  PROVE  [loc EXCEPT ![t].op = op, ![t].asked = asked, ![t].size = size]
           \in [Threads -> Locals]
<1>1. loc \in [Threads -> Locals]
  BY TypeOKMemory
<1>2. [loc[t] EXCEPT !.op = op, !.asked = asked, !.size = size] \in Locals
  BY <1>1 DEF Locals
<1> QED BY <1>1, <1>2

LEMMA CallsTypeOK ==
  ASSUME TypeOK, NEW t \in Threads, Call(t)
  PROVE  TypeOK'
<1>1. CASE CallMalloc(t)
  <2>1. PICK n \in MallocSizes :
          loc' = [loc EXCEPT ![t].op = "malloc", ![t].asked = n, ![t].size = n]
    BY <1>1 DEF CallMalloc
  <2>2. n \in Addr /\ n \in Nat
    BY Clients, Geometry DEF Addr
  <2>3. loc' \in [Threads -> Locals]
    BY <2>1, <2>2, RequestType DEF Ops
  <2>4. pc' \in [Threads -> Labels]
    BY <1>1, TypeOKMemory DEF CallMalloc, Goto, Labels, Out
  <2> QED BY <1>1, <2>3, <2>4, TypeOKMemory, TypeOKPrime DEF CallMalloc, heap
<1>2. CASE CallCalloc(t)
  <2>1. PICK c \in CallocCounts :
          loc' = [loc EXCEPT ![t].op = "calloc", ![t].asked = c[1] * c[2],
                             ![t].size = (c[1] * c[2]) % W]
    BY <1>2 DEF CallCalloc
  <2>2. c[1] * c[2] \in Nat /\ (c[1] * c[2]) % W \in Addr
    BY Clients, ProductType
  <2>3. loc' \in [Threads -> Locals]
    BY <2>1, <2>2, RequestType DEF Ops
  <2>4. pc' \in [Threads -> Labels]
    BY <1>2, TypeOKMemory DEF CallCalloc, Goto, Labels, Out
  <2> QED BY <1>2, <2>3, <2>4, TypeOKMemory, TypeOKPrime DEF CallCalloc, heap
<1>3. CASE CallFree(t)
  <2>1. PICK p \in DOMAIN owned :
          /\ loc' = [loc EXCEPT ![t].op = "free", ![t].ptr = p]
          /\ owned' = [q \in DOMAIN owned \ {p} |-> owned[q]]
    BY <1>3 DEF CallFree
  <2>2. loc' \in [Threads -> Locals]
    <3>1. loc \in [Threads -> Locals] /\ DOMAIN owned \subseteq Addr
      BY TypeOKMemory
    <3>2. [loc[t] EXCEPT !.op = "free", !.ptr = p] \in Locals
      BY <2>1, <3>1 DEF Locals, Ops
    <3> QED BY <2>1, <3>1, <3>2
  <2>3. pc' \in [Threads -> Labels]
    BY <1>3, TypeOKMemory DEF CallFree, Goto, Labels, Out
  <2>4. DOMAIN owned' \subseteq Addr /\ \A q \in DOMAIN owned' : owned'[q] \in Nat
    BY <2>1, TypeOKMemory
  <2> QED BY <1>3, <2>2, <2>3, <2>4, TypeOKMemory, TypeOKPrime DEF CallFree, heap
<1>4. CASE CallRealloc(t)
  <2>1. PICK p \in DOMAIN owned \cup {0}, n \in ReallocSizes :
       /\ loc' = [loc EXCEPT
            ![t] = [NoCall EXCEPT !.op = IF p = 0 THEN "malloc"
                                         ELSE IF n = 0 THEN "free" ELSE "realloc",
                                  !.asked = n, !.size = n, !.ptr = p]]
       /\ owned' = [q \in DOMAIN owned \ {p} |-> owned[q]]
       /\ Goto(t, IF p = 0 THEN "malloc" ELSE IF n = 0 THEN "free" ELSE "realloc_lock")
    BY <1>4 DEF CallRealloc
  <2>2. n \in Addr /\ n \in Nat /\ p \in Addr
    BY Clients, Geometry, AddrFacts, TypeOKMemory DEF Addr
  <2>3. loc' \in [Threads -> Locals]
    BY <2>1, <2>2, AddrFacts, TypeOKMemory DEF Locals, Ops, NoCall
  <2>4. pc' \in [Threads -> Labels]
    BY <2>1, TypeOKMemory DEF Goto, Labels, Out, Wait
  <2>5. DOMAIN owned' \subseteq Addr /\ \A q \in DOMAIN owned' : owned'[q] \in Nat
    BY <2>1, TypeOKMemory
  <2> QED BY <1>4, <2>3, <2>4, <2>5, TypeOKMemory, TypeOKPrime DEF CallRealloc, heap
<1> QED BY <1>1, <1>2, <1>3, <1>4 DEF Call

LEMMA WriteTypeOK == TypeOK /\ Write => TypeOK'
<1> SUFFICES ASSUME TypeOK, Write PROVE TypeOK'
  OBVIOUS
<1>1. PICK p \in DOMAIN owned, c \in Payload :
         mem' = [a \in Addr |-> IF Wrap(a - p) < owned[p] THEN c ELSE mem[a]]
  BY DEF Write
<1>2. mem' \in Memory
  BY <1>1, Clients, TypeOKMemory DEF Memory
<1> QED BY <1>2, TypeOKMemory, TypeOKPrime DEF Write

LEMMA ReturnTypeOK ==
  ASSUME TypeOK, NEW t \in Threads, Return(t)
  PROVE  TypeOK'
<1>1. pc' \in [Threads -> Labels]
  BY TypeOKMemory DEF Return, Goto, Labels, Out
<1>2. loc' \in [Threads -> Locals]
  BY TypeOKMemory, AddrFacts DEF Return, NoCall, Locals, Ops
<1>3. loc[t].res \in Addr /\ loc[t].asked \in Nat
  BY TypeOKMemory, LocalsFields
<1>4. DOMAIN owned' \subseteq Addr /\ \A q \in DOMAIN owned' : owned'[q] \in Nat
  BY <1>3, TypeOKMemory DEF Return
<1> QED BY <1>1, <1>2, <1>4, TypeOKMemory, TypeOKPrime DEF Return, heap

-----------------------------------------------------------------------------
(* The steps of malloc and calloc.                                         *)

(* The values a thread's step computes with. *)
LEMMA ThreadFacts ==
  ASSUME TypeOK, NEW t \in Threads
  PROVE  /\ loc[t] \in Locals
         /\ loc[t].size \in Addr /\ loc[t].ptr \in Addr /\ loc[t].f \in Addr
         /\ loc[t].best \in Addr /\ loc[t].nxt \in Addr /\ loc[t].res \in Addr
         /\ Candidate(t) \in Addr /\ Header(t) \in Addr
         /\ Current(t) \in Addr /\ NextHdr(t) \in Addr
<1>1. loc[t] \in Locals
  BY TypeOKMemory
<1>2. Candidate(t) \in Addr /\ Header(t) \in Addr
  BY <1>1, LocalsFields, WrapSum DEF Candidate, Header
<1>3. Current(t) \in Addr
  BY <1>2, CellFields, TypeOKMemory DEF Current
<1>4. NextHdr(t) \in Addr
  BY <1>1, <1>3, LocalsFields, WrapSum DEF NextHdr
<1> QED BY <1>1, <1>2, <1>3, <1>4, LocalsFields

LEMMA MallocTypeOK ==
  ASSUME TypeOK, NEW t \in Threads, Malloc(t)
  PROVE  TypeOK'
<1> USE TypeOKMemory
<1>1. CASE MallocEnter(t)
  <2>1. pc' \in [Threads -> Labels] /\ loc' \in [Threads -> Locals]
    BY <1>1, MallocReturnsType, AddrFacts DEF MallocEnter, Goto, Labels, Wait
  <2> QED BY <1>1, <2>1, TypeOKPrime DEF MallocEnter, heap
<1>2. CASE MallocLock(t)
  <2> DEFINE l == [loc[t] EXCEPT !.size = Align(loc[t].size), !.best = 0,
                          !.f = IF mem[dibbs].c # Used(0) THEN Wrap(dibbs + 1) ELSE 0]
  <2>1. Align(loc[t].size) \in Addr /\ Wrap(dibbs + 1) \in Addr
    BY ThreadFacts, AlignType, WrapSum
  <2>2. l \in Locals
    BY <2>1, ThreadFacts, AddrFacts DEF Locals
  <2> QED BY <1>2, <2>2, TakeLockType DEF MallocLock, Labels, In
<1>3. CASE Search(t)
  <2>1. mem[loc[t].f].c.v \in Addr
    BY ThreadFacts, CellFields
  <2>2. PICK b \in Addr : loc' = [loc EXCEPT ![t].f = mem[loc[t].f].c.v, ![t].best = b]
    BY <1>3, ThreadFacts DEF Search
  <2>3. [loc[t] EXCEPT !.f = mem[loc[t].f].c.v, !.best = b] \in Locals
    BY <2>1, <2>2, ThreadFacts DEF Locals
  <2>4. loc' \in [Threads -> Locals]
    BY <2>2, <2>3
  <2> QED BY <1>3, <2>4, TypeOKPrime DEF Search, heap
<1>4. CASE MallocPerfect(t)
  <2> DEFINE h == Candidate(t)
             next == mem[Wrap(dibbs + 1)].c
             size == Used(mem[h].c.v)
             m1 == [mem EXCEPT ![h].c = size]
             m2 == [m1 EXCEPT ![NextHeader(mem, h)].p = size]
  <2>1. size \in Word /\ NextHeader(mem, h) \in Addr
    BY ThreadFacts, CellFields, WordType, HeaderType
  <2>2. m1 \in Memory
    BY <2>1, ThreadFacts, StoreType
  <2>3. m2 \in Memory
    BY <2>1, <2>2, StoreType
  <2>4. mem' \in Memory
    BY <1>4, <2>3, ThreadFacts, RelinkType DEF MallocPerfect
  <2>5. Wrap(next.v - 1) \in Addr
    BY CellFields, WrapSum
  <2>6. dibbs' \in Addr
    BY <1>4, <2>5, AddrFacts DEF MallocPerfect
  <2>7. pc' \in [Threads -> Labels] /\ loc' \in [Threads -> Locals]
    BY <1>4, ThreadFacts, MallocReturnsType DEF MallocPerfect
  <2> QED BY <1>4, <2>4, <2>6, <2>7, TypeOKPrime DEF MallocPerfect
<1>5. CASE MallocSplit(t)
  <2> DEFINE h == loc[t].best
             size == loc[t].size
             n_h == Wrap(h + Wrap(mem[h].c.v - size))
             rest == Freed(Wrap(mem[h].c.v - Wrap(size + 1)))
             far == Wrap(Wrap(n_h + 1) + size)
             m1 == [mem EXCEPT ![n_h] = [p |-> rest, c |-> Used(size)]]
             m2 == [m1 EXCEPT ![h].c = rest]
             m3 == [m2 EXCEPT ![far].p = Used(size)]
  <2>1. mem[h].c.v \in Addr /\ h \in Addr /\ size \in Addr
    BY ThreadFacts, CellFields
  <2>2. n_h \in Addr /\ Wrap(n_h + 1) \in Addr /\ far \in Addr
    BY <2>1, WrapSum
  <2>3. rest \in Word /\ Used(size) \in Word
    BY <2>1, WrapSum, WordType
  <2>4. m1 \in Memory
    BY <2>2, <2>3, StoreCellType
  <2>5. m2 \in Memory
    BY <2>1, <2>3, <2>4, StoreType
  <2>6. m3 \in Memory
    BY <2>2, <2>3, <2>5, StoreType
  <2>7. mem' = m3 /\ hdrs' = hdrs \cup {n_h} /\ MallocReturns(t, Wrap(n_h + 1))
    BY <1>5 DEF MallocSplit
  <2>8. pc' \in [Threads -> Labels] /\ loc' \in [Threads -> Locals]
    BY <2>2, <2>7, MallocReturnsType
  <2> HIDE DEF m3, n_h
  <2> QED BY <1>5, <2>2, <2>6, <2>7, <2>8, TypeOKPrime DEF MallocSplit
<1>6. CASE MallocFails(t)
  BY <1>6, GotoType, TypeOKPrime DEF MallocFails, Labels, In, heap
<1>7. CASE CallocZero(t)
  <2>1. [p |-> Used(0), c |-> Used(0)] \in Cell
    BY WordType, AddrFacts DEF Cell
  <2>2. mem' \in Memory
    BY <1>7, <2>1 DEF CallocZero, Memory
  <2>3. pc' \in [Threads -> Labels]
    BY <1>7, GotoType DEF CallocZero, Labels, Out
  <2> QED BY <1>7, <2>2, <2>3, TypeOKPrime DEF CallocZero
<1> QED BY <1>1, <1>2, <1>3, <1>4, <1>5, <1>6, <1>7 DEF Malloc

-----------------------------------------------------------------------------
(* The steps of free.                                                      *)

LEMMA LowestType == \A a, b \in Addr : Lowest(a, b) \in Addr
  BY DEF Lowest

LEMMA FreeMergeTypeOK ==
  ASSUME TypeOK, NEW t \in Threads, FreeMerge(t)
  PROVE  TypeOK'
<1> USE TypeOKMemory
<1> DEFINE ptr   == loc[t].ptr
           curr  == Wrap(ptr - 1)
           m0    == Flagged(mem, ptr, loc[t].nxt)
           below == FreeBelow(m0, curr)
           top   == IF below THEN PrevHeader(m0, curr) ELSE curr
           m1    == IF below THEN MergePrev(m0, curr) ELSE m0
           d1    == IF below THEN Lowest(dibbs, top) ELSE dibbs
           above == FreeAbove(m1, top)
           d2    == IF above THEN Lowest(d1, top) ELSE d1
<1>1. ptr \in Addr /\ curr \in Addr /\ m0 \in Memory
  BY ThreadFacts, WrapSum, FlaggedType
<1> HIDE DEF m0, curr
<1>2. top \in Addr /\ m1 \in Memory
  BY <1>1, HeaderType, MergePrevType
<1> HIDE DEF m1, top
<1>3. d1 \in Addr
  BY <1>2, LowestType
<1> HIDE DEF d1
<1>4. d2 \in Addr
  BY <1>2, <1>3, LowestType
<1> HIDE DEF d2
<1>5. MergeNext(m1, top, d2) \in Memory
  BY <1>2, <1>4, MergeNextType
<1>6. /\ mem' = IF above THEN MergeNext(m1, top, d2) ELSE m1
      /\ dibbs' = d2
      /\ hdrs' \subseteq hdrs
      /\ \/ FreeReturns(t) /\ lock' = 0
         \/ /\ Goto(t, "assign_ptr") /\ UNCHANGED lock
            /\ loc' = [loc EXCEPT ![t].f = Wrap(dibbs + 1), ![t].nxt = 0]
      /\ UNCHANGED owned
  BY DEF FreeMerge, m0, curr, m1, top, d1, d2
<1>7. mem' \in Memory /\ dibbs' \in Addr /\ hdrs' \subseteq Addr
  BY <1>2, <1>4, <1>5, <1>6
<1>8. lock' \in {0, 1} /\ pc' \in [Threads -> Labels] /\ loc' \in [Threads -> Locals]
  <2>1. CASE FreeReturns(t) /\ lock' = 0
    BY <2>1, FreeReturnsType
  <2>2. CASE /\ Goto(t, "assign_ptr") /\ UNCHANGED lock
             /\ loc' = [loc EXCEPT ![t].f = Wrap(dibbs + 1), ![t].nxt = 0]
    <3>1. Wrap(dibbs + 1) \in Addr /\ 0 \in Addr
      BY WrapSum, AddrFacts
    <3>2. [loc[t] EXCEPT !.f = Wrap(dibbs + 1), !.nxt = 0] \in Locals
      BY <3>1, ThreadFacts DEF Locals
    <3>3. loc' \in [Threads -> Locals]
      BY <2>2, <3>2, TypeOKMemory
    <3> QED BY <2>2, <3>3, GotoType, TypeOKMemory DEF Labels, In
  <2> QED BY <1>6, <2>1, <2>2
<1> QED BY <1>6, <1>7, <1>8, TypeOKPrime

LEMMA FreeTypeOK ==
  ASSUME TypeOK, NEW t \in Threads, Free(t)
  PROVE  TypeOK'
<1> USE TypeOKMemory
<1>1. CASE FreeEnter(t)
  <2>1. NextHeader(mem, Wrap(loc[t].ptr - 1)) \in Addr
    BY ThreadFacts, WrapSum, HeaderType
  <2>2. loc' \in [Threads -> Locals]
    BY <1>1, <2>1 DEF FreeEnter, Locals
  <2>3. pc' \in [Threads -> Labels]
    BY <1>1 DEF FreeEnter, Goto, Labels, Out, Wait
  <2> QED BY <1>1, <2>2, <2>3, TypeOKPrime DEF FreeEnter, heap
<1>2. CASE FreeLock(t)
  BY <1>2, ThreadFacts, TakeLockType DEF FreeLock, Labels, In
<1>3. CASE FreeMerge(t)
  BY <1>3, FreeMergeTypeOK
<1>4. CASE AssignFirst(t)
  <2> DEFINE curr == loc[t].ptr
             d_free == Wrap(dibbs + 1)
             m1 == [mem EXCEPT ![curr] = [p |-> Link(0), c |-> Link(d_free)]]
             m2 == [m1 EXCEPT ![d_free].p = Link(curr)]
  <2>1. curr \in Addr /\ d_free \in Addr /\ Wrap(curr - 1) \in Addr
    BY ThreadFacts, WrapSum
  <2>2. Link(0) \in Word /\ Link(curr) \in Word /\ Link(d_free) \in Word
    BY <2>1, AddrFacts, WordType
  <2>3. m1 \in Memory
    BY <2>1, <2>2, StoreCellType
  <2>4. m2 \in Memory
    BY <2>1, <2>2, <2>3, StoreType
  <2>5. mem' \in {mem, m2} /\ dibbs' = Wrap(curr - 1) /\ FreeReturns(t)
    BY <1>4 DEF AssignFirst
  <2>6. pc' \in [Threads -> Labels] /\ loc' \in [Threads -> Locals]
    BY <2>5, FreeReturnsType
  <2> HIDE DEF m2
  <2> QED BY <1>4, <2>1, <2>4, <2>5, <2>6, TypeOKPrime DEF AssignFirst
<1>5. CASE AssignWalk(t)
  <2>1. mem[loc[t].f].c.v \in Addr
    BY ThreadFacts, CellFields
  <2>2. loc' \in [Threads -> Locals]
    BY <1>5, <2>1 DEF AssignWalk, Locals
  <2> QED BY <1>5, <2>2, TypeOKPrime DEF AssignWalk, heap
<1>6. CASE AssignInsert(t)
  <2> DEFINE curr == loc[t].ptr
             d_free == loc[t].f
             next == mem[d_free].c
             m1 == SetPrev(mem, next, Link(curr))
             m2 == [m1 EXCEPT ![curr] = [p |-> Link(d_free), c |-> next]]
             m3 == [m2 EXCEPT ![d_free].c = Link(curr)]
  <2>1. curr \in Addr /\ d_free \in Addr
    BY ThreadFacts
  <2>2. next \in Word /\ Link(curr) \in Word /\ Link(d_free) \in Word
    BY <2>1, CellFields, WordType
  <2>3. m1 \in Memory
    BY <2>2, SetLinkType
  <2>4. m2 \in Memory
    BY <2>1, <2>2, <2>3, StoreCellType
  <2>5. m3 \in Memory
    BY <2>1, <2>2, <2>4, StoreType
  <2>6. mem' = m3 /\ FreeReturns(t)
    BY <1>6 DEF AssignInsert
  <2>7. pc' \in [Threads -> Labels] /\ loc' \in [Threads -> Locals]
    BY <2>6, FreeReturnsType
  <2> HIDE DEF m3
  <2> QED BY <1>6, <2>5, <2>6, <2>7, TypeOKPrime DEF AssignInsert
<1> QED BY <1>1, <1>2, <1>3, <1>4, <1>5, <1>6 DEF Free

-----------------------------------------------------------------------------
(* The steps of realloc.                                                   *)

LEMMA BothType ==
  ASSUME TypeOK, NEW t \in Threads
  PROVE  Both(t) \in Addr /\ Wrap(Both(t) + 1) \in Addr
<1>1. mem[NextHdr(t)].c.v \in Addr
  BY ThreadFacts, CellFields, TypeOKMemory
<1> QED BY <1>1, ThreadFacts, WrapSum DEF Both

LEMMA ReallocReduceTypeOK ==
  ASSUME TypeOK, NEW t \in Threads, ReallocReduce(t)
  PROVE  TypeOK'
<1> USE TypeOKMemory
<1> DEFINE size == loc[t].size
           new_h == Wrap(loc[t].ptr + size)
           rest == Freed(Wrap(Current(t) - Wrap(size + 1)))
           m1 == [mem EXCEPT ![new_h] = [p |-> Used(size), c |-> rest]]
           m2 == [m1 EXCEPT ![Header(t)].c = Used(size)]
           m3 == [m2 EXCEPT ![NextHdr(t)].p = rest]
<1>1. size \in Addr /\ new_h \in Addr /\ Wrap(new_h + 1) \in Addr /\ loc[t].ptr \in Addr
  BY ThreadFacts, WrapSum
<1>2. rest \in Word /\ Used(size) \in Word
  BY <1>1, ThreadFacts, WrapSum, WordType
<1>3. m1 \in Memory
  BY <1>1, <1>2, StoreCellType
<1>4. m2 \in Memory
  BY <1>2, <1>3, ThreadFacts, StoreType
<1>5. m3 \in Memory
  BY <1>2, <1>4, ThreadFacts, StoreType
<1>6. /\ mem' = m3 /\ hdrs' = hdrs \cup {new_h}
      /\ loc' = [loc EXCEPT ![t].res = loc[t].ptr, ![t].ptr = Wrap(new_h + 1)]
      /\ Goto(t, "free") /\ lock' = 0 /\ UNCHANGED <<dibbs, owned>>
  BY DEF ReallocReduce
<1> HIDE DEF m3, new_h
<1>7. loc' \in [Threads -> Locals]
  <2>1. [loc[t] EXCEPT !.res = loc[t].ptr, !.ptr = Wrap(new_h + 1)] \in Locals
    BY <1>1, ThreadFacts DEF Locals
  <2> QED BY <1>6, <2>1
<1>8. pc' \in [Threads -> Labels]
  BY <1>6, GotoType DEF Labels, Out
<1> QED BY <1>1, <1>5, <1>6, <1>7, <1>8, TypeOKPrime

LEMMA ReallocAbsorbTypeOK ==
  ASSUME TypeOK, NEW t \in Threads, ReallocAbsorb(t)
  PROVE  TypeOK'
<1> USE TypeOKMemory
<1> DEFINE n_h == NextHdr(t)
           size == Used(Wrap(Both(t) + 1))
           far == NextHeader(mem, n_h)
           m1 == [mem EXCEPT ![Header(t)].c = size]
           m2 == [m1 EXCEPT ![far].p = size]
<1>1. n_h \in Addr /\ far \in Addr /\ Wrap(n_h + 1) \in Addr /\ size \in Word
  BY ThreadFacts, BothType, HeaderType, WrapSum, WordType
<1>2. m1 \in Memory
  BY <1>1, ThreadFacts, StoreType
<1>3. m2 \in Memory
  BY <1>1, <1>2, StoreType
<1>4. Relink(m2, Wrap(n_h + 1)) \in Memory
  BY <1>1, <1>3, RelinkType
<1>5. /\ mem' = Relink(m2, Wrap(n_h + 1)) /\ hdrs' = hdrs \ {n_h}
      /\ ReallocReturns(t, loc[t].ptr) /\ lock' = 0 /\ UNCHANGED <<dibbs, owned>>
  BY DEF ReallocAbsorb
<1> HIDE DEF m2
<1>6. pc' \in [Threads -> Labels] /\ loc' \in [Threads -> Locals]
  BY <1>5, ThreadFacts, ReallocReturnsType
<1> QED BY <1>4, <1>5, <1>6, TypeOKPrime

LEMMA ReallocUpgradeTypeOK ==
  ASSUME TypeOK, NEW t \in Threads, ReallocUpgrade(t)
  PROVE  TypeOK'
<1> USE TypeOKMemory
<1> DEFINE size == loc[t].size
           n_h == NextHdr(t)
           n_f == mem[Wrap(n_h + 1)]
           new_h == Wrap(loc[t].ptr + size)
           new_f == Wrap(new_h + 1)
           rest == Freed(Wrap(Wrap(mem[n_h].c.v + mem[n_h].p.v) - size))
           far == NextHeader(mem, n_h)
           a1 == [mem EXCEPT ![Header(t)].c = Used(size)]
           a2 == [a1 EXCEPT ![new_f] = n_f]
           a3 == [a2 EXCEPT ![new_h] = [p |-> Used(size), c |-> rest]]
           m1 == [a3 EXCEPT ![far].p = rest]
           m2 == SetNext(m1, n_f.p, Link(new_f))
           m3 == SetPrev(m2, n_f.c, Link(new_f))
<1>1. size \in Addr /\ n_h \in Addr /\ Wrap(n_h + 1) \in Addr /\ far \in Addr
  BY ThreadFacts, HeaderType, WrapSum
<1>2. new_h \in Addr /\ new_f \in Addr
  BY <1>1, ThreadFacts, WrapSum
<1>3. n_f \in Cell /\ n_f.p \in Word /\ n_f.c \in Word
  BY <1>1, CellFields DEF Memory
<1>4. mem[n_h].c.v \in Addr /\ mem[n_h].p.v \in Addr
  BY <1>1, CellFields
<1>5. rest \in Word /\ Used(size) \in Word /\ Link(new_f) \in Word
  BY <1>1, <1>2, <1>4, WrapSum, WordType
<1> HIDE DEF n_h, n_f, new_h, new_f, rest, far, size
<1>6. a1 \in Memory
  BY <1>5, ThreadFacts, StoreType
<1>7. a2 \in Memory
  BY <1>2, <1>3, <1>6 DEF Memory
<1>8. a3 \in Memory
  BY <1>2, <1>5, <1>7, StoreCellType
<1>9. m1 \in Memory
  BY <1>1, <1>5, <1>8, StoreType
<1>10. m2 \in Memory
  BY <1>3, <1>5, <1>9, SetLinkType
<1>11. m3 \in Memory
  BY <1>3, <1>5, <1>10, SetLinkType
<1>12. /\ mem' = m3 /\ hdrs' = (hdrs \ {n_h}) \cup {new_h}
       /\ ReallocReturns(t, loc[t].ptr) /\ lock' = 0 /\ UNCHANGED <<dibbs, owned>>
  BY DEF ReallocUpgrade, n_h, n_f, new_h, new_f, rest, far, size
<1> HIDE DEF m3
<1>13. pc' \in [Threads -> Labels] /\ loc' \in [Threads -> Locals]
  BY <1>12, ThreadFacts, ReallocReturnsType
<1> QED BY <1>2, <1>11, <1>12, <1>13, TypeOKPrime

LEMMA CopyTypeOK ==
  ASSUME TypeOK, NEW t \in Threads, Copy(t)
  PROVE  TypeOK'
<1> USE TypeOKMemory
<1> DEFINE to == loc[t].res
           from == loc[t].ptr
<1>1. mem' = [a \in Addr |-> IF Wrap(a - to) < Current(t)
                             THEN mem[Wrap(from + Wrap(a - to))] ELSE mem[a]]
  BY DEF Copy
<1>2. \A a \in Addr : Wrap(from + Wrap(a - to)) \in Addr
  BY ThreadFacts, WrapSum
<1>3. mem' \in Memory
  BY <1>1, <1>2 DEF Memory
<1>4. pc' \in [Threads -> Labels]
  BY GotoType DEF Copy, Labels, Out
<1> QED BY <1>3, <1>4, TypeOKPrime DEF Copy

LEMMA ReallocTypeOK ==
  ASSUME TypeOK, NEW t \in Threads, Realloc(t)
  PROVE  TypeOK'
<1> USE TypeOKMemory
<1>1. CASE ReallocLock(t)
  <2>1. [loc[t] EXCEPT !.size = Align(loc[t].size)] \in Locals
    BY ThreadFacts, AlignType DEF Locals
  <2> QED BY <1>1, <2>1, TakeLockType DEF ReallocLock, Labels, In
<1>2. CASE ReallocKeep(t)
  <2>1. pc' \in [Threads -> Labels] /\ loc' \in [Threads -> Locals]
    BY <1>2, ThreadFacts, ReallocReturnsType DEF ReallocKeep
  <2> QED BY <1>2, <2>1, TypeOKPrime DEF ReallocKeep, heap
<1>3. CASE ReallocReduce(t)
  BY <1>3, ReallocReduceTypeOK
<1>4. CASE ReallocAbsorb(t)
  BY <1>4, ReallocAbsorbTypeOK
<1>5. CASE ReallocUpgrade(t)
  BY <1>5, ReallocUpgradeTypeOK
<1>6. CASE ReallocRelocate(t)
  BY <1>6, GotoType, TypeOKPrime DEF ReallocRelocate, heap, Labels, Out
<1>7. CASE CopyEnter(t)
  BY <1>7, GotoType, TypeOKPrime DEF CopyEnter, heap, Labels, Wait
<1>8. CASE CopyLock(t)
  BY <1>8, ThreadFacts, TakeLockType DEF CopyLock, Labels, In
<1>9. CASE Copy(t)
  BY <1>9, CopyTypeOK
<1>10. CASE RelockEnter(t)
  BY <1>10, GotoType, TypeOKPrime DEF RelockEnter, heap, Labels, Wait
<1>11. CASE Relock(t)
  BY <1>11, ThreadFacts, TakeLockType DEF Relock, Labels, In
<1>12. CASE ReallocEnd(t)
  <2>1. pc' \in [Threads -> Labels] /\ loc' \in [Threads -> Locals]
    BY <1>12, ThreadFacts, ReallocReturnsType DEF ReallocEnd
  <2> QED BY <1>12, <2>1, TypeOKPrime DEF ReallocEnd, heap
<1> QED BY <1>1, <1>2, <1>3, <1>4, <1>5, <1>6, <1>7, <1>8, <1>9, <1>10, <1>11, <1>12
        DEF Realloc

-----------------------------------------------------------------------------
(* The types hold in every heap, one whose first chunk leaves the heap     *)
(* included, for any number of threads, any requests and any contents of   *)
(* memory: whatever links and tags the code reads by mistake, it computes  *)
(* addresses and words of the machine from them.                           *)
THEOREM TypeCorrect == Spec => []TypeOK
<1>1. TypeOK /\ [Next]_vars => TypeOK'
  <2> SUFFICES ASSUME TypeOK, [Next]_vars PROVE TypeOK'
    OBVIOUS
  <2>1. CASE Write
    BY <2>1, WriteTypeOK
  <2>2. ASSUME NEW t \in Threads, Call(t) PROVE TypeOK'
    BY <2>2, CallsTypeOK
  <2>3. ASSUME NEW t \in Threads, Step(t) PROVE TypeOK'
    BY <2>3, MallocTypeOK, FreeTypeOK, ReallocTypeOK, ReturnTypeOK DEF Step
  <2>4. CASE UNCHANGED vars
    BY <2>4, TypeOKMemory, TypeOKPrime DEF vars
  <2>5. ASSUME NEW t \in Threads, Halt(t) PROVE TypeOK'
    BY <2>4, <2>5 DEF Halt
  <2> QED BY <2>1, <2>2, <2>3, <2>4, <2>5 DEF Next
<1> QED BY <1>1, InitTypeOK, PTL DEF Spec

-----------------------------------------------------------------------------
(* The allocator uses its lock as a lock: the lock and the places of the   *)
(* threads move as in Spinlock, so what SpinlockProofs proves of the lock  *)
(* holds of the allocator.                                                 *)

Places == [t \in Threads |-> Where(t)]

LEMMA SideFacts == /\ \A label \in Out : Side(label) = "out"
                   /\ \A label \in Wait : Side(label) = "spin"
                   /\ \A label \in In : Side(label) = "in"
  BY DEF Side, Out, Wait, In

LEMMA GotoPlaces ==
  ASSUME TypeOK, NEW t \in Threads, NEW label, Goto(t, label)
  PROVE  Places' = [Places EXCEPT ![t] = Side(label)]
<1>1. pc \in [Threads -> Labels]
  BY TypeOKMemory
<1> QED BY <1>1 DEF Goto, Places, Where

(* A step that stays on its side of the lock. *)
LEMMA StaysStep ==
  ASSUME TypeOK, NEW t \in Threads, NEW label, Goto(t, label),
         Side(label) = Where(t), lock' = lock
  PROVE  UNCHANGED Spin!vars
<1>1. Places' = [Places EXCEPT ![t] = Where(t)]
  BY GotoPlaces
<1>2. Places' = Places
  BY <1>1 DEF Places
<1> QED BY <1>2 DEF Spin!vars, Places

LEMMA CallLockStep ==
  ASSUME TypeOK, NEW t \in Threads, NEW label, Goto(t, label),
         Where(t) = "out", Side(label) = "spin", lock' = lock
  PROVE  Spin!Next
<1>1. Spin!CallLock(t)
  BY GotoPlaces DEF Spin!CallLock, Places
<1> QED BY <1>1 DEF Spin!Next, Spin!Step

LEMMA UnlockStep ==
  ASSUME TypeOK, NEW t \in Threads, NEW label, Goto(t, label),
         Where(t) = "in", Side(label) = "out", lock' = 0
  PROVE  Spin!Next
<1>1. Spin!Unlock(t)
  BY GotoPlaces DEF Spin!Unlock, Places
<1> QED BY <1>1 DEF Spin!Next, Spin!Step

LEMMA TestAndSetStep ==
  ASSUME TypeOK, NEW t \in Threads, NEW wait \in Wait, NEW in \in In, NEW l,
         TakeLock(t, wait, in, l)
  PROVE  Spin!Next
<1>1. Where(t) = "spin" /\ Side(in) = "in" /\ lock' = 1
  BY SideFacts DEF TakeLock, Where
<1>2. Places' = [Places EXCEPT ![t] = IF lock = 0 THEN "in" ELSE "spin"]
  <2>1. CASE lock = 0
    BY <1>1, <2>1, GotoPlaces DEF TakeLock
  <2>2. CASE lock # 0
    <3>1. Places' = Places
      BY <2>2 DEF TakeLock, Places, Where
    <3> QED BY <1>1, <2>2, <3>1 DEF Places
  <2> QED BY <2>1, <2>2
<1>3. Spin!TestAndSet(t)
  BY <1>1, <1>2 DEF Spin!TestAndSet, Places
<1> QED BY <1>3 DEF Spin!Next, Spin!Step

(* The returns of the three functions lead outside the lock. *)
LEMMA ReturnsOut ==
  ASSUME NEW t \in Threads
  PROVE  /\ \A r : MallocReturns(t, r) => \E label \in Out : Goto(t, label)
         /\ FreeReturns(t) => \E label \in Out : Goto(t, label)
         /\ \A r : ReallocReturns(t, r) => \E label \in Out : Goto(t, label)
  BY DEF MallocReturns, FreeReturns, ReallocReturns, Out

LEMMA StepIsLockStep ==
  ASSUME TypeOK, NEW t \in Threads, Call(t) \/ Step(t)
  PROVE  [Spin!Next]_Spin!vars
<1> USE SideFacts
(* Outside: calls, returns, and the steps that do not need the lock. *)
<1>1. CASE CallMalloc(t) \/ CallCalloc(t) \/ CallFree(t)
  <2>1. \E label \in Out : Goto(t, label)
    BY <1>1 DEF CallMalloc, CallCalloc, CallFree, Out
  <2>2. Where(t) = "out" /\ lock' = lock
    BY <1>1 DEF CallMalloc, CallCalloc, CallFree, heap, Where, Out
  <2> QED BY <2>1, <2>2, StaysStep
<1>2. CASE CallRealloc(t)
  <2>1. \E label \in Out \cup Wait : Goto(t, label)
    BY <1>2 DEF CallRealloc, Out, Wait
  <2>2. Where(t) = "out" /\ lock' = lock
    BY <1>2 DEF CallRealloc, Where, Out
  <2> QED BY <2>1, <2>2, StaysStep, CallLockStep
<1>3. CASE Return(t)
  <2>1. "idle" \in Out /\ Goto(t, "idle") /\ Where(t) = "out" /\ lock' = lock
    BY <1>3 DEF Return, Where, Out
  <2> QED BY <2>1, StaysStep
<1>4. CASE CallocZero(t)
  <2>1. "return" \in Out /\ Goto(t, "return") /\ Where(t) = "out" /\ lock' = lock
    BY <1>4 DEF CallocZero, Where, Out
  <2> QED BY <2>1, StaysStep
(* Into lock(). *)
<1>5. CASE MallocEnter(t)
  <2>1. \E label \in Out \cup Wait : Goto(t, label)
    BY <1>5, ReturnsOut DEF MallocEnter, Wait
  <2>2. Where(t) = "out" /\ lock' = lock
    BY <1>5 DEF MallocEnter, Where, Out
  <2> QED BY <2>1, <2>2, StaysStep, CallLockStep
<1>6. CASE FreeEnter(t)
  <2>1. \E label \in Out \cup Wait : Goto(t, label)
    BY <1>6 DEF FreeEnter, Out, Wait
  <2>2. Where(t) = "out" /\ lock' = lock
    BY <1>6 DEF FreeEnter, Where, Out
  <2> QED BY <2>1, <2>2, StaysStep, CallLockStep
<1>7. CASE CopyEnter(t) \/ RelockEnter(t)
  <2>1. \E label \in Wait : Goto(t, label)
    BY <1>7 DEF CopyEnter, RelockEnter, Wait
  <2>2. Where(t) = "out" /\ lock' = lock
    BY <1>7 DEF CopyEnter, RelockEnter, Where, Out
  <2> QED BY <2>1, <2>2, CallLockStep
(* Through lock()'s loop. *)
<1>8. CASE MallocLock(t)
  BY <1>8, TestAndSetStep DEF MallocLock, Wait, In
<1>9. CASE FreeLock(t) \/ ReallocLock(t)
  BY <1>9, TestAndSetStep DEF FreeLock, ReallocLock, Wait, In
<1>10. CASE CopyLock(t) \/ Relock(t)
  BY <1>10, TestAndSetStep DEF CopyLock, Relock, Wait, In
(* Inside. *)
<1>11. CASE Search(t) \/ AssignWalk(t)
  <2>1. pc' = pc /\ lock' = lock
    BY <1>11 DEF Search, AssignWalk
  <2> QED BY <2>1 DEF Spin!vars, Where
<1>12. CASE MallocFails(t)
  <2>1. "overflow" \in In /\ Goto(t, "overflow") /\ Where(t) = "in" /\ lock' = lock
    BY <1>12 DEF MallocFails, Where, In
  <2> QED BY <2>1, StaysStep
<1>13. CASE FreeMerge(t)
  <2>1. Where(t) = "in"
    BY <1>13 DEF FreeMerge, Where, In
  <2>2. CASE Goto(t, "assign_ptr") /\ lock' = lock
    BY <2>1, <2>2, StaysStep DEF In
  <2>3. CASE FreeReturns(t) /\ lock' = 0
    BY <2>1, <2>3, ReturnsOut, UnlockStep
  <2>4. \/ Goto(t, "assign_ptr") /\ lock' = lock
        \/ FreeReturns(t) /\ lock' = 0
    BY <1>13 DEF FreeMerge
  <2> QED BY <2>2, <2>3, <2>4
(* Through unlock(). *)
<1>14. CASE MallocPerfect(t) \/ MallocSplit(t)
  <2>1. /\ \E label \in Out : Goto(t, label)
        /\ Where(t) = "in" /\ lock' = 0
    BY <1>14, ReturnsOut DEF MallocPerfect, MallocSplit, Where, In
  <2> QED BY <2>1, UnlockStep
<1>15. CASE AssignFirst(t) \/ AssignInsert(t)
  <2>1. /\ \E label \in Out : Goto(t, label)
        /\ Where(t) = "in" /\ lock' = 0
    BY <1>15, ReturnsOut DEF AssignFirst, AssignInsert, Between, Where, In
  <2> QED BY <2>1, UnlockStep
<1>16. CASE ReallocKeep(t) \/ ReallocAbsorb(t) \/ ReallocUpgrade(t) \/ ReallocEnd(t)
  <2>1. /\ \E label \in Out : Goto(t, label)
        /\ Where(t) = "in" /\ lock' = 0
    BY <1>16, ReturnsOut
       DEF ReallocKeep, ReallocAbsorb, ReallocUpgrade, ReallocEnd, Where, In
  <2> QED BY <2>1, UnlockStep
<1>17. CASE ReallocReduce(t) \/ ReallocRelocate(t) \/ Copy(t)
  <2>1. /\ \E label \in Out : Goto(t, label)
        /\ Where(t) = "in" /\ lock' = 0
    BY <1>17 DEF ReallocReduce, ReallocRelocate, Copy, Where, Out, In
  <2> QED BY <2>1, UnlockStep
<1> QED BY <1>1, <1>2, <1>3, <1>4, <1>5, <1>6, <1>7, <1>8, <1>9, <1>10, <1>11, <1>12,
           <1>13, <1>14, <1>15, <1>16, <1>17
        DEF Call, Step, Malloc, Free, Realloc

LEMMA NextIsLockStep == TypeOK /\ [Next]_vars => [Spin!Next]_Spin!vars
<1> SUFFICES ASSUME TypeOK, [Next]_vars PROVE [Spin!Next]_Spin!vars
  OBVIOUS
<1>1. CASE pc' = pc /\ lock' = lock
  BY <1>1 DEF Spin!vars, Where
<1>2. CASE Write
  BY <1>1, <1>2 DEF Write
<1>3. CASE UNCHANGED vars
  BY <1>1, <1>3 DEF vars
<1>4. ASSUME NEW t \in Threads, Call(t) \/ Step(t) PROVE [Spin!Next]_Spin!vars
  BY <1>4, StepIsLockStep
<1>5. ASSUME NEW t \in Threads, Halt(t) PROVE [Spin!Next]_Spin!vars
  BY <1>3, <1>5 DEF Halt
<1> QED BY <1>2, <1>3, <1>4, <1>5 DEF Next

LEMMA InitIsLockInit == Init => Spin!Init
  BY SideFacts DEF Init, Spin!Init, Where, Side, Wait, In

(* malloc, calloc, realloc and free, and their calls of each other, take   *)
(* the lock before they change tags, links or dibbs, release it only when  *)
(* they hold it, and never take it twice: every behaviour of the allocator *)
(* is one of the lock in Spinlock.                                         *)
THEOREM LockUsedAsLock == Spec => LockDiscipline
<1>1. Init => Spin!Init
  BY InitIsLockInit
<1>2. TypeOK /\ [Next]_vars => [Spin!Next]_Spin!vars
  BY NextIsLockStep
<1> QED BY <1>1, <1>2, TypeCorrect, PTL DEF Spec, LockDiscipline, Spin!Spec

(* SpinlockProofs for the allocator's lock. *)
SP == INSTANCE SpinlockProofs WITH l <- lock, at <- [t \in Threads |-> Where(t)]

(* At most one thread is between a lock() and the unlock() that follows    *)
(* it, and the lock word is 1 exactly while one is: the steps on the free  *)
(* list and on the tags of two calls never interleave.                     *)
THEOREM OneThreadInside == Spec => []Spin!MutualExclusion
<1>1. Spec => SP!Spec
  <2>1. Init => SP!Init
    BY InitIsLockInit DEF SP!Init, Spin!Init
  <2>2. TypeOK /\ [Next]_vars => [SP!Next]_SP!vars
    BY NextIsLockStep
       DEF SP!Next, SP!Step, SP!CallLock, SP!TestAndSet, SP!Unlock, SP!vars,
           Spin!Next, Spin!Step, Spin!CallLock, Spin!TestAndSet, Spin!Unlock, Spin!vars
  <2> QED BY <2>1, <2>2, TypeCorrect, PTL DEF Spec, SP!Spec
<1>2. SP!Spec => []SP!MutualExclusion
  BY SP!SpinlockExcludes
<1>3. SP!MutualExclusion => Spin!MutualExclusion
  BY DEF SP!MutualExclusion, Spin!MutualExclusion
<1> QED BY <1>1, <1>2, <1>3, PTL
=============================================================================
