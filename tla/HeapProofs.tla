----------------------------- MODULE HeapProofs -----------------------------
(***************************************************************************)
(* The heap of BLMalloc is correct, for any threads, any requests that     *)
(* leave room for their header in the address space and any heap whose     *)
(* first chunk fits: an inductive invariant, HeapInv, one lemma for each   *)
(* step of malloc, calloc, realloc and free, the properties of             *)
(* HeapProperties, and the refinement of Allocator.                        *)
(***************************************************************************)
EXTENDS HeapLemmas

(* No request is so near the end of size_t that ALIGN wraps: see README.md *)
(* for what the code does with those.                                      *)
RequestsFit ==
  /\ \A n \in MallocSizes \cup ReallocSizes : n + 4 < W
  /\ \A c \in CallocCounts : c[1] * c[2] + 4 < W

(* p is a pointer to a chunk in use. *)
UsedAt(p) == p - 1 \in hdrs /\ ~mem[p - 1].c.f

(* The block a call is about to return. *)
Got(t) == UsedAt(loc[t].res) /\ loc[t].asked <= Size(loc[t].res - 1)

(* The size a call asks for, before and after ALIGN. *)
RequestOK(l) == l.asked <= l.size /\ l.size + 3 < W /\ (l.size % 2 = 0 \/ l.size + 4 < W)

(* What a call's locals are at each place, as far as its own blocks go. *)
InMalloc  == {"malloc", "malloc_lock", "search", "overflow"}
InFree    == {"free", "free_lock", "merge", "assign_ptr"}
InRealloc == {"realloc_lock", "resize"}
InCopy    == {"copy", "copy_lock", "memcpy"}
InRelock  == {"relock", "relock_wait", "realloc_end"}

MallocOK(t) ==
  LET l == loc[t] IN
  /\ l.op \in {"malloc", "calloc", "realloc"} /\ l.res = 0 /\ RequestOK(l)
  /\ pc[t] # "malloc" => l.size > 0
  /\ pc[t] \in {"search", "overflow"} => l.size % 2 = 0
  /\ IF l.op = "realloc" THEN UsedAt(l.ptr) /\ Size(l.ptr - 1) < l.size /\ l.size % 2 = 0
                         ELSE l.ptr = 0

FreeOK(t) ==
  LET l == loc[t] IN
  /\ l.ptr - 1 \in hdrs
  /\ IF l.op = "realloc" THEN Got(t) /\ l.res # l.ptr
     ELSE l.op = "free" /\ l.res = 0 /\ (pc[t] # "assign_ptr" => UsedAt(l.ptr))
  /\ pc[t] = "assign_ptr" => mem[l.ptr - 1].c.f
  /\ pc[t] \in {"free_lock", "merge"} => l.nxt = After(l.ptr - 1)

CallOK(t) ==
  LET l == loc[t] IN
  /\ pc[t] # "panic"
  /\ pc[t] = "idle" => l = NoCall
  /\ pc[t] \in InMalloc => MallocOK(t)
  /\ pc[t] \in InFree => FreeOK(t)
  /\ pc[t] = "zero" =>
       /\ l.op = "calloc" /\ l.ptr = 0 /\ l.asked <= l.size
       /\ IF l.res = 0 THEN l.size = 0 ELSE UsedAt(l.res) /\ l.size <= Size(l.res - 1)
  /\ pc[t] = "return" =>
       /\ l.ptr = 0
       /\ IF l.res = 0 THEN l.op # "realloc" ELSE Got(t)
  /\ pc[t] \in InRealloc =>
       /\ l.op = "realloc" /\ l.res = 0 /\ UsedAt(l.ptr)
       /\ 0 < l.asked /\ RequestOK(l) /\ (pc[t] = "resize" => l.size % 2 = 0)
  /\ pc[t] \in InCopy =>
       /\ l.op = "realloc" /\ UsedAt(l.ptr) /\ Got(t) /\ l.res # l.ptr
       /\ Size(l.ptr - 1) < l.size /\ l.size <= Size(l.res - 1)
  /\ pc[t] \in InRelock => l.op = "realloc" /\ l.ptr = 0 /\ Got(t)

(* assign_ptr: no chunk beside the one in hand is free, and the walk is at *)
(* the first link or at one before it.                                     *)
AssignOK(t) ==
  pc[t] = "assign_ptr" =>
    LET l == loc[t]
        h == l.ptr - 1
    IN  /\ After(h) \notin FreeChunks
        /\ \A g \in FreeChunks : After(g) # h
        /\ mem[l.ptr].p = Link(0) /\ mem[l.ptr].c = Link(0)
        /\ l.f = dibbs + 1 \/ (l.f - 1 \in Listed /\ l.f < l.ptr)

(* get_usable_chunk: what the walk has passed, and the best of it. *)
Passed(t) == {h \in Listed : loc[t].f = 0 \/ h + 1 < loc[t].f}

SearchOK(t) ==
  pc[t] \in {"search", "overflow"} =>
    LET f == loc[t].f
        best == loc[t].best
    IN  /\ f = 0 \/ f - 1 \in Listed
        /\ \A h \in Passed(t) :
             /\ Size(h) # loc[t].size
             /\ Fits(h, loc[t].size) => best # 0 /\ Size(best) <= Size(h)
        /\ best # 0 => best \in Passed(t) /\ Fits(best, loc[t].size)

Calls == \A t \in Threads : CallOK(t) /\ AssignOK(t) /\ SearchOK(t)

(* The inductive invariant.  The properties alone are not inductive: the   *)
(* stores of a step are where its locals say, so Calls says for each place *)
(* in each call what its locals are.                                       *)
HeapInv ==
  /\ Tiles(mem, hdrs) /\ Footers(mem, hdrs)
  /\ FreeList(mem, Listed, dibbs)
  /\ Coalesced /\ BlocksAccountedFor
  /\ Calls

-----------------------------------------------------------------------------
(* What the locals of the calls say of the chunks.                         *)

(* The allocator between two steps, as far as the calls go. *)
Sane == TypeOK /\ Tiles(mem, hdrs) /\ \A u \in Threads : CallOK(u)

LEMMA SaneTypes ==
  ASSUME TypeOK, Tiles(mem, hdrs)
  PROVE  /\ mem \in Memory /\ pc \in [Threads -> Labels] /\ loc \in [Threads -> Locals]
         /\ hdrs \subseteq Addr /\ dibbs \in Addr /\ DOMAIN owned \subseteq Addr
         /\ \A h \in hdrs : h \in Int /\ Bottom <= h /\ h < End /\ 0 < h
         /\ \A t \in Threads : /\ loc[t].ptr \in Int /\ loc[t].res \in Int
                               /\ loc[t].ptr \in Addr /\ loc[t].res \in Addr
                               /\ pc[t] \in Labels
<1>1. mem \in Memory /\ pc \in [Threads -> Labels] /\ loc \in [Threads -> Locals]
      /\ hdrs \subseteq Addr /\ dibbs \in Addr /\ DOMAIN owned \subseteq Addr
  BY TypeOKMemory
<1>2. \A h \in hdrs : h \in Int /\ Bottom <= h /\ h < End /\ 0 < h
  BY <1>1, TilesAll, Geometry
<1>3. \A t \in Threads : loc[t].ptr \in Addr /\ loc[t].res \in Addr /\ pc[t] \in Labels
  BY <1>1 DEF Locals
<1> QED BY <1>1, <1>2, <1>3, AddrInt

LEMMA HeaderTypes ==
  TypeOK /\ Tiles(mem, hdrs) => mem \in Memory /\ hdrs \subseteq Addr /\ \A h \in hdrs : h \in Int
  BY SaneTypes

LEMMA HeaderTypesNext ==
  (TypeOK /\ Tiles(mem, hdrs) => mem \in Memory /\ hdrs \subseteq Addr /\ \A h \in hdrs : h \in Int)'
  BY HeaderTypes, PTL

LEMMA HeldCases ==
  ASSUME Sane, NEW u \in Threads, NEW p \in Held(u)
  PROVE  /\ p \in Int /\ p # 0 /\ p - 1 \in hdrs
         /\ UsedAt(p) \/ (Leaving(u) /\ p = loc[u].ptr)
<1>1. /\ pc[u] \in Labels /\ loc[u].ptr \in Int /\ loc[u].res \in Int
      /\ 0 - 1 \notin hdrs
  BY SaneTypes DEF Sane
<1>2. CallOK(u)
  BY DEF Sane
<1>3. p \in {loc[u].ptr, loc[u].res} /\ p # 0 /\ p \in Int
  BY <1>1 DEF Held
<1>4. CASE pc[u] = "idle"
  BY <1>2, <1>3, <1>4 DEF CallOK, NoCall
<1>5. CASE pc[u] \in InMalloc
  BY <1>2, <1>3, <1>5 DEF CallOK, MallocOK, UsedAt
<1>6. CASE pc[u] \in InFree
  <2>1. FreeOK(u) /\ Leaving(u)
    BY <1>2, <1>6 DEF CallOK, InFree, Leaving
  <2> QED BY <1>3, <2>1 DEF FreeOK, Got, UsedAt
<1>7. CASE pc[u] = "zero"
  BY <1>2, <1>3, <1>7 DEF CallOK, UsedAt
<1>8. CASE pc[u] = "return"
  <2>1. loc[u].ptr = 0 /\ (loc[u].res # 0 => Got(u))
    BY <1>2, <1>8 DEF CallOK
  <2> QED BY <1>3, <2>1 DEF Got, UsedAt
<1>9. CASE pc[u] \in InRealloc
  BY <1>2, <1>3, <1>9 DEF CallOK, UsedAt
<1>10. CASE pc[u] \in InCopy
  BY <1>2, <1>3, <1>10 DEF CallOK, Got, UsedAt
<1>11. CASE pc[u] \in InRelock
  BY <1>2, <1>3, <1>11 DEF CallOK, Got, UsedAt
<1>12. pc[u] # "panic"
  BY <1>2 DEF CallOK
<1> QED BY <1>1, <1>4, <1>5, <1>6, <1>7, <1>8, <1>9, <1>10, <1>11, <1>12
        DEF Labels, Out, Wait, In, InMalloc, InFree, InRealloc, InCopy, InRelock

LEMMA InTransitHeld ==
  ASSUME Sane, NEW u \in Threads, Leaving(u)
  PROVE  /\ Wrap(loc[u].ptr - 1) = loc[u].ptr - 1
         /\ loc[u].ptr - 1 \in hdrs /\ loc[u].ptr \in Held(u)
<1>1. FreeOK(u)
  BY DEF Sane, CallOK, Leaving, InFree
<1>2. loc[u].ptr - 1 \in hdrs /\ loc[u].ptr \in Int /\ 0 - 1 \notin hdrs /\ hdrs \subseteq Addr
  BY <1>1, SaneTypes DEF FreeOK, Sane
<1> QED BY <1>2, WrapIn DEF Held

Unheld == {h \in FreeChunks : \A u \in Threads : h + 1 \notin Held(u)}

(* The free chunks in no call's hands. *)
LEMMA ListedHeld == Sane => Listed = Unheld
<1> SUFFICES ASSUME Sane PROVE Listed = Unheld
  OBVIOUS
<1>1. ASSUME NEW h \in FreeChunks, NEW u \in Threads, h + 1 \in Held(u)
      PROVE  h \in InTransit
  <2>1. h \in Int
    BY SaneTypes DEF FreeChunks, Sane
  <2>2. ~UsedAt(h + 1)
    BY <2>1 DEF UsedAt, FreeChunks
  <2>3. Leaving(u) /\ h + 1 = loc[u].ptr
    BY <1>1, <2>2, HeldCases
  <2>4. Wrap(loc[u].ptr - 1) = h
    BY <2>1, <2>3, InTransitHeld
  <2> QED BY <2>3, <2>4 DEF InTransit
<1>2. ASSUME NEW h \in InTransit PROVE \E u \in Threads : h + 1 \in Held(u)
  <2>1. PICK u \in Threads : Leaving(u) /\ h = Wrap(loc[u].ptr - 1)
    BY DEF InTransit
  <2>2. h = loc[u].ptr - 1 /\ loc[u].ptr \in Held(u) /\ loc[u].ptr \in Int
    BY <2>1, InTransitHeld, SaneTypes DEF Sane
  <2> QED BY <2>2
<1> QED BY <1>1, <1>2 DEF Listed, Unheld

LEMMA ListedHeldNext == (Sane => Listed = Unheld)'
  BY ListedHeld, PTL

-----------------------------------------------------------------------------
(* Steps, as far as the other calls and the clients' blocks go.            *)

Others(t) == \A u \in Threads \ {t} : pc'[u] = pc[u] /\ loc'[u] = loc[u]

(* A call whose blocks keep their tags stays as it is. *)
LEMMA CallKept ==
  ASSUME Sane, NEW u \in Threads, pc'[u] = pc[u], loc'[u] = loc[u],
         \A p \in Held(u) : p - 1 \in hdrs' /\ mem'[p - 1].c = mem[p - 1].c
  PROVE  CallOK(u)'
<1> DEFINE l == loc[u]
<1>1. CallOK(u) /\ 0 - 1 \notin hdrs /\ l.ptr \in Int /\ l.res \in Int
  BY SaneTypes DEF Sane
<1>2. ASSUME NEW p \in {l.ptr, l.res}, p - 1 \in hdrs
      PROVE  p - 1 \in hdrs' /\ mem'[p - 1].c = mem[p - 1].c
  <2>1. p \in Held(u)
    BY <1>1, <1>2 DEF Held
  <2> QED BY <2>1
<1>3. ASSUME NEW p \in {l.ptr, l.res}, UsedAt(p)
      PROVE  UsedAt(p)' /\ Size(p - 1)' = Size(p - 1)
  BY <1>2, <1>3 DEF UsedAt, Size
<1>4. Got(u) => Got(u)'
  BY <1>3 DEF Got, Size, UsedAt
<1>5. MallocOK(u) => MallocOK(u)'
  BY <1>3 DEF MallocOK, RequestOK
<1>6. FreeOK(u) => FreeOK(u)'
  <2>1. UsedAt(l.ptr) => UsedAt(l.ptr)'
    BY <1>3
  <2>2. l.ptr - 1 \in hdrs => After(l.ptr - 1)' = After(l.ptr - 1)
    BY <1>2 DEF After, Size
  <2> QED BY <1>2, <1>4, <2>1, <2>2 DEF FreeOK
<1>7. CASE pc[u] \in InMalloc \cup InFree
  BY <1>1, <1>5, <1>6, <1>7 DEF CallOK, InMalloc, InFree, InRealloc, InCopy, InRelock
<1>8. CASE pc[u] \in InRealloc
  BY <1>1, <1>3, <1>8 DEF CallOK, InMalloc, InFree, InRealloc, InCopy, InRelock
<1>9. CASE pc[u] \in InCopy
  <2>1. UsedAt(l.ptr) /\ UsedAt(l.res)
    BY <1>1, <1>9 DEF CallOK, Got
  <2> QED BY <1>1, <1>3, <1>4, <1>9, <2>1 DEF CallOK, InMalloc, InFree, InRealloc, InCopy, InRelock
<1>10. CASE pc[u] \notin InMalloc \cup InFree \cup InRealloc \cup InCopy
  BY <1>1, <1>3, <1>4, <1>10 DEF CallOK
<1> QED BY <1>7, <1>8, <1>9, <1>10

(* A step of t on the heap: the chunks that are neither listed nor in its  *)
(* hands keep their headers, the chunks in use are those or in its hands,  *)
(* and what it has in its hands it had, or took from the list, or made.    *)
Frame(t) ==
  /\ Others(t) /\ owned' = owned
  /\ \A g \in hdrs : g \notin Listed /\ g + 1 \notin Held(t)
                       => g \in hdrs' /\ mem'[g].c = mem[g].c
  /\ \A g \in hdrs' : ~mem'[g].c.f
       => (g \in hdrs /\ ~mem[g].c.f /\ g + 1 \notin Held(t)) \/ g + 1 \in Held(t)'
  /\ \A p \in Held(t)' : p - 1 \in hdrs'
                           /\ (p \in Held(t) \/ p - 1 \in Listed \/ p - 1 \notin hdrs)

LEMMA FrameHeld ==
  ASSUME Sane, BlocksAccountedFor, NEW t \in Threads, Frame(t),
         NEW u \in Threads \ {t}, NEW p \in Held(u)
  PROVE  /\ p - 1 \in hdrs /\ p - 1 \notin Listed /\ p \notin Held(t)
         /\ p - 1 \in hdrs' /\ mem'[p - 1].c = mem[p - 1].c
<1>1. p - 1 \in hdrs /\ p \in Int /\ p - 1 + 1 = p
  BY HeldCases
<1>2. p - 1 \notin Listed
  BY <1>1, ListedHeld DEF Unheld
<1>3. p \notin Held(t)
  BY DEF BlocksAccountedFor
<1> QED BY <1>1, <1>2, <1>3 DEF Frame

LEMMA FrameOthers ==
  ASSUME Sane, BlocksAccountedFor, NEW t \in Threads, Frame(t), NEW u \in Threads \ {t}
  PROVE  CallOK(u)' /\ Held(u)' = Held(u)
<1>1. pc'[u] = pc[u] /\ loc'[u] = loc[u]
  BY DEF Frame, Others
<1>2. \A p \in Held(u) : p - 1 \in hdrs' /\ mem'[p - 1].c = mem[p - 1].c
  BY FrameHeld
<1>3. CallOK(u)'
  BY <1>1, <1>2, CallKept
<1> QED BY <1>1, <1>3 DEF Held

LEMMA FrameBlocks ==
  ASSUME Sane, BlocksAccountedFor, NEW t \in Threads, Frame(t), Tiles(mem, hdrs)',
         TypeOK'
  PROVE  BlocksAccountedFor'
<1>1. /\ \A g \in hdrs : g \in Int
      /\ \A g \in hdrs' : g \in Int
      /\ DOMAIN owned \subseteq Int
  BY HeaderTypesNext, SaneTypes, AddrInt DEF Sane
<1>2. ASSUME NEW p \in DOMAIN owned
      PROVE  p - 1 \in hdrs' /\ mem'[p - 1].c = mem[p - 1].c /\ ~mem[p - 1].c.f
             /\ p \notin Held(t) /\ p - 1 \in hdrs /\ p - 1 \notin Listed
  <2>1. p - 1 \in hdrs /\ ~mem[p - 1].c.f /\ p \notin Held(t)
    BY DEF BlocksAccountedFor, FreeChunks
  <2>2. p - 1 \notin Listed /\ p - 1 + 1 = p
    BY <1>1, <2>1 DEF Listed, FreeChunks
  <2> QED BY <2>1, <2>2 DEF Frame
<1>3. \A p \in DOMAIN owned' : p - 1 \in (hdrs \ FreeChunks)' /\ Size(p - 1)' >= owned'[p]
  <2>1. owned' = owned
    BY DEF Frame
  <2>2. \A p \in DOMAIN owned : Size(p - 1) >= owned[p]
    BY DEF BlocksAccountedFor
  <2> QED BY <1>2, <2>1, <2>2 DEF FreeChunks, Size
<1>4. ASSUME NEW h \in (hdrs \ FreeChunks)'
      PROVE  h + 1 \in DOMAIN owned' \cup UNION {Held(u)' : u \in Threads}
  <2>1. h \in hdrs' /\ ~mem'[h].c.f
    BY DEF FreeChunks
  <2>2. CASE h + 1 \in Held(t)'
    BY <2>2
  <2>3. CASE h \in hdrs /\ ~mem[h].c.f /\ h + 1 \notin Held(t)
    <3>1. h + 1 \in DOMAIN owned \/ \E u \in Threads : h + 1 \in Held(u)
      BY <2>3 DEF BlocksAccountedFor, FreeChunks
    <3>2. CASE h + 1 \in DOMAIN owned
      BY <3>2 DEF Frame
    <3>3. ASSUME NEW u \in Threads, h + 1 \in Held(u)
          PROVE  h + 1 \in Held(u)'
      BY <2>3, <3>3, FrameOthers
    <3> QED BY <3>1, <3>2, <3>3
  <2> QED BY <2>1, <2>2, <2>3 DEF Frame
<1>5. ASSUME NEW p \in Held(t)'
      PROVE  p - 1 \in hdrs' /\ p \notin DOMAIN owned' /\ \A u \in Threads \ {t} : p \notin Held(u)
  <2>1. p - 1 \in hdrs' /\ (p \in Held(t) \/ p - 1 \in Listed \/ p - 1 \notin hdrs)
    BY DEF Frame
  <2>2. p \notin DOMAIN owned'
    BY <1>2, <2>1 DEF Frame
  <2>3. ASSUME NEW u \in Threads \ {t}, p \in Held(u) PROVE FALSE
    BY <2>1, <2>3, FrameHeld
  <2> QED BY <2>1, <2>2, <2>3
<1>6. ASSUME NEW u \in Threads, NEW p \in Held(u)'
      PROVE  /\ p - 1 \in hdrs' /\ p \notin DOMAIN owned'
             /\ \A v \in Threads \ {u} : p \notin Held(v)'
  <2>1. CASE u = t
    BY <1>5, <2>1, FrameOthers
  <2>2. CASE u # t
    <3>1. p \in Held(u)
      BY <2>2, FrameOthers
    <3>2. p - 1 \in hdrs'
      BY <2>2, <3>1, FrameHeld
    <3>3. p \notin DOMAIN owned' /\ \A v \in Threads \ {u} : p \notin Held(v)
      BY <3>1 DEF BlocksAccountedFor, Frame
    <3>4. p \notin Held(t)'
      BY <1>5, <2>2, <3>1
    <3> QED BY <3>2, <3>3, <3>4, FrameOthers
  <2> QED BY <2>1, <2>2
<1>7. \A u \in Threads : \A p \in Held(u)' :
        /\ p - 1 \in hdrs' /\ p \notin DOMAIN owned'
        /\ \A v \in Threads \ {u} : p \notin Held(v)'
  BY <1>6
<1> QED BY <1>3, <1>4, <1>7 DEF BlocksAccountedFor

(* The list after such a step: chunks of the old list, of t or new ones. *)
NewList(t, T) ==
  /\ T \subseteq hdrs'
  /\ \A g \in T : /\ mem'[g].c.f /\ g + 1 \notin Held(t)'
                  /\ g \in Listed \/ g + 1 \in Held(t) \/ g \notin hdrs
  /\ \A g \in hdrs' \ T : \/ ~mem'[g].c.f \/ g + 1 \in Held(t)'
                          \/ g \in hdrs /\ g \notin Listed /\ g + 1 \notin Held(t)

LEMMA FrameListed ==
  ASSUME Sane, BlocksAccountedFor, NEW t \in Threads, Frame(t), NEW T, NewList(t, T), Sane'
  PROVE  Listed' = T
<1>1. Listed' = Unheld'
  BY ListedHeldNext
<1>2. /\ \A g \in hdrs : g \in Int
      /\ \A g \in hdrs' : g \in Int
  BY HeaderTypesNext, SaneTypes DEF Sane
<1>3. ASSUME NEW g \in T PROVE g \in Unheld'
  <2>1. ASSUME NEW u \in Threads, g + 1 \in Held(u)' PROVE FALSE
    <3>1. u # t /\ g + 1 \in Held(u)
      BY <2>1, FrameOthers DEF NewList
    <3> DEFINE p == g + 1
    <3>2. p - 1 = g /\ p \in Held(u) /\ u \in Threads \ {t}
      BY <1>2, <3>1 DEF NewList
    <3> HIDE DEF p
    <3>3. p - 1 \in hdrs /\ p - 1 \notin Listed /\ p \notin Held(t)
      BY <3>2, FrameHeld
    <3> QED BY <3>2, <3>3 DEF NewList, p
  <2> QED BY <2>1 DEF Unheld, FreeChunks, NewList
<1>4. ASSUME NEW g \in Unheld', g \notin T PROVE FALSE
  <2>1. g \in hdrs' /\ mem'[g].c.f /\ g + 1 \notin Held(t)'
    BY DEF Unheld, FreeChunks
  <2>2. g \in hdrs /\ g \notin Listed /\ g + 1 \notin Held(t)
    BY <1>4, <2>1 DEF NewList
  <2>3. mem[g].c.f
    BY <2>1, <2>2 DEF Frame
  <2>4. PICK u \in Threads : g + 1 \in Held(u)
    BY <2>2, <2>3, ListedHeld DEF Unheld, FreeChunks
  <2>5. u # t /\ g + 1 \in Held(u)'
    BY <2>2, <2>4, FrameOthers
  <2> QED BY <2>5 DEF Unheld
<1> QED BY <1>1, <1>3, <1>4

(* One thread at most is in the code between lock() and unlock(). *)
Alone == \A t, u \in Threads : pc[t] \in In /\ pc[u] \in In => t = u

ListApart(m, S) == \A h \in S : EndOf(m, h) \notin S

LEMMA HeapInvIs ==
  HeapInv <=> /\ HeapOK(mem, hdrs, Listed, dibbs)
              /\ ListApart(mem, Listed) /\ BlocksAccountedFor
              /\ \A t \in Threads : CallOK(t) /\ AssignOK(t) /\ SearchOK(t)
<1>1. Listed \subseteq hdrs
  BY DEF Listed, FreeChunks
<1> QED BY <1>1 DEF HeapInv, HeapOK, Calls, Coalesced, ListApart, After, EndOf, Size

LEMMA HeapInvNext ==
  (HeapInv <=> /\ HeapOK(mem, hdrs, Listed, dibbs)
               /\ ListApart(mem, Listed) /\ BlocksAccountedFor
               /\ \A t \in Threads : CallOK(t) /\ AssignOK(t) /\ SearchOK(t))'
  BY HeapInvIs, PTL

LEMMA InvSane == TypeOK /\ HeapInv => Sane
  BY DEF HeapInv, Calls, Sane

(* A step on the heap by the thread that holds the lock. *)
LEMMA Changed ==
  ASSUME TypeOK, HeapInv, Alone, TypeOK',
         NEW t \in Threads, pc[t] \in In, Frame(t), NEW T, NewList(t, T),
         HeapOK(mem', hdrs', T, dibbs'), ListApart(mem', T),
         CallOK(t)', pc'[t] \notin {"assign_ptr", "search", "overflow"} \/ (AssignOK(t) /\ SearchOK(t))'
  PROVE  HeapInv'
<1>1. Sane /\ BlocksAccountedFor
  BY InvSane DEF HeapInv
<1>2. \A u \in Threads : CallOK(u)'
  BY <1>1, FrameOthers
<1>3. Tiles(mem, hdrs)' /\ Sane'
  BY <1>2 DEF HeapOK, Sane
<1>4. BlocksAccountedFor'
  BY <1>1, <1>3, FrameBlocks
<1>5. Listed' = T
  BY <1>1, <1>3, FrameListed
<1>6. ASSUME NEW u \in Threads PROVE (AssignOK(u) /\ SearchOK(u))'
  <2>1. CASE u # t
    <3>1. pc'[u] = pc[u] /\ pc[u] \notin In
      BY <2>1 DEF Frame, Others, Alone
    <3> QED BY <3>1 DEF AssignOK, SearchOK, In
  <2>2. CASE u = t
    BY <2>2 DEF AssignOK, SearchOK
  <2> QED BY <2>1, <2>2
<1>7. (HeapOK(mem, hdrs, Listed, dibbs) /\ ListApart(mem, Listed))'
  BY <1>5
<1> QED BY <1>2, <1>4, <1>6, <1>7, HeapInvNext

-----------------------------------------------------------------------------
(* Steps that leave tags, links and dibbs alone.                           *)

Calm ==
  /\ hdrs' = hdrs /\ dibbs' = dibbs
  /\ \A h \in hdrs \cup {End} : mem'[h] = mem[h]
  /\ \A h \in FreeChunks : mem'[h + 1] = mem[h + 1]

LEMMA CalmFacts ==
  ASSUME Calm
  PROVE  /\ FreeChunks' = FreeChunks
         /\ \A h \in hdrs : Size(h)' = Size(h) /\ After(h)' = After(h)
         /\ \A p : UsedAt(p)' <=> UsedAt(p)
         /\ \A p : UsedAt(p) => Size(p - 1)' = Size(p - 1)
  BY DEF Calm, FreeChunks, Size, After, UsedAt

HoldsSame ==
  \A h \in FreeChunks :
    (\E u \in Threads : h + 1 \in Held(u)') <=> (\E u \in Threads : h + 1 \in Held(u))

LEMMA CalmHeap ==
  ASSUME TypeOK, HeapInv, Calm, HoldsSame, Sane'
  PROVE  /\ Listed' = Listed
         /\ (HeapOK(mem, hdrs, Listed, dibbs) /\ ListApart(mem, Listed))'
         /\ \A u \in Threads : pc'[u] = pc[u] /\ loc'[u] = loc[u] =>
              (AssignOK(u) /\ SearchOK(u))'
<1>1. Sane /\ HeapOK(mem, hdrs, Listed, dibbs) /\ ListApart(mem, Listed)
  BY InvSane, HeapInvIs
<1>2. mem \in Memory /\ \A h \in hdrs : h \in Int
  BY <1>1, HeaderTypes DEF Sane
<1>3. /\ FreeChunks' = FreeChunks
      /\ \A h \in hdrs : Size(h)' = Size(h) /\ After(h)' = After(h)
  BY CalmFacts
<1>4. Listed' = Listed
  BY <1>1, <1>3, ListedHeld, ListedHeldNext DEF Unheld, HoldsSame
<1>5. Listed \subseteq FreeChunks /\ FreeChunks \subseteq hdrs
  BY DEF Listed, FreeChunks
<1>6. HeapOK(mem', hdrs, Listed, dibbs) /\ \A g \in hdrs : EndOf(mem', g) = EndOf(mem, g)
  BY <1>1, <1>2, <1>5, HeapSame DEF Calm
<1>7. (HeapOK(mem, hdrs, Listed, dibbs) /\ ListApart(mem, Listed))'
  BY <1>1, <1>4, <1>5, <1>6 DEF Calm, ListApart
<1>8. ASSUME NEW u \in Threads, pc'[u] = pc[u], loc'[u] = loc[u]
      PROVE  (AssignOK(u) /\ SearchOK(u))'
  <2>1. AssignOK(u) /\ SearchOK(u)
    BY DEF HeapInv, Calls
  <2>2. PICK l : l = loc[u] /\ l = loc'[u]
    BY <1>8
  <2>3. ASSUME pc[u] = "assign_ptr" PROVE AssignOK(u)'
    <3>1. CallOK(u) /\ FreeOK(u)
      BY <2>3 DEF HeapInv, Calls, CallOK, InFree
    <3>2. PICK h : h = l.ptr - 1
      OBVIOUS
    <3>3. h \in hdrs /\ h \in FreeChunks /\ h + 1 = l.ptr
      <4>1. l.ptr \in Int
        BY <1>1, <2>2, SaneTypes DEF Sane
      <4> QED BY <2>2, <2>3, <3>1, <3>2, <4>1 DEF FreeOK, FreeChunks
    <3>4. /\ After(h) \notin FreeChunks
          /\ \A g \in FreeChunks : After(g) # h
          /\ mem[l.ptr].p = Link(0) /\ mem[l.ptr].c = Link(0)
          /\ l.f = dibbs + 1 \/ (l.f - 1 \in Listed /\ l.f < l.ptr)
      BY <2>1, <2>2, <2>3, <3>2 DEF AssignOK
    <3>5. mem'[l.ptr] = mem[l.ptr]
      BY <3>3 DEF Calm
    <3>6. /\ After(h)' \notin FreeChunks'
          /\ \A g \in FreeChunks' : After(g)' # h
      BY <1>3, <1>5, <3>3, <3>4
    <3>7. l.f = dibbs' + 1 \/ (l.f - 1 \in Listed' /\ l.f < l.ptr)
      BY <1>4, <3>4 DEF Calm
    <3> QED BY <2>2, <3>2, <3>4, <3>5, <3>6, <3>7 DEF AssignOK
  <2>4. ASSUME pc[u] \in {"search", "overflow"} PROVE SearchOK(u)'
    <3> DEFINE passed == {h \in Listed : l.f = 0 \/ h + 1 < l.f}
    <3>1. Passed(u) = passed /\ Passed(u)' = passed
      BY <1>4, <2>2 DEF Passed
    <3>2. \A h \in passed : Size(h)' = Size(h)
      BY <1>3, <1>5
    <3>3. \A h \in passed : Fits(h, l.size)' <=> Fits(h, l.size)
      BY <3>2 DEF Fits
    <3>4. /\ l.f = 0 \/ l.f - 1 \in Listed
          /\ \A h \in passed :
               /\ Size(h) # l.size
               /\ Fits(h, l.size) => l.best # 0 /\ Size(l.best) <= Size(h)
          /\ l.best # 0 => l.best \in passed /\ Fits(l.best, l.size)
      BY <2>1, <2>2, <2>4, <3>1 DEF SearchOK
    <3> HIDE DEF passed
    <3>5. /\ l.f = 0 \/ l.f - 1 \in Listed'
          /\ \A h \in passed :
               /\ Size(h)' # l.size
               /\ Fits(h, l.size)' => l.best # 0 /\ Size(l.best)' <= Size(h)'
          /\ l.best # 0 => l.best \in passed /\ Fits(l.best, l.size)'
      BY <1>4, <3>2, <3>3, <3>4
    <3> QED BY <2>2, <3>1, <3>5 DEF SearchOK
  <2>5. AssignOK(u)'
    BY <1>8, <2>3 DEF AssignOK
  <2>6. SearchOK(u)'
    BY <1>8, <2>4 DEF SearchOK
  <2> QED BY <2>5, <2>6
<1> QED BY <1>4, <1>7, <1>8

(* The step of t, its own invariants given. *)
LEMMA CalmStep ==
  ASSUME TypeOK, HeapInv, TypeOK', NEW t \in Threads, Calm, HoldsSame, Others(t),
         CallOK(t)', BlocksAccountedFor',
         \/ pc'[t] \notin {"assign_ptr", "search", "overflow"}
         \/ Listed' = Listed => (AssignOK(t) /\ SearchOK(t))'
  PROVE  HeapInv'
<1>1. Sane /\ Tiles(mem, hdrs)
  BY InvSane DEF Sane
<1>2. ASSUME NEW u \in Threads, u # t PROVE CallOK(u)' /\ pc'[u] = pc[u] /\ loc'[u] = loc[u]
  <2>1. pc'[u] = pc[u] /\ loc'[u] = loc[u]
    BY <1>2 DEF Others
  <2>2. \A p \in Held(u) : p - 1 \in hdrs' /\ mem'[p - 1].c = mem[p - 1].c
    BY <1>1, HeldCases DEF Calm
  <2> QED BY <1>1, <2>1, <2>2, CallKept
<1>3. Tiles(mem, hdrs)'
  <2>1. \A h \in hdrs : mem'[h].c.v = mem[h].c.v
    BY DEF Calm
  <2> QED BY <1>1, <2>1, TilesSame DEF Calm
<1>4. Sane'
  BY <1>2, <1>3 DEF Sane
<1>5. /\ Listed' = Listed
      /\ (HeapOK(mem, hdrs, Listed, dibbs) /\ ListApart(mem, Listed))'
      /\ \A u \in Threads : pc'[u] = pc[u] /\ loc'[u] = loc[u] =>
           (AssignOK(u) /\ SearchOK(u))'
  BY <1>4, CalmHeap
<1>6. (AssignOK(t) /\ SearchOK(t))'
  BY <1>5 DEF AssignOK, SearchOK
<1> QED BY <1>2, <1>5, <1>6, HeapInvNext

(* The clients' blocks and those of the calls stay the same. *)
LEMMA Light ==
  ASSUME TypeOK, HeapInv, TypeOK', NEW t \in Threads, Calm, Others(t),
         owned' = owned, Held(t)' = Held(t), CallOK(t)',
         \/ pc'[t] \notin {"assign_ptr", "search", "overflow"}
         \/ Listed' = Listed => (AssignOK(t) /\ SearchOK(t))'
  PROVE  HeapInv'
<1>1. Sane /\ BlocksAccountedFor
  BY InvSane DEF HeapInv
<1>2. Frame(t)
  <2>1. \A p \in Held(t) : p - 1 \in hdrs'
    BY <1>1, HeldCases DEF Calm
  <2> QED BY <2>1 DEF Frame, Calm
<1>3. HoldsSame
  <2>1. \A u \in Threads : Held(u)' = Held(u)
    BY <1>1, <1>2, FrameOthers
  <2> QED BY <2>1 DEF HoldsSame
<1>4. Tiles(mem, hdrs)'
  <2>1. \A h \in hdrs : mem'[h].c.v = mem[h].c.v
    BY DEF Calm
  <2> QED BY <1>1, <2>1, TilesSame DEF Calm, Sane
<1>5. BlocksAccountedFor'
  BY <1>1, <1>2, <1>4, FrameBlocks
<1> QED BY <1>3, <1>5, CalmStep

-----------------------------------------------------------------------------
(* Control: what the returns leave in the locals.                          *)

LEMMA GotoFacts ==
  ASSUME TypeOK, NEW t \in Threads, NEW label, Goto(t, label)
  PROVE  pc'[t] = label /\ \A u \in Threads \ {t} : pc'[u] = pc[u]
  BY TypeOKMemory DEF Goto

LEMMA LocalsSet ==
  ASSUME TypeOK, NEW t \in Threads, NEW l, loc' = [loc EXCEPT ![t] = l]
  PROVE  loc'[t] = l /\ \A u \in Threads \ {t} : loc'[u] = loc[u]
  BY TypeOKMemory

LEMMA LocalsType ==
  ASSUME TypeOK, NEW t \in Threads
  PROVE  /\ loc[t] \in Locals /\ loc[t].op \in Ops /\ loc[t].asked \in Nat
         /\ loc[t].size \in Addr /\ loc[t].ptr \in Addr /\ loc[t].f \in Addr
         /\ loc[t].best \in Addr /\ loc[t].nxt \in Addr /\ loc[t].res \in Addr
         /\ loc[t].size \in Int /\ loc[t].ptr \in Int /\ loc[t].f \in Int
         /\ loc[t].best \in Int /\ loc[t].res \in Int /\ loc[t].asked \in Int
         /\ pc[t] \in Labels
<1>1. loc[t] \in Locals /\ pc[t] \in Labels
  BY TypeOKMemory
<1> QED BY <1>1, AddrInt DEF Locals

LEMMA MallocReturned ==
  ASSUME TypeOK, NEW t \in Threads, NEW r, MallocReturns(t, r)
  PROVE  /\ Others(t)
         /\ pc'[t] = CASE loc[t].op = "calloc"  -> "zero"
                       [] loc[t].op = "realloc" -> "copy"
                       [] OTHER                 -> "return"
         /\ loc'[t].res = r /\ loc'[t].f = 0 /\ loc'[t].best = 0
         /\ loc'[t].op = loc[t].op /\ loc'[t].asked = loc[t].asked
         /\ loc'[t].size = loc[t].size /\ loc'[t].ptr = loc[t].ptr
<1>1. loc \in [Threads -> Locals]
  BY TypeOKMemory
<1>2. loc' = [loc EXCEPT ![t].res = r, ![t].f = 0, ![t].best = 0]
  BY DEF MallocReturns
<1>3. /\ loc'[t].res = r /\ loc'[t].f = 0 /\ loc'[t].best = 0
      /\ loc'[t].op = loc[t].op /\ loc'[t].asked = loc[t].asked
      /\ loc'[t].size = loc[t].size /\ loc'[t].ptr = loc[t].ptr
      /\ \A u \in Threads \ {t} : loc'[u] = loc[u]
  BY <1>1, <1>2 DEF Locals
<1> QED BY <1>3, GotoFacts DEF MallocReturns, Others

LEMMA FreeReturned ==
  ASSUME TypeOK, NEW t \in Threads, FreeReturns(t)
  PROVE  /\ Others(t)
         /\ pc'[t] = IF loc[t].op = "realloc" THEN "relock" ELSE "return"
         /\ loc'[t].ptr = 0 /\ loc'[t].op = loc[t].op /\ loc'[t].asked = loc[t].asked
         /\ loc'[t].res = loc[t].res
<1>1. loc \in [Threads -> Locals]
  BY TypeOKMemory
<1>2. loc' = [loc EXCEPT ![t].ptr = 0, ![t].f = 0, ![t].nxt = 0]
  BY DEF FreeReturns
<1>3. /\ loc'[t].ptr = 0 /\ loc'[t].op = loc[t].op /\ loc'[t].asked = loc[t].asked
      /\ loc'[t].res = loc[t].res
      /\ \A u \in Threads \ {t} : loc'[u] = loc[u]
  BY <1>1, <1>2 DEF Locals
<1> QED BY <1>3, GotoFacts DEF FreeReturns, Others

LEMMA ReallocReturned ==
  ASSUME TypeOK, NEW t \in Threads, NEW r, ReallocReturns(t, r)
  PROVE  /\ Others(t) /\ pc'[t] = "return"
         /\ loc'[t].res = r /\ loc'[t].ptr = 0 /\ loc'[t].asked = loc[t].asked
<1>1. loc \in [Threads -> Locals]
  BY TypeOKMemory
<1>2. loc' = [loc EXCEPT ![t].res = r, ![t].ptr = 0]
  BY DEF ReallocReturns
<1>3. /\ loc'[t].res = r /\ loc'[t].ptr = 0 /\ loc'[t].asked = loc[t].asked
      /\ \A u \in Threads \ {t} : loc'[u] = loc[u]
  BY <1>1, <1>2 DEF Locals
<1> QED BY <1>3, GotoFacts DEF ReallocReturns, Others

(* What CallOK says at the labels of a call. *)
LEMMA IdleCall ==
  ASSUME TypeOK, HeapInv, NEW t \in Threads, pc[t] = "idle"
  PROVE  loc[t] = NoCall /\ Held(t) = {}
<1>1. loc[t] = NoCall
  BY DEF HeapInv, Calls, CallOK
<1> QED BY <1>1 DEF NoCall, Held

LEMMA UnchangedCalm ==
  ASSUME UNCHANGED heap
  PROVE  Calm
  BY DEF heap, Calm

-----------------------------------------------------------------------------
(* The calls of clients.                                                   *)

LEMMA CallMallocInv ==
  ASSUME TypeOK, HeapInv, RequestsFit, TypeOK', NEW t \in Threads, CallMalloc(t)
  PROVE  HeapInv'
<1>1. loc[t] = NoCall /\ Held(t) = {}
  BY IdleCall DEF CallMalloc
<1>2. PICK n \in MallocSizes :
        loc' = [loc EXCEPT ![t].op = "malloc", ![t].asked = n, ![t].size = n]
  BY DEF CallMalloc
<1>3. /\ loc'[t].op = "malloc" /\ loc'[t].asked = n /\ loc'[t].size = n
      /\ loc'[t].ptr = 0 /\ loc'[t].res = 0
      /\ \A u \in Threads \ {t} : loc'[u] = loc[u]
  BY <1>1, <1>2, TypeOKMemory DEF NoCall
<1>4. pc'[t] = "malloc" /\ Others(t)
  BY <1>3, GotoFacts DEF CallMalloc, Others
<1>5. CallOK(t)'
  <2>1. n \in Addr /\ n + 4 < W /\ n \in Int /\ W \in Int
    BY Clients, AddrInt, Geometry DEF RequestsFit
  <2>2. MallocOK(t)'
    BY <1>3, <1>4, <2>1 DEF MallocOK, RequestOK
  <2> QED BY <1>4, <2>2 DEF CallOK, InFree, InRealloc, InCopy, InRelock
<1>6. Held(t)' = Held(t)
  BY <1>1, <1>3 DEF Held
<1> QED BY <1>4, <1>5, <1>6, UnchangedCalm, Light DEF CallMalloc

LEMMA CallCallocInv ==
  ASSUME TypeOK, HeapInv, RequestsFit, TypeOK', NEW t \in Threads, CallCalloc(t)
  PROVE  HeapInv'
<1>1. loc[t] = NoCall /\ Held(t) = {}
  BY IdleCall DEF CallCalloc
<1>2. PICK c \in CallocCounts :
        loc' = [loc EXCEPT ![t].op = "calloc", ![t].asked = c[1] * c[2],
                           ![t].size = (c[1] * c[2]) % W]
  BY DEF CallCalloc
<1>3. PICK n : n = c[1] * c[2]
  OBVIOUS
<1>4. n \in Nat /\ n + 4 < W /\ n % W = n
  <2>1. c[1] \in Addr /\ c[2] \in Addr
    BY Clients
  <2>2. n \in Nat
    BY <1>3, <2>1, ProductType
  <2>3. n + 4 < W
    BY <1>3 DEF RequestsFit
  <2> QED BY <2>2, <2>3, Geometry
<1>5. /\ loc'[t].op = "calloc" /\ loc'[t].asked = n /\ loc'[t].size = n
      /\ loc'[t].ptr = 0 /\ loc'[t].res = 0
      /\ \A u \in Threads \ {t} : loc'[u] = loc[u]
  BY <1>1, <1>2, <1>3, <1>4, TypeOKMemory DEF NoCall
<1>6. pc'[t] = "malloc" /\ Others(t)
  BY <1>5, GotoFacts DEF CallCalloc, Others
<1>7. CallOK(t)'
  <2>1. MallocOK(t)'
    BY <1>4, <1>5, <1>6, Geometry DEF MallocOK, RequestOK
  <2> QED BY <1>6, <2>1 DEF CallOK, InFree, InRealloc, InCopy, InRelock
<1>8. Held(t)' = Held(t)
  BY <1>1, <1>5 DEF Held
<1> QED BY <1>6, <1>7, <1>8, UnchangedCalm, Light DEF CallCalloc

-----------------------------------------------------------------------------
(* Taking the lock, and the steps that move a thread only.                 *)

LEMMA Stutters ==
  ASSUME HeapInv, UNCHANGED <<heap, pc, loc, owned>>
  PROVE  HeapInv'
<1>1. /\ mem' = mem /\ dibbs' = dibbs /\ hdrs' = hdrs
      /\ pc' = pc /\ loc' = loc /\ owned' = owned
  BY DEF heap
<1>2. Listed' = Listed
  BY <1>1 DEF Listed, FreeChunks, InTransit, Leaving
<1>3. (Coalesced /\ BlocksAccountedFor)'
  BY <1>1, <1>2 DEF HeapInv, Coalesced, After, Size, BlocksAccountedFor, FreeChunks, Held
<1>4. ASSUME NEW u \in Threads PROVE CallOK(u)'
  <2>1. CallOK(u)
    BY DEF HeapInv, Calls
  <2>2. /\ \A p : UsedAt(p)' <=> UsedAt(p)
        /\ \A p : Size(p)' = Size(p)
        /\ \A p : After(p)' = After(p)
    BY <1>1 DEF UsedAt, Size, After
  <2>3. MallocOK(u)' <=> MallocOK(u)
    BY <1>1, <2>2 DEF MallocOK
  <2>4. Got(u)' <=> Got(u)
    BY <1>1, <2>2 DEF Got
  <2>5. FreeOK(u)' <=> FreeOK(u)
    BY <1>1, <2>2, <2>4 DEF FreeOK
  <2> QED BY <1>1, <2>1, <2>2, <2>3, <2>4, <2>5 DEF CallOK
<1>5. ASSUME NEW u \in Threads PROVE AssignOK(u)'
  <2>1. AssignOK(u)
    BY DEF HeapInv, Calls
  <2> QED BY <1>1, <1>2, <2>1 DEF AssignOK, FreeChunks, Size, After
<1>6. ASSUME NEW u \in Threads PROVE SearchOK(u)'
  <2>1. SearchOK(u)
    BY DEF HeapInv, Calls
  <2>2. Passed(u)' = Passed(u)
    BY <1>1, <1>2 DEF Passed
  <2> QED BY <1>1, <1>2, <2>1, <2>2 DEF SearchOK, Fits, Size
<1> QED BY <1>1, <1>2, <1>3, <1>4, <1>5, <1>6 DEF HeapInv, Calls

LEMMA TakeLockInv ==
  ASSUME TypeOK, HeapInv, TypeOK', NEW t \in Threads, NEW wait, NEW in, NEW l,
         TakeLock(t, wait, in, l), l.ptr = loc[t].ptr, l.res = loc[t].res,
         pc'[t] = in /\ loc'[t] = l =>
           /\ CallOK(t)'
           /\ \/ in \notin {"assign_ptr", "search", "overflow"}
              \/ Listed' = Listed => (AssignOK(t) /\ SearchOK(t))'
  PROVE  HeapInv'
<1>1. CASE lock # 0
  BY <1>1, Stutters DEF TakeLock
<1>2. CASE lock = 0
  <2>1. pc'[t] = in /\ loc'[t] = l /\ Others(t)
    BY <1>2, GotoFacts, LocalsSet DEF TakeLock, Others
  <2>2. Held(t)' = Held(t)
    BY <2>1 DEF Held
  <2> QED BY <2>1, <2>2, UnchangedCalm, Light DEF TakeLock
<1> QED BY <1>1, <1>2

LEMMA FreeLockInv ==
  ASSUME TypeOK, HeapInv, TypeOK', NEW t \in Threads, FreeLock(t)
  PROVE  HeapInv'
<1>1. FreeOK(t)
  BY DEF HeapInv, Calls, CallOK, FreeLock, TakeLock, InFree
<1>2. ASSUME pc'[t] = "merge", loc'[t] = loc[t] PROVE CallOK(t)'
  <2>1. FreeOK(t)'
    BY <1>1, <1>2 DEF FreeOK, Got, UsedAt, Size, After, FreeLock, TakeLock, heap
  <2> QED BY <1>2, <2>1 DEF CallOK, InMalloc, InRealloc, InCopy, InRelock
<1> QED BY <1>2, TakeLockInv DEF FreeLock

LEMMA CopyLockInv ==
  ASSUME TypeOK, HeapInv, TypeOK', NEW t \in Threads, CopyLock(t)
  PROVE  HeapInv'
<1>1. CallOK(t)
  BY DEF HeapInv, Calls
<1>2. ASSUME pc'[t] = "memcpy", loc'[t] = loc[t] PROVE CallOK(t)'
  BY <1>1, <1>2 DEF CallOK, InMalloc, InFree, InRealloc, InCopy, InRelock,
     Got, UsedAt, Size, CopyLock, TakeLock, heap
<1> QED BY <1>2, TakeLockInv DEF CopyLock

LEMMA RelockInv ==
  ASSUME TypeOK, HeapInv, TypeOK', NEW t \in Threads, Relock(t)
  PROVE  HeapInv'
<1>1. CallOK(t)
  BY DEF HeapInv, Calls
<1>2. ASSUME pc'[t] = "realloc_end", loc'[t] = loc[t] PROVE CallOK(t)'
  BY <1>1, <1>2 DEF CallOK, InMalloc, InFree, InRealloc, InCopy, InRelock,
     Got, UsedAt, Size, Relock, TakeLock, heap
<1> QED BY <1>2, TakeLockInv DEF Relock

(* ALIGN of a request that fits. *)
LEMMA AlignFits ==
  ASSUME NEW n \in Addr, n + 3 < W, n % 2 = 0 \/ n + 4 < W
  PROVE  /\ Align(n) \in Addr /\ n <= Align(n) /\ Align(n) + 3 < W /\ Align(n) % 2 = 0
         /\ n > 0 => Align(n) > 0
<1>1. n \in Nat /\ n + 1 < W /\ W \in Int
  BY Geometry DEF Addr
<1>2. CASE n % 2 = 0
  BY <1>1, <1>2 DEF Align
<1>3. CASE n % 2 # 0
  <2>1. Wrap(n + 1) = n + 1
    BY <1>1 DEF Wrap
  <2>2. (n + 1) % 2 = 0
    BY <1>1, <1>3
  <2> QED BY <1>1, <1>3, <2>1, <2>2 DEF Align, Addr
<1> QED BY <1>2, <1>3

LEMMA ReallocLockInv ==
  ASSUME TypeOK, HeapInv, TypeOK', NEW t \in Threads, ReallocLock(t)
  PROVE  HeapInv'
<1> DEFINE l == [loc[t] EXCEPT !.size = Align(@)]
<1>1. TakeLock(t, "realloc_lock", "resize", l)
  BY DEF ReallocLock
<1>2. /\ l.op = loc[t].op /\ l.asked = loc[t].asked /\ l.size = Align(loc[t].size)
      /\ l.ptr = loc[t].ptr /\ l.res = loc[t].res
  BY LocalsType DEF Locals
<1> HIDE DEF l
<1>3. CallOK(t) /\ pc[t] = "realloc_lock" /\ loc[t].size \in Addr /\ loc[t].asked \in Int
  BY LocalsType DEF HeapInv, Calls, ReallocLock, TakeLock
<1>4. /\ loc[t].op = "realloc" /\ loc[t].res = 0 /\ UsedAt(loc[t].ptr)
      /\ 0 < loc[t].asked /\ RequestOK(loc[t])
  BY <1>3 DEF CallOK, InRealloc
<1>5. RequestOK(l) /\ l.size % 2 = 0
  <2>1. /\ loc[t].asked <= loc[t].size /\ loc[t].size + 3 < W
        /\ loc[t].size % 2 = 0 \/ loc[t].size + 4 < W
    BY <1>4 DEF RequestOK
  <2>2. /\ loc[t].size <= Align(loc[t].size) /\ Align(loc[t].size) + 3 < W
        /\ Align(loc[t].size) % 2 = 0 /\ Align(loc[t].size) \in Int /\ loc[t].size \in Int
    BY <1>3, <2>1, AlignFits, AddrInt
  <2> QED BY <1>2, <1>3, <2>1, <2>2 DEF RequestOK
<1>6. ASSUME pc'[t] = "resize", loc'[t] = l PROVE CallOK(t)'
  <2>1. UsedAt(loc[t].ptr)'
    <3>1. mem' = mem /\ hdrs' = hdrs /\ loc'[t].ptr = loc[t].ptr
      BY <1>1, <1>2, <1>6 DEF TakeLock, heap
    <3>2. loc'[t].ptr - 1 \in hdrs' /\ ~mem'[loc'[t].ptr - 1].c.f
      BY <1>4, <3>1 DEF UsedAt
    <3> QED BY <3>2 DEF UsedAt
  <2> QED BY <1>2, <1>4, <1>5, <1>6, <2>1 DEF CallOK, InMalloc, InFree, InRealloc, InCopy, InRelock
<1> QED BY <1>1, <1>2, <1>6, TakeLockInv

-----------------------------------------------------------------------------
(* malloc's steps that leave the heap alone.                               *)

LEMMA MallocCall ==
  ASSUME TypeOK, HeapInv, NEW t \in Threads, pc[t] \in InMalloc
  PROVE  /\ MallocOK(t) /\ RequestOK(loc[t])
         /\ loc[t].op \in {"malloc", "calloc", "realloc"} /\ loc[t].res = 0
         /\ loc[t].op # "realloc" => loc[t].ptr = 0
         /\ loc[t].op = "realloc" => /\ UsedAt(loc[t].ptr) /\ Size(loc[t].ptr - 1) < loc[t].size
                                     /\ loc[t].size % 2 = 0
         /\ pc[t] # "malloc" => loc[t].size > 0
         /\ pc[t] \in {"search", "overflow"} => loc[t].size % 2 = 0
<1>1. MallocOK(t)
  BY DEF HeapInv, Calls, CallOK
<1> QED BY <1>1 DEF MallocOK

(* What stays true of the block of a realloc when the heap stays the same. *)
LEMMA SameHeap ==
  ASSUME UNCHANGED heap
  PROVE  /\ \A p : (p - 1 \in hdrs /\ ~mem[p - 1].c.f) <=> (p - 1 \in hdrs' /\ ~mem'[p - 1].c.f)
         /\ \A h : mem'[h] = mem[h]
         /\ mem' = mem /\ hdrs' = hdrs /\ dibbs' = dibbs
  BY DEF heap

LEMMA MallocEnterInv ==
  ASSUME TypeOK, HeapInv, TypeOK', NEW t \in Threads, MallocEnter(t)
  PROVE  HeapInv'
<1>1. pc[t] = "malloc" /\ pc[t] \in InMalloc /\ UNCHANGED heap /\ owned' = owned
  BY DEF MallocEnter, InMalloc
<1>2. /\ loc[t].op \in {"malloc", "calloc", "realloc"} /\ loc[t].res = 0 /\ RequestOK(loc[t])
      /\ loc[t].op # "realloc" => loc[t].ptr = 0
      /\ loc[t].op = "realloc" => /\ UsedAt(loc[t].ptr) /\ Size(loc[t].ptr - 1) < loc[t].size
                                  /\ loc[t].size % 2 = 0
      /\ loc[t].size \in Int /\ loc[t].asked \in Nat /\ loc[t].size \in Addr
  BY <1>1, MallocCall, LocalsType
<1>3. loc[t].op = "realloc" => loc[t].size # 0
  <2>1. ASSUME UsedAt(loc[t].ptr) PROVE Size(loc[t].ptr - 1) \in Nat
    <3>1. loc[t].ptr - 1 \in hdrs /\ mem \in Memory /\ Tiles(mem, hdrs)
      BY <2>1, InvSane, SaneTypes DEF UsedAt, Sane
    <3>2. mem[loc[t].ptr - 1].c.v >= 1 /\ mem[loc[t].ptr - 1].c.v \in Int
      BY <3>1, TilesFacts DEF Tiles
    <3> QED BY <3>2 DEF Size
  <2> QED BY <1>2, <2>1
<1>4. CASE loc[t].size = 0
  <2>1. MallocReturns(t, 0)
    BY <1>4 DEF MallocEnter
  <2>2. /\ Others(t) /\ pc'[t] = (IF loc[t].op = "calloc" THEN "zero" ELSE "return")
        /\ loc'[t].res = 0 /\ loc'[t].ptr = loc[t].ptr /\ loc'[t].op = loc[t].op
        /\ loc'[t].asked = loc[t].asked /\ loc'[t].size = loc[t].size
        /\ loc'[t].ptr = 0 /\ loc'[t].op # "realloc"
    BY <1>2, <1>3, <1>4, <2>1, MallocReturned
  <2>3. Held(t)' = Held(t)
    BY <1>2, <2>2 DEF Held
  <2>4. CallOK(t)'
    BY <1>2, <1>4, <2>2 DEF CallOK, InMalloc, InFree, InRealloc, InCopy, InRelock, RequestOK
  <2> QED BY <1>1, <2>2, <2>3, <2>4, UnchangedCalm, Light
<1>5. CASE loc[t].size # 0
  <2>1. pc'[t] = "malloc_lock" /\ Others(t) /\ loc' = loc
    BY <1>5, GotoFacts DEF MallocEnter, Others
  <2>2. Held(t)' = Held(t)
    BY <2>1 DEF Held
  <2>3. MallocOK(t)'
    BY <1>1, <1>2, <1>5, <2>1, SameHeap DEF MallocOK, UsedAt, Size, Addr
  <2>4. CallOK(t)'
    BY <2>1, <2>3 DEF CallOK, InMalloc, InFree, InRealloc, InCopy, InRelock
  <2> QED BY <1>1, <2>1, <2>2, <2>4, UnchangedCalm, Light
<1> QED BY <1>4, <1>5

(* dibbs, End and the list. *)
LEMMA HeadOfList ==
  ASSUME TypeOK, HeapInv
  PROVE  /\ mem[dibbs].c = Used(0) => Listed = {} /\ dibbs = End
         /\ mem[dibbs].c # Used(0) =>
              dibbs \in Listed /\ IsFirst(Listed, dibbs) /\ dibbs # End
         /\ \A h \in Listed : h \in Int /\ h \in hdrs /\ mem[h].c.f
<1>1. mem[End].c = Used(0) /\ FreeList(mem, Listed, dibbs)
  BY DEF HeapInv, Footers
<1>2. \A h \in Listed : h \in Int /\ h \in hdrs /\ mem[h].c.f
  BY InvSane, SaneTypes DEF Listed, FreeChunks, Sane
<1> QED BY <1>1, <1>2 DEF FreeList, Used

LEMMA MallocLockInv ==
  ASSUME TypeOK, HeapInv, TypeOK', NEW t \in Threads, MallocLock(t)
  PROVE  HeapInv'
<1> DEFINE l == [loc[t] EXCEPT !.size = Align(loc[t].size), !.best = 0,
                               !.f = IF mem[dibbs].c # Used(0) THEN Wrap(dibbs + 1) ELSE 0]
<1>1. TakeLock(t, "malloc_lock", "search", l)
  BY DEF MallocLock
<1>2. /\ l.op = loc[t].op /\ l.asked = loc[t].asked /\ l.size = Align(loc[t].size)
      /\ l.ptr = loc[t].ptr /\ l.res = loc[t].res /\ l.best = 0
      /\ l.f = IF mem[dibbs].c # Used(0) THEN Wrap(dibbs + 1) ELSE 0
  BY LocalsType DEF Locals
<1> HIDE DEF l
<1>3. pc[t] = "malloc_lock" /\ pc[t] \in InMalloc /\ loc[t].size \in Addr /\ loc[t].asked \in Int
  BY LocalsType DEF MallocLock, TakeLock, InMalloc
<1>4. /\ loc[t].op \in {"malloc", "calloc", "realloc"} /\ loc[t].res = 0 /\ RequestOK(loc[t])
      /\ loc[t].op # "realloc" => loc[t].ptr = 0
      /\ loc[t].op = "realloc" => /\ UsedAt(loc[t].ptr) /\ Size(loc[t].ptr - 1) < loc[t].size
                                  /\ loc[t].size % 2 = 0
      /\ loc[t].size > 0
  BY <1>3, MallocCall
<1>5. /\ RequestOK(l) /\ l.size % 2 = 0 /\ l.size > 0 /\ l.size \in Int
      /\ loc[t].size <= l.size
  <2>1. /\ loc[t].asked <= loc[t].size /\ loc[t].size + 3 < W
        /\ loc[t].size % 2 = 0 \/ loc[t].size + 4 < W
    BY <1>4 DEF RequestOK
  <2>2. /\ loc[t].size <= Align(loc[t].size) /\ Align(loc[t].size) + 3 < W
        /\ Align(loc[t].size) % 2 = 0 /\ Align(loc[t].size) \in Int /\ loc[t].size \in Int
        /\ Align(loc[t].size) > 0
    BY <1>3, <1>4, <2>1, AlignFits, AddrInt
  <2> QED BY <1>2, <1>3, <2>1, <2>2 DEF RequestOK
<1>6. loc[t].op = "realloc" => l.size = loc[t].size
  BY <1>2, <1>4 DEF Align
<1>7. ASSUME pc'[t] = "search", loc'[t] = l PROVE CallOK(t)'
  <2>1. UNCHANGED heap
    BY <1>1 DEF TakeLock
  <2>2. MallocOK(t)'
    BY <1>2, <1>4, <1>5, <1>6, <1>7, <2>1, SameHeap DEF MallocOK, UsedAt, Size
  <2> QED BY <1>7, <2>2 DEF CallOK, InFree, InRealloc, InCopy, InRelock
<1>8. ASSUME pc'[t] = "search", loc'[t] = l, Listed' = Listed
      PROVE  (AssignOK(t) /\ SearchOK(t))'
  <2>1. l.f = 0 \/ l.f - 1 \in Listed
    <3>1. CASE mem[dibbs].c # Used(0)
      <4>1. dibbs \in Listed /\ dibbs \in hdrs /\ dibbs \in Int
        BY <3>1, HeadOfList
      <4>2. Wrap(dibbs + 1) = dibbs + 1
        BY <4>1, InvSane, HeaderTypes, LinkPlaces DEF Sane
      <4> QED BY <1>2, <3>1, <4>1, <4>2
    <3> QED BY <1>2, <3>1
  <2>2. Passed(t)' = {}
    <3>1. CASE mem[dibbs].c # Used(0)
      <4>1. /\ dibbs \in Listed /\ dibbs \in hdrs /\ dibbs \in Int /\ IsFirst(Listed, dibbs)
            /\ \A h \in Listed : h \in Int
        BY <3>1, HeadOfList
      <4>2. Wrap(dibbs + 1) = dibbs + 1 /\ dibbs + 1 # 0
        BY <4>1, InvSane, HeaderTypes, LinkPlaces DEF Sane
      <4>3. loc'[t].f = dibbs + 1 /\ loc'[t].f # 0
        BY <1>2, <1>8, <3>1, <4>2
      <4>4. \A h \in Listed : ~(h + 1 < dibbs + 1)
        BY <4>1 DEF IsFirst
      <4> QED BY <1>8, <4>3, <4>4 DEF Passed
    <3>2. CASE mem[dibbs].c = Used(0)
      BY <1>8, <3>2, HeadOfList DEF Passed
    <3> QED BY <3>1, <3>2
  <2> QED BY <1>2, <1>8, <2>1, <2>2 DEF AssignOK, SearchOK
<1> QED BY <1>1, <1>2, <1>7, <1>8, TakeLockInv

(* The chunk the walk is at, and the next. *)
LEMMA WalkedLink ==
  ASSUME TypeOK, HeapInv, NEW f \in Addr, f - 1 \in Listed
  PROVE  /\ Wrap(f - 1) = f - 1 /\ f \in Int /\ f # 0 /\ f - 1 \in hdrs
         /\ mem[f - 1].c.f /\ Size(f - 1) \in Int /\ 1 <= Size(f - 1)
         /\ \/ mem[f].c = Link(0) /\ IsLast(Listed, f - 1)
            \/ \E g \in Listed : mem[f].c = Link(g + 1) /\ Follows(Listed, f - 1, g)
<1>1. f - 1 \in hdrs /\ mem \in Memory /\ Tiles(mem, hdrs) /\ mem[f - 1].c.f
  BY HeadOfList, InvSane, SaneTypes DEF Sane
<1>2. f \in Int /\ f # 0 /\ Wrap(f - 1) = f - 1
  BY <1>1, WrapIn, TilesFacts, AddrInt, Geometry
<1>3. mem[f - 1].c.v >= 1 /\ mem[f - 1].c.v \in Int
  BY <1>1, TilesFacts DEF Tiles
<1>4. FreeList(mem, Listed, dibbs)
  BY DEF HeapInv
<1>5. PICK h : h = f - 1 /\ h + 1 = f
  BY <1>2
<1>6. \/ mem[h + 1].c = Link(0) /\ IsLast(Listed, h)
      \/ \E g \in Listed : mem[h + 1].c = Link(g + 1) /\ Follows(Listed, h, g)
  BY <1>4, <1>5 DEF FreeList
<1> QED BY <1>1, <1>2, <1>3, <1>5, <1>6 DEF Size

LEMMA SearchCall ==
  ASSUME TypeOK, HeapInv, NEW t \in Threads, pc[t] \in {"search", "overflow"}
  PROVE  LET f == loc[t].f
             best == loc[t].best
         IN  /\ f = 0 \/ f - 1 \in Listed
             /\ \A h \in Passed(t) :
                  /\ Size(h) # loc[t].size
                  /\ Fits(h, loc[t].size) => best # 0 /\ Size(best) <= Size(h)
             /\ best # 0 => best \in Passed(t) /\ Fits(best, loc[t].size)
  BY DEF HeapInv, Calls, SearchOK

(* get_usable_chunk's tests on the chunk its walk is at. *)
LEMMA SearchTests ==
  ASSUME TypeOK, HeapInv, NEW t \in Threads, pc[t] = "search", loc[t].f # 0
  PROVE  LET h == loc[t].f - 1 IN
         /\ Candidate(t) = h /\ h \in Listed
         /\ Exact(t) <=> Size(h) = loc[t].size
         /\ LargeEnough(t) <=> Size(h) >= loc[t].size + 2
         /\ \A g \in Listed : Above(mem[g].c, mem[h].c) <=> Size(g) > Size(h)
<1>1. loc[t].f \in Addr /\ loc[t].f - 1 \in Listed /\ loc[t].size \in Int /\ loc[t].size \in Addr
  BY SearchCall, LocalsType
<1>2. /\ Wrap(loc[t].f - 1) = loc[t].f - 1 /\ mem[loc[t].f - 1].c.f
      /\ Size(loc[t].f - 1) \in Int
  BY <1>1, WalkedLink
<1>3. Wrap(loc[t].size + 2) = loc[t].size + 2
  <2>1. loc[t].size + 3 < W
    BY MallocCall DEF InMalloc, RequestOK
  <2> QED BY <1>1, <2>1, Geometry DEF Wrap, Addr
<1>4. \A g \in Listed : mem[g].c.f
  BY HeadOfList
<1> QED BY <1>1, <1>2, <1>3, <1>4 DEF Candidate, Exact, LargeEnough, Above, Size

LEMMA SearchInv ==
  ASSUME TypeOK, HeapInv, TypeOK', NEW t \in Threads, Search(t)
  PROVE  HeapInv'
<1> DEFINE f    == loc[t].f
           h    == f - 1
           next == mem[f].c.v
           best == loc[t].best
           keep == LargeEnough(t) /\ (best = 0 \/ Above(mem[best].c, mem[h].c))
           b    == IF keep THEN h ELSE best
<1>1. pc[t] = "search" /\ f # 0 /\ ~Exact(t) /\ UNCHANGED heap /\ owned' = owned /\ pc' = pc
  BY DEF Search
<1>2. /\ Candidate(t) = h /\ h \in Listed /\ Size(h) # loc[t].size
      /\ LargeEnough(t) <=> Size(h) >= loc[t].size + 2
      /\ \A g \in Listed : Above(mem[g].c, mem[h].c) <=> Size(g) > Size(h)
  BY <1>1, SearchTests
<1>3. loc' = [loc EXCEPT ![t].f = next, ![t].best = b]
  BY <1>2, TypeOKMemory DEF Search, Locals
<1>4. /\ loc'[t].f = next /\ loc'[t].best = b /\ loc'[t].op = loc[t].op
      /\ loc'[t].asked = loc[t].asked /\ loc'[t].size = loc[t].size
      /\ loc'[t].ptr = loc[t].ptr /\ loc'[t].res = loc[t].res
      /\ \A u \in Threads \ {t} : loc'[u] = loc[u]
  BY <1>3, TypeOKMemory DEF Locals
<1>5. Others(t) /\ Held(t)' = Held(t)
  BY <1>1, <1>4 DEF Others, Held
<1>6. CallOK(t)'
  <2>1. MallocOK(t)
    BY <1>1, MallocCall DEF InMalloc
  <2>2. MallocOK(t)'
    BY <1>1, <1>4, <2>1, SameHeap DEF MallocOK, UsedAt, Size, RequestOK
  <2> QED BY <1>1, <2>2 DEF CallOK, InFree, InRealloc, InCopy, InRelock
<1>7. /\ f \in Addr /\ f \in Int /\ loc[t].size \in Int /\ best \in Int
      /\ h \in hdrs /\ Size(h) \in Int /\ h + 1 = f /\ 0 < h
      /\ \/ mem[f].c = Link(0) /\ IsLast(Listed, h)
         \/ \E g \in Listed : mem[f].c = Link(g + 1) /\ Follows(Listed, h, g)
      /\ \A g \in Listed : g \in Int /\ Size(g) \in Int
  <2>1. f \in Addr /\ f \in Int /\ loc[t].size \in Int /\ best \in Int
    BY LocalsType
  <2>2. /\ h \in hdrs /\ Size(h) \in Int
        /\ \/ mem[f].c = Link(0) /\ IsLast(Listed, h)
           \/ \E g \in Listed : mem[f].c = Link(g + 1) /\ Follows(Listed, h, g)
    BY <1>2, <2>1, WalkedLink
  <2>3. 0 < h
    BY <2>2, InvSane, SaneTypes DEF Sane
  <2>4. ASSUME NEW g \in Listed PROVE g \in Int /\ Size(g) \in Int
    <3>1. g \in hdrs /\ mem \in Memory /\ Tiles(mem, hdrs)
      BY HeadOfList, InvSane, SaneTypes DEF Sane
    <3> QED BY <3>1, TilesFacts DEF Size
  <2> QED BY <2>1, <2>2, <2>3, <2>4
<1>8. /\ \A g \in Passed(t) :
           /\ Size(g) # loc[t].size
           /\ Fits(g, loc[t].size) => best # 0 /\ Size(best) <= Size(g)
      /\ best # 0 => best \in Passed(t) /\ Fits(best, loc[t].size)
  BY <1>1, SearchCall
<1>9. Passed(t) = {g \in Listed : g < h}
  BY <1>1, <1>7 DEF Passed
<1>10. ASSUME Listed' = Listed PROVE Passed(t)' = Passed(t) \cup {h} /\ (next = 0 \/ next - 1 \in Listed)
  <2>1. Passed(t)' = {g \in Listed : next = 0 \/ g + 1 < next}
    BY <1>4, <1>10 DEF Passed
  <2>2. CASE mem[f].c = Link(0) /\ IsLast(Listed, h)
    <3>1. next = 0
      BY <2>2, LinkField
    <3> QED BY <1>2, <1>7, <1>9, <2>1, <2>2, <3>1 DEF IsLast
  <2>3. CASE \E g \in Listed : mem[f].c = Link(g + 1) /\ Follows(Listed, h, g)
    <3>1. PICK g \in Listed : mem[f].c = Link(g + 1) /\ Follows(Listed, h, g)
      BY <2>3
    <3>2. next = g + 1 /\ g \in Int
      BY <1>7, <3>1, LinkField
    <3>3. 0 < g
      BY HeadOfList, InvSane, SaneTypes DEF Sane
    <3>4. h < g /\ \A k \in Listed : k <= h \/ g <= k
      BY <3>1 DEF Follows
    <3>5. h \in Int
      BY <1>2, <1>7
    <3> HIDE DEF next, h
    <3>6. \A k \in Listed : (next = 0 \/ k + 1 < next) <=> (k < h \/ k = h)
      BY <1>7, <3>2, <3>3, <3>4, <3>5
    <3>7. next - 1 \in Listed
      BY <3>2
    <3>8. Passed(t)' = Passed(t) \cup {h}
      BY <1>2, <1>9, <2>1, <3>6
    <3> QED BY <3>7, <3>8
  <2> QED BY <1>7, <2>2, <2>3
<1> HIDE DEF h, f, next, best
<1>11. ASSUME Listed' = Listed PROVE (AssignOK(t) /\ SearchOK(t))'
  <2>1. Passed(t)' = Passed(t) \cup {h} /\ (next = 0 \/ next - 1 \in Listed)
    BY <1>10, <1>11
  <2>2. Passed(t) \subseteq Listed
    BY DEF Passed
  <2>3. /\ \A g \in Passed(t) \cup {h} :
             /\ Size(g) # loc[t].size
             /\ Fits(g, loc[t].size) => b # 0 /\ Size(b) <= Size(g)
        /\ b # 0 => b \in Passed(t) \cup {h} /\ Fits(b, loc[t].size)
    BY <1>2, <1>7, <1>8, <2>2 DEF Fits
  <2> HIDE DEF b
  <2>4. \A g : Size(g)' = Size(g)
    BY <1>1, SameHeap DEF Size
  <2>5. \A g, n : Fits(g, n)' <=> Fits(g, n)
    BY <1>1, SameHeap DEF Fits, Size
  <2> QED BY <1>1, <1>4, <1>11, <2>1, <2>3, <2>4, <2>5 DEF AssignOK, SearchOK
<1> QED BY <1>1, <1>5, <1>6, <1>11, UnchangedCalm, Light

LEMMA MallocFailsInv ==
  ASSUME TypeOK, HeapInv, TypeOK', NEW t \in Threads, MallocFails(t)
  PROVE  HeapInv'
<1>1. pc[t] = "search" /\ UNCHANGED heap /\ owned' = owned /\ loc' = loc
  BY DEF MallocFails
<1>2. pc'[t] = "overflow" /\ Others(t) /\ Held(t)' = Held(t)
  BY <1>1, GotoFacts DEF MallocFails, Others, Held
<1>3. CallOK(t)'
  <2>1. MallocOK(t)
    BY <1>1, MallocCall DEF InMalloc
  <2>2. MallocOK(t)'
    BY <1>1, <1>2, <2>1, SameHeap DEF MallocOK, UsedAt, Size, RequestOK
  <2> QED BY <1>2, <2>2 DEF CallOK, InFree, InRealloc, InCopy, InRelock
<1>4. ASSUME Listed' = Listed PROVE (AssignOK(t) /\ SearchOK(t))'
  <2>1. SearchOK(t)
    BY DEF HeapInv, Calls
  <2>2. Passed(t)' = Passed(t)
    BY <1>1, <1>4 DEF Passed
  <2>3. \A g : Size(g)' = Size(g)
    BY <1>1, SameHeap DEF Size
  <2>4. \A g, n : Fits(g, n)' <=> Fits(g, n)
    BY <1>1, SameHeap DEF Fits, Size
  <2> QED BY <1>1, <1>2, <1>4, <2>1, <2>2, <2>3, <2>4 DEF AssignOK, SearchOK
<1> QED BY <1>1, <1>2, <1>3, <1>4, UnchangedCalm, Light

-----------------------------------------------------------------------------
(* free's and realloc's steps that leave the heap alone.                   *)

(* The block a free has in its hands. *)
LEMMA FreeCall ==
  ASSUME TypeOK, HeapInv, NEW t \in Threads, pc[t] \in InFree
  PROVE  /\ FreeOK(t) /\ loc[t].ptr \in Int /\ loc[t].ptr # 0
         /\ loc[t].ptr - 1 \in hdrs /\ loc[t].ptr - 1 \in Int
         /\ Wrap(loc[t].ptr - 1) = loc[t].ptr - 1
         /\ NextHeader(mem, loc[t].ptr - 1) = After(loc[t].ptr - 1)
         /\ Bottom < loc[t].ptr /\ loc[t].ptr < End
<1>1. FreeOK(t) /\ loc[t].ptr - 1 \in hdrs
  BY DEF HeapInv, Calls, CallOK, FreeOK
<1>2. mem \in Memory /\ Tiles(mem, hdrs) /\ loc[t].ptr \in Int /\ \A h \in hdrs : 0 < h
  BY InvSane, SaneTypes DEF Sane
<1> DEFINE h == loc[t].ptr - 1
<1>3. h \in hdrs /\ loc[t].ptr = h + 1 /\ h \in Int
  BY <1>1, <1>2
<1> HIDE DEF h
<1>4. /\ NextHeader(mem, h) = EndOf(mem, h) /\ Wrap(h) = h
      /\ Bottom <= h /\ h + 2 <= EndOf(mem, h) /\ EndOf(mem, h) <= End /\ EndOf(mem, h) \in Int
  BY <1>2, <1>3, Neighbours, TilesFacts, WrapIn
<1>5. After(h) = EndOf(mem, h)
  BY DEF After, EndOf, Size
<1>6. Bottom < loc[t].ptr /\ loc[t].ptr < End
  BY <1>3, <1>4, TilesAll, <1>2
<1> QED BY <1>1, <1>2, <1>3, <1>4, <1>5, <1>6 DEF h

LEMMA FreeEnterInv ==
  ASSUME TypeOK, HeapInv, TypeOK', NEW t \in Threads, FreeEnter(t)
  PROVE  HeapInv'
<1> DEFINE n == NextHeader(mem, Wrap(loc[t].ptr - 1))
<1>1. pc[t] = "free" /\ pc[t] \in InFree /\ UNCHANGED heap /\ owned' = owned
  BY DEF FreeEnter, InFree
<1>2. /\ FreeOK(t) /\ loc[t].ptr - 1 \in hdrs
      /\ n = After(loc[t].ptr - 1)
      /\ Bottom < loc[t].ptr /\ loc[t].ptr < End
  BY <1>1, FreeCall
<1>3. Goto(t, "free_lock") /\ loc' = [loc EXCEPT ![t].nxt = n]
  BY <1>2 DEF FreeEnter
<1> HIDE DEF n
<1>4. /\ loc'[t].nxt = n /\ loc'[t].op = loc[t].op /\ loc'[t].asked = loc[t].asked
      /\ loc'[t].ptr = loc[t].ptr /\ loc'[t].res = loc[t].res
      /\ \A u \in Threads \ {t} : loc'[u] = loc[u]
  BY <1>3, TypeOKMemory DEF Locals
<1>5. pc'[t] = "free_lock" /\ Others(t) /\ Held(t)' = Held(t)
  BY <1>3, <1>4, GotoFacts DEF Others, Held
<1>6. CallOK(t)'
  <2>1. FreeOK(t)'
    BY <1>1, <1>2, <1>4, <1>5, SameHeap DEF FreeOK, Got, UsedAt, Size, After
  <2> QED BY <1>5, <2>1 DEF CallOK, InMalloc, InRealloc, InCopy, InRelock
<1> QED BY <1>1, <1>5, <1>6, UnchangedCalm, Light

(* assign_ptr's walk. *)
LEMMA AssignPlace ==
  ASSUME TypeOK, HeapInv, NEW t \in Threads, Between(t)
  PROVE  LET f == loc[t].f
             h == loc[t].ptr - 1
         IN  /\ f \in Int /\ h \in Int /\ h + 1 = loc[t].ptr
             /\ f - 1 \in Listed /\ f - 1 < h /\ h \notin Listed
             /\ \/ mem[f].c = Link(0) /\ IsLast(Listed, f - 1)
                \/ \E g \in Listed : mem[f].c = Link(g + 1) /\ Follows(Listed, f - 1, g)
<1>1. pc[t] = "assign_ptr" /\ pc[t] \in InFree /\ dibbs # End
      /\ ~(loc[t].f = Wrap(dibbs + 1) /\ loc[t].f > loc[t].ptr)
  BY DEF Between, InFree
<1>2. loc[t].f = dibbs + 1 \/ (loc[t].f - 1 \in Listed /\ loc[t].f < loc[t].ptr)
  BY <1>1 DEF HeapInv, Calls, AssignOK
<1>3. /\ loc[t].f \in Int /\ loc[t].f \in Addr /\ loc[t].ptr \in Int /\ dibbs \in Addr
      /\ dibbs \in Int
  BY LocalsType, TypeOKMemory, AddrInt
<1>4. dibbs \in Listed
  BY <1>1 DEF HeapInv, FreeList
<1>5. loc[t].f - 1 \in Listed
  BY <1>2, <1>3, <1>4
<1>6. loc[t].ptr - 1 \notin Listed /\ loc[t].ptr - 1 \in Int
  <2>1. Leaving(t) /\ Wrap(loc[t].ptr - 1) = loc[t].ptr - 1
    BY <1>1, FreeCall DEF Leaving
  <2> QED BY <1>3, <2>1 DEF Listed, InTransit
<1>7. loc[t].f - 1 < loc[t].ptr - 1
  <2>1. CASE loc[t].f = dibbs + 1
    <3>1. Wrap(dibbs + 1) = dibbs + 1
      BY <1>4, HeadOfList, InvSane, HeaderTypes, LinkPlaces DEF Sane
    <3>2. loc[t].f # loc[t].ptr
      BY <1>5, <1>6
    <3> QED BY <1>1, <1>3, <2>1, <3>1, <3>2
  <2>2. CASE loc[t].f < loc[t].ptr
    BY <1>3, <2>2
  <2> QED BY <1>2, <2>1, <2>2
<1> QED BY <1>3, <1>5, <1>6, <1>7, WalkedLink

LEMMA AssignWalkInv ==
  ASSUME TypeOK, HeapInv, TypeOK', NEW t \in Threads, AssignWalk(t)
  PROVE  HeapInv'
<1> DEFINE n == mem[loc[t].f].c.v
<1>1. /\ pc[t] = "assign_ptr" /\ pc[t] \in InFree /\ UNCHANGED heap /\ owned' = owned /\ pc' = pc
      /\ Between(t) /\ Before(t)
  BY DEF AssignWalk, Between, InFree
<1>2. n - 1 \in Listed /\ n < loc[t].ptr
  <2>1. ~Null(mem[loc[t].f].c) /\ n < loc[t].ptr
    BY <1>1 DEF Before
  <2>2. \E g \in Listed : mem[loc[t].f].c = Link(g + 1)
    BY <1>1, <2>1, AssignPlace DEF Null
  <2>3. PICK g \in Listed : n = g + 1
    BY <2>2, LinkField
  <2>4. g \in Int
    BY HeadOfList
  <2> QED BY <2>1, <2>3, <2>4
<1>3. loc' = [loc EXCEPT ![t].f = n]
  BY TypeOKMemory DEF AssignWalk, Locals
<1> HIDE DEF n
<1>4. /\ loc'[t].f = n /\ loc'[t].op = loc[t].op /\ loc'[t].asked = loc[t].asked
      /\ loc'[t].ptr = loc[t].ptr /\ loc'[t].res = loc[t].res
      /\ \A u \in Threads \ {t} : loc'[u] = loc[u]
  BY <1>3, TypeOKMemory DEF Locals
<1>5. Others(t) /\ Held(t)' = Held(t)
  BY <1>1, <1>4 DEF Others, Held
<1>6. CallOK(t)'
  <2>1. FreeOK(t)
    BY <1>1, FreeCall
  <2>2. FreeOK(t)'
    BY <1>1, <1>4, <2>1, SameHeap DEF FreeOK, Got, UsedAt, Size
  <2> QED BY <1>1, <2>2 DEF CallOK, InMalloc, InRealloc, InCopy, InRelock
<1>7. ASSUME Listed' = Listed PROVE (AssignOK(t) /\ SearchOK(t))'
  <2>1. AssignOK(t)
    BY DEF HeapInv, Calls
  <2>2. /\ FreeChunks' = FreeChunks
        /\ \A h : After(h)' = After(h)
    BY <1>1, SameHeap DEF FreeChunks, After, Size
  <2>3. AssignOK(t)'
    BY <1>1, <1>2, <1>4, <1>7, <2>1, <2>2, SameHeap DEF AssignOK
  <2> QED BY <1>1, <2>3 DEF SearchOK
<1> QED BY <1>1, <1>5, <1>6, <1>7, UnchangedCalm, Light

(* The block of a realloc. *)
LEMMA ReallocCall ==
  ASSUME TypeOK, HeapInv, NEW t \in Threads, UsedAt(loc[t].ptr)
  PROVE  /\ Header(t) = loc[t].ptr - 1 /\ Header(t) \in hdrs \ FreeChunks
         /\ Header(t) \in Int /\ loc[t].ptr = Header(t) + 1
         /\ Current(t) = Size(loc[t].ptr - 1) /\ Current(t) = mem[Header(t)].c.v
         /\ Current(t) \in Int /\ Current(t) >= 1
         /\ NextHdr(t) = EndOf(mem, Header(t))
         /\ NextHdr(t) \in hdrs \cup {End}
<1>1. mem \in Memory /\ Tiles(mem, hdrs) /\ loc[t].ptr \in Int
  BY InvSane, SaneTypes DEF Sane
<1> DEFINE h == loc[t].ptr - 1
<1>2. h \in hdrs /\ ~mem[h].c.f /\ h \in Int /\ loc[t].ptr = h + 1 /\ h \in Addr
  BY <1>1, TilesFacts DEF UsedAt
<1> HIDE DEF h
<1>3. Header(t) = h /\ Wrap(h) = h
  BY <1>2, WrapIn DEF Header, h
<1>4. /\ mem[h].c.v \in Int /\ mem[h].c.v >= 1 /\ EndOf(mem, h) \in hdrs \cup {End}
      /\ EndOf(mem, h) \in Addr
  BY <1>1, <1>2, TilesFacts DEF Tiles
<1>5. Current(t) = mem[h].c.v
  BY <1>3 DEF Current
<1>6. NextHdr(t) = EndOf(mem, h)
  <2>1. loc[t].ptr + Current(t) = EndOf(mem, h)
    BY <1>2, <1>5 DEF EndOf
  <2> QED BY <1>4, <2>1, WrapIn DEF NextHdr
<1> QED BY <1>2, <1>3, <1>4, <1>5, <1>6 DEF Size, FreeChunks, h

LEMMA ResizeCall ==
  ASSUME TypeOK, HeapInv, NEW t \in Threads, pc[t] = "resize"
  PROVE  /\ loc[t].op = "realloc" /\ loc[t].res = 0 /\ UsedAt(loc[t].ptr) /\ loc[t].ptr # 0
         /\ 0 < loc[t].asked /\ loc[t].asked <= loc[t].size /\ loc[t].size + 3 < W
         /\ RequestOK(loc[t]) /\ loc[t].size % 2 = 0 /\ loc[t].size \in Int /\ loc[t].asked \in Int
         /\ loc[t].size >= 2
<1>1. /\ loc[t].op = "realloc" /\ loc[t].res = 0 /\ UsedAt(loc[t].ptr)
      /\ 0 < loc[t].asked /\ RequestOK(loc[t]) /\ loc[t].size % 2 = 0
  BY DEF HeapInv, Calls, CallOK, InRealloc
<1>2. loc[t].size \in Int /\ loc[t].asked \in Int
  BY LocalsType
<1>3. loc[t].ptr # 0
  BY <1>1, InvSane, SaneTypes DEF UsedAt, Sane
<1>4. loc[t].asked <= loc[t].size /\ loc[t].size + 3 < W
  BY <1>1 DEF RequestOK
<1> QED BY <1>1, <1>2, <1>3, <1>4

LEMMA ReallocKeepInv ==
  ASSUME TypeOK, HeapInv, TypeOK', NEW t \in Threads, ReallocKeep(t)
  PROVE  HeapInv'
<1>1. pc[t] = "resize" /\ UNCHANGED heap /\ owned' = owned /\ loc[t].size <= Current(t)
      /\ ReallocReturns(t, loc[t].ptr)
  BY DEF ReallocKeep
<1>2. /\ loc[t].res = 0 /\ UsedAt(loc[t].ptr) /\ loc[t].asked <= loc[t].size
      /\ loc[t].size \in Int /\ loc[t].asked \in Int
      /\ Current(t) = Size(loc[t].ptr - 1) /\ Current(t) \in Int
  BY <1>1, ResizeCall, ReallocCall
<1>3. /\ Others(t) /\ pc'[t] = "return"
      /\ loc'[t].res = loc[t].ptr /\ loc'[t].ptr = 0 /\ loc'[t].asked = loc[t].asked
  BY <1>1, ReallocReturned
<1>nz. loc[t].ptr # 0
  BY <1>1, ResizeCall
<1>4. Held(t)' = Held(t)
  BY <1>2, <1>3 DEF Held
<1>5. CallOK(t)'
  <2>1. Got(t)'
    BY <1>1, <1>2, <1>3, SameHeap DEF Got, UsedAt, Size
  <2> QED BY <1>3, <1>nz, <2>1 DEF CallOK, InMalloc, InFree, InRealloc, InCopy, InRelock
<1> QED BY <1>1, <1>3, <1>4, <1>5, UnchangedCalm, Light

LEMMA ReallocRelocateInv ==
  ASSUME TypeOK, HeapInv, TypeOK', NEW t \in Threads, ReallocRelocate(t)
  PROVE  HeapInv'
<1>1. pc[t] = "resize" /\ UNCHANGED heap /\ owned' = owned /\ loc' = loc /\ loc[t].size > Current(t)
  BY DEF ReallocRelocate
<1>2. /\ loc[t].op = "realloc" /\ loc[t].res = 0 /\ UsedAt(loc[t].ptr) /\ RequestOK(loc[t])
      /\ loc[t].size % 2 = 0 /\ Size(loc[t].ptr - 1) < loc[t].size
  BY <1>1, ResizeCall, ReallocCall
<1>3. pc'[t] = "malloc" /\ Others(t) /\ Held(t)' = Held(t)
  BY <1>1, GotoFacts DEF ReallocRelocate, Others, Held
<1>4. CallOK(t)'
  <2>1. MallocOK(t)'
    BY <1>1, <1>2, <1>3, SameHeap DEF MallocOK, UsedAt, Size, RequestOK
  <2> QED BY <1>3, <2>1 DEF CallOK, InFree, InRealloc, InCopy, InRelock
<1> QED BY <1>1, <1>3, <1>4, UnchangedCalm, Light

LEMMA CopyEnterInv ==
  ASSUME TypeOK, HeapInv, TypeOK', NEW t \in Threads, CopyEnter(t)
  PROVE  HeapInv'
<1>1. pc[t] = "copy" /\ UNCHANGED heap /\ owned' = owned /\ loc' = loc
  BY DEF CopyEnter
<1>2. pc'[t] = "copy_lock" /\ Others(t) /\ Held(t)' = Held(t)
  BY <1>1, GotoFacts DEF CopyEnter, Others, Held
<1>3. CallOK(t)
  BY DEF HeapInv, Calls
<1>4. CallOK(t)'
  BY <1>1, <1>2, <1>3, SameHeap DEF CallOK, InMalloc, InFree, InRealloc, InCopy, InRelock,
     Got, UsedAt, Size
<1> QED BY <1>1, <1>2, <1>4, UnchangedCalm, Light

LEMMA RelockEnterInv ==
  ASSUME TypeOK, HeapInv, TypeOK', NEW t \in Threads, RelockEnter(t)
  PROVE  HeapInv'
<1>1. pc[t] = "relock" /\ UNCHANGED heap /\ owned' = owned /\ loc' = loc
  BY DEF RelockEnter
<1>2. pc'[t] = "relock_wait" /\ Others(t) /\ Held(t)' = Held(t)
  BY <1>1, GotoFacts DEF RelockEnter, Others, Held
<1>3. CallOK(t)
  BY DEF HeapInv, Calls
<1>4. CallOK(t)'
  BY <1>1, <1>2, <1>3, SameHeap DEF CallOK, InMalloc, InFree, InRealloc, InCopy, InRelock,
     Got, UsedAt, Size
<1> QED BY <1>1, <1>2, <1>4, UnchangedCalm, Light

LEMMA ReallocEndInv ==
  ASSUME TypeOK, HeapInv, TypeOK', NEW t \in Threads, ReallocEnd(t)
  PROVE  HeapInv'
<1>1. pc[t] = "realloc_end" /\ UNCHANGED heap /\ owned' = owned /\ ReallocReturns(t, loc[t].res)
  BY DEF ReallocEnd
<1>2. /\ Others(t) /\ pc'[t] = "return"
      /\ loc'[t].res = loc[t].res /\ loc'[t].ptr = 0 /\ loc'[t].asked = loc[t].asked
  BY <1>1, ReallocReturned
<1>3. loc[t].ptr = 0 /\ Got(t)
  BY <1>1 DEF HeapInv, Calls, CallOK, InRelock
<1>nz. loc[t].res # 0
  <2>1. 0 - 1 \notin hdrs
    BY InvSane, SaneTypes DEF Sane
  <2> QED BY <1>3, <2>1 DEF Got, UsedAt
<1>4. Held(t)' = Held(t)
  BY <1>2, <1>3 DEF Held
<1>5. CallOK(t)'
  <2>1. Got(t)'
    BY <1>1, <1>2, <1>3, SameHeap DEF Got, UsedAt, Size
  <2> QED BY <1>2, <1>nz, <2>1 DEF CallOK, InMalloc, InFree, InRealloc, InCopy, InRelock
<1> QED BY <1>1, <1>2, <1>4, <1>5, UnchangedCalm, Light

LEMMA HaltInv ==
  ASSUME HeapInv, NEW t \in Threads, Halt(t)
  PROVE  HeapInv'
<1>1. UNCHANGED <<heap, pc, loc, owned>>
  BY DEF Halt, vars, heap
<1> QED BY <1>1, Stutters

-----------------------------------------------------------------------------
(* Blocks given to the calls and back to the clients.                      *)

LEMMA UsedBlocks ==
  ASSUME TypeOK, HeapInv, NEW p \in DOMAIN owned
  PROVE  UsedAt(p) /\ Size(p - 1) >= owned[p] /\ p \in Addr /\ p \in Int /\ p # 0
<1>1. p \in Addr /\ p \in Int
  BY TypeOKMemory, AddrInt
<1>2. p - 1 \in hdrs \ FreeChunks /\ Size(p - 1) >= owned[p]
  BY DEF HeapInv, BlocksAccountedFor
<1>3. p # 0
  BY <1>2, InvSane, SaneTypes DEF Sane
<1> QED BY <1>1, <1>2, <1>3 DEF UsedAt, FreeChunks

LEMMA Ledger ==
  ASSUME TypeOK, HeapInv, TypeOK', NEW t \in Threads, UNCHANGED heap, Others(t),
         DOMAIN owned' \cup Held(t)' = DOMAIN owned \cup Held(t),
         DOMAIN owned' \cap Held(t)' = {},
         \A p \in DOMAIN owned' : UsedAt(p) /\ Size(p - 1) >= owned'[p],
         CallOK(t)', pc'[t] \notin {"assign_ptr", "search", "overflow"}
  PROVE  HeapInv'
<1>1. Sane /\ BlocksAccountedFor /\ \A h \in hdrs : h \in Int
  BY InvSane, SaneTypes DEF HeapInv, Sane
<1>2. \A u \in Threads \ {t} : Held(u)' = Held(u)
  BY DEF Others, Held
<1>3. mem' = mem /\ hdrs' = hdrs /\ dibbs' = dibbs
  BY SameHeap
<1>4. \A p \in DOMAIN owned : UsedAt(p) /\ p \in Int
  BY UsedBlocks
<1>5. ASSUME NEW h \in FreeChunks
      PROVE  h + 1 \notin DOMAIN owned /\ h + 1 \notin DOMAIN owned'
  <2>1. h \in Int /\ mem[h].c.f
    BY <1>1 DEF FreeChunks
  <2>2. ~UsedAt(h + 1)
    BY <2>1 DEF UsedAt
  <2> QED BY <1>4, <2>2
<1>6. HoldsSame
  BY <1>2, <1>5 DEF HoldsSame
<1>7. \A p \in DOMAIN owned' : p - 1 \in (hdrs \ FreeChunks)' /\ Size(p - 1)' >= owned'[p]
  BY <1>3 DEF UsedAt, FreeChunks, Size
<1>8. \A h \in (hdrs \ FreeChunks)' : h + 1 \in DOMAIN owned' \cup UNION {Held(u)' : u \in Threads}
  <2> SUFFICES ASSUME NEW h \in hdrs \ FreeChunks
               PROVE  h + 1 \in DOMAIN owned' \/ \E u \in Threads : h + 1 \in Held(u)'
    BY <1>3 DEF FreeChunks
  <2>1. h + 1 \in DOMAIN owned \/ \E u \in Threads : h + 1 \in Held(u)
    BY <1>1 DEF BlocksAccountedFor
  <2> QED BY <1>2, <2>1
<1>9. ASSUME NEW u \in Threads, NEW p \in Held(u)'
      PROVE  p - 1 \in hdrs' /\ p \notin DOMAIN owned' /\ \A v \in Threads \ {u} : p \notin Held(v)'
  <2>1. CASE u = t
    <3>1. p \in DOMAIN owned \/ p \in Held(t)
      BY <2>1
    <3>2. p - 1 \in hdrs
      BY <1>1, <1>4, <3>1 DEF UsedAt, BlocksAccountedFor
    <3>3. \A v \in Threads \ {t} : p \notin Held(v)
      BY <1>1, <3>1 DEF BlocksAccountedFor
    <3>4. p \notin DOMAIN owned'
      BY <2>1
    <3> QED BY <1>2, <1>3, <2>1, <3>2, <3>3, <3>4
  <2>2. CASE u # t
    <3>1. p \in Held(u)
      BY <1>2, <2>2
    <3>2. p - 1 \in hdrs /\ p \notin DOMAIN owned /\ \A v \in Threads \ {u} : p \notin Held(v)
      BY <1>1, <3>1 DEF BlocksAccountedFor
    <3>3. p \notin DOMAIN owned' /\ p \notin Held(t)'
      BY <2>2, <3>2
    <3> QED BY <1>2, <1>3, <2>2, <3>2, <3>3
  <2> QED BY <2>1, <2>2
<1>10. \A u \in Threads : \A p \in Held(u)' :
         p - 1 \in hdrs' /\ p \notin DOMAIN owned' /\ \A v \in Threads \ {u} : p \notin Held(v)'
  BY <1>9
<1>11. BlocksAccountedFor'
  BY <1>7, <1>8, <1>10 DEF BlocksAccountedFor
<1> QED BY <1>6, <1>11, UnchangedCalm, CalmStep

LEMMA CallFreeInv ==
  ASSUME TypeOK, HeapInv, TypeOK', NEW t \in Threads, CallFree(t)
  PROVE  HeapInv'
<1>1. loc[t] = NoCall /\ Held(t) = {}
  BY IdleCall DEF CallFree
<1>2. PICK p \in DOMAIN owned :
        /\ loc' = [loc EXCEPT ![t].op = "free", ![t].ptr = p]
        /\ owned' = [q \in DOMAIN owned \ {p} |-> owned[q]]
  BY DEF CallFree
<1>3. UsedAt(p) /\ p # 0
  BY UsedBlocks
<1>4. /\ loc'[t].op = "free" /\ loc'[t].ptr = p /\ loc'[t].res = 0
      /\ \A u \in Threads \ {t} : loc'[u] = loc[u]
  BY <1>1, <1>2, TypeOKMemory DEF NoCall
<1>5. pc'[t] = "free" /\ Others(t) /\ UNCHANGED heap
  BY <1>4, GotoFacts DEF CallFree, Others
<1>6. Held(t)' = {p}
  BY <1>3, <1>4 DEF Held
<1>7. CallOK(t)'
  <2>1. FreeOK(t)'
    BY <1>3, <1>4, <1>5, SameHeap DEF FreeOK, UsedAt
  <2> QED BY <1>5, <2>1 DEF CallOK, InMalloc, InRealloc, InCopy, InRelock
<1>8. DOMAIN owned' = DOMAIN owned \ {p} /\ \A q \in DOMAIN owned' : owned'[q] = owned[q]
  BY <1>2
<1>9. \A q \in DOMAIN owned' : UsedAt(q) /\ Size(q - 1) >= owned'[q]
  BY <1>8, UsedBlocks
<1> QED BY <1>1, <1>5, <1>6, <1>7, <1>8, <1>9, Ledger

LEMMA CallReallocInv ==
  ASSUME TypeOK, HeapInv, RequestsFit, TypeOK', NEW t \in Threads, CallRealloc(t)
  PROVE  HeapInv'
<1>1. pc[t] = "idle" /\ UNCHANGED heap /\ Held(t) = {}
  BY IdleCall DEF CallRealloc
<1>2. PICK p \in DOMAIN owned \cup {0}, n \in ReallocSizes :
       /\ loc' = [loc EXCEPT
            ![t] = [NoCall EXCEPT !.op = IF p = 0 THEN "malloc"
                                         ELSE IF n = 0 THEN "free" ELSE "realloc",
                                  !.asked = n, !.size = n, !.ptr = p]]
       /\ owned' = [q \in DOMAIN owned \ {p} |-> owned[q]]
       /\ Goto(t, IF p = 0 THEN "malloc" ELSE IF n = 0 THEN "free" ELSE "realloc_lock")
  BY DEF CallRealloc
<1>3. p # 0 => UsedAt(p)
  BY UsedBlocks
<1>4. /\ loc'[t].op = IF p = 0 THEN "malloc" ELSE IF n = 0 THEN "free" ELSE "realloc"
      /\ loc'[t].asked = n /\ loc'[t].size = n /\ loc'[t].ptr = p /\ loc'[t].res = 0
      /\ \A u \in Threads \ {t} : loc'[u] = loc[u]
  BY <1>2, TypeOKMemory DEF NoCall
<1>5. pc'[t] = (IF p = 0 THEN "malloc" ELSE IF n = 0 THEN "free" ELSE "realloc_lock") /\ Others(t)
  BY <1>2, <1>4, GotoFacts DEF Others
<1>6. n \in Addr /\ n \in Nat /\ n + 4 < W
  BY Clients, AddrInt, Geometry DEF RequestsFit, Addr
<1>7. CallOK(t)'
  <2>1. RequestOK(loc'[t])
    BY <1>4, <1>6, Geometry DEF RequestOK
  <2>2. CASE p = 0
    <3>1. MallocOK(t)'
      BY <1>4, <1>5, <2>1, <2>2 DEF MallocOK
    <3> QED BY <1>5, <2>2, <3>1 DEF CallOK, InFree, InRealloc, InCopy, InRelock
  <2>3. CASE p # 0 /\ n = 0
    <3>1. FreeOK(t)'
      BY <1>1, <1>3, <1>4, <1>5, <2>3, SameHeap DEF FreeOK, UsedAt
    <3> QED BY <1>5, <2>3, <3>1 DEF CallOK, InMalloc, InRealloc, InCopy, InRelock
  <2>4. CASE p # 0 /\ n # 0
    <3>1. UsedAt(p)'
      BY <1>1, <1>3, <2>4, SameHeap DEF UsedAt
    <3>2. 0 < n
      BY <1>6, <2>4
    <3> QED BY <1>4, <1>5, <2>1, <2>4, <3>1, <3>2
            DEF CallOK, InMalloc, InFree, InCopy, InRelock, UsedAt, RequestOK
  <2> QED BY <2>2, <2>3, <2>4
<1>8. DOMAIN owned' = DOMAIN owned \ {p} /\ \A q \in DOMAIN owned' : owned'[q] = owned[q]
  BY <1>2
<1>9. \A q \in DOMAIN owned' : UsedAt(q) /\ Size(q - 1) >= owned'[q]
  BY <1>8, UsedBlocks
<1>10. 0 \notin DOMAIN owned
  BY UsedBlocks
<1>11. Held(t)' = {p} \ {0}
  BY <1>4 DEF Held
<1>12. /\ DOMAIN owned' \cup Held(t)' = DOMAIN owned \cup Held(t)
       /\ DOMAIN owned' \cap Held(t)' = {}
  BY <1>1, <1>8, <1>10, <1>11
<1> QED BY <1>1, <1>5, <1>7, <1>9, <1>12, Ledger

LEMMA ReturnInv ==
  ASSUME TypeOK, HeapInv, TypeOK', NEW t \in Threads, Return(t)
  PROVE  HeapInv'
<1> DEFINE r == loc[t].res
<1>1. pc[t] = "return" /\ UNCHANGED heap
  BY DEF Return
<1>2. loc[t].ptr = 0 /\ (r # 0 => UsedAt(r) /\ loc[t].asked <= Size(r - 1))
  BY <1>1 DEF HeapInv, Calls, CallOK, Got
<1>3. loc'[t] = NoCall /\ pc'[t] = "idle" /\ Others(t)
  BY LocalsSet, GotoFacts DEF Return, Others
<1>4. Held(t) = {r} \ {0} /\ Held(t)' = {}
  BY <1>2, <1>3 DEF Held, NoCall
<1>5. CallOK(t)'
  BY <1>3 DEF CallOK, InMalloc, InFree, InRealloc, InCopy, InRelock
<1>6. owned' = IF r = 0 THEN owned
               ELSE [q \in DOMAIN owned \cup {r} |-> IF q = r THEN loc[t].asked ELSE owned[q]]
  BY DEF Return
<1> HIDE DEF r
<1>7. DOMAIN owned' = DOMAIN owned \cup Held(t)
  BY <1>4, <1>6
<1>8. ASSUME NEW q \in DOMAIN owned' PROVE UsedAt(q) /\ Size(q - 1) >= owned'[q]
  <2>1. CASE r # 0 /\ q = r
    <3>1. owned'[q] = loc[t].asked
      BY <1>6, <2>1
    <3>2. UsedAt(q) /\ loc[t].asked <= Size(q - 1) /\ loc[t].asked \in Int
      BY <1>2, <2>1, LocalsType
    <3>3. Size(q - 1) \in Int
      BY <3>2, InvSane, SaneTypes, TilesFacts DEF UsedAt, Size, Sane
    <3> QED BY <3>1, <3>2, <3>3
  <2>2. CASE ~(r # 0 /\ q = r)
    <3>1. q \in DOMAIN owned /\ owned'[q] = owned[q]
      BY <1>6, <1>8, <2>2
    <3> QED BY <3>1, UsedBlocks
  <2> QED BY <2>1, <2>2
<1> QED BY <1>1, <1>3, <1>4, <1>5, <1>7, <1>8, Ledger

-----------------------------------------------------------------------------
(* What clients, calloc and realloc write into blocks.                     *)

WritesBlock(p, n) ==
  /\ hdrs' = hdrs /\ dibbs' = dibbs
  /\ \A a \in Addr : Wrap(a - p) < n \/ mem'[a] = mem[a]

LEMMA InBlock ==
  ASSUME TypeOK, HeapInv, NEW p \in Addr, UsedAt(p), NEW n \in Int, n <= Size(p - 1),
         NEW a \in Addr, Wrap(a - p) < n
  PROVE  a \in Inside(mem, p - 1) /\ p <= a /\ a < p + n /\ Wrap(a - p) = a - p
<1>1. mem \in Memory /\ Tiles(mem, hdrs) /\ p - 1 \in hdrs
  BY InvSane, SaneTypes DEF Sane, UsedAt
<1> DEFINE e == EndOf(mem, p - 1)
<1>2. e \in Int /\ e <= End /\ e = p + Size(p - 1) /\ Size(p - 1) \in Int
  BY <1>1, TilesFacts, AddrInt DEF EndOf, Size
<1>3. a \in Int /\ 0 <= a /\ a < W /\ p \in Int /\ 0 <= p /\ p < W /\ W \in Int /\ End < W /\ End \in Int
  BY Geometry DEF Addr, End
<1> HIDE DEF e
<1>4. ~(a - p < 0)
  BY <1>2, <1>3 DEF Wrap
<1>5. Wrap(a - p) = a - p
  BY <1>3, <1>4 DEF Wrap
<1>6. p <= a /\ a < p + n /\ a < e
  BY <1>2, <1>3, <1>4, <1>5
<1>7. p - 1 + 1 .. e - 1 = Inside(mem, p - 1)
  BY DEF Inside, e
<1>8. a \in p - 1 + 1 .. e - 1
  BY <1>2, <1>3, <1>6
<1> QED BY <1>5, <1>6, <1>7, <1>8

LEMMA BlockCalm ==
  ASSUME TypeOK, HeapInv, NEW p \in Addr, UsedAt(p), NEW n \in Int, n <= Size(p - 1),
         WritesBlock(p, n)
  PROVE  Calm
<1>1. mem \in Memory /\ Tiles(mem, hdrs) /\ hdrs \subseteq Addr
  BY InvSane, SaneTypes DEF Sane
<1> DEFINE g == p - 1
<1>2. g \in hdrs /\ ~mem[g].c.f
  BY DEF UsedAt
<1>3. ASSUME NEW a \in Addr, mem'[a] # mem[a]
      PROVE  a \notin hdrs /\ a # End /\ \A k \in hdrs : k # g => a # k + 1
  <2>1. a \in Inside(mem, g)
    BY <1>3, InBlock DEF WritesBlock
  <2> HIDE DEF g
  <2> QED BY <1>1, <1>2, <2>1, InsideApart
<1>4. End \in Addr
  BY AddrFacts
<1>5. \A h \in hdrs \cup {End} : mem'[h] = mem[h]
  BY <1>1, <1>3, <1>4
<1>6. ASSUME NEW h \in FreeChunks PROVE mem'[h + 1] = mem[h + 1]
  <2>1. h \in hdrs /\ h # g /\ h + 1 \in Addr
    BY <1>1, <1>2, LinkPlaces DEF FreeChunks
  <2> QED BY <1>3, <2>1
<1> QED BY <1>5, <1>6 DEF Calm, WritesBlock

LEMMA WriteInv ==
  ASSUME TypeOK, HeapInv, TypeOK', Write
  PROVE  HeapInv'
<1>1. /\ dibbs' = dibbs /\ pc' = pc /\ loc' = loc /\ owned' = owned /\ hdrs' = hdrs
      /\ \E p \in DOMAIN owned, c \in Payload :
           mem' = [a \in Addr |-> IF Wrap(a - p) < owned[p] THEN c ELSE mem[a]]
  BY DEF Write
<1>2. PICK p \in DOMAIN owned : \A a \in Addr : Wrap(a - p) < owned[p] \/ mem'[a] = mem[a]
  BY <1>1
<1>3. Calm
  <2>1. UsedAt(p) /\ owned[p] <= Size(p - 1) /\ p \in Addr /\ owned[p] \in Int
    <3>1. UsedAt(p) /\ Size(p - 1) >= owned[p] /\ p \in Addr /\ owned[p] \in Nat
      BY UsedBlocks, TypeOKMemory
    <3>2. Size(p - 1) \in Int
      BY <3>1, InvSane, SaneTypes, TilesFacts DEF UsedAt, Size, Sane
    <3> QED BY <3>1, <3>2
  <2>2. WritesBlock(p, owned[p])
    BY <1>1, <1>2 DEF WritesBlock
  <2> QED BY <2>1, <2>2, BlockCalm
<1>4. Sane /\ Tiles(mem, hdrs) /\ BlocksAccountedFor
  BY InvSane DEF Sane, HeapInv
<1>5. ASSUME NEW u \in Threads PROVE CallOK(u)' /\ Held(u)' = Held(u)
  <2>1. \A q \in Held(u) : q - 1 \in hdrs' /\ mem'[q - 1].c = mem[q - 1].c
    BY <1>3, <1>4, HeldCases DEF Calm
  <2> QED BY <1>1, <1>4, <2>1, CallKept DEF Held
<1>6. Tiles(mem, hdrs)'
  <2>1. \A h \in hdrs : mem'[h].c.v = mem[h].c.v
    BY <1>3 DEF Calm
  <2> QED BY <1>3, <1>4, <2>1, TilesSame DEF Calm
<1>7. Sane' /\ HoldsSame
  BY <1>5, <1>6 DEF Sane, HoldsSame
<1>8. /\ (HeapOK(mem, hdrs, Listed, dibbs) /\ ListApart(mem, Listed))'
      /\ \A u \in Threads : (AssignOK(u) /\ SearchOK(u))'
  BY <1>1, <1>3, <1>7, CalmHeap
<1>9. BlocksAccountedFor'
  <2>1. /\ FreeChunks' = FreeChunks
        /\ \A h \in hdrs : Size(h)' = Size(h)
    BY <1>3, CalmFacts
  <2> QED BY <1>1, <1>4, <1>5, <2>1 DEF BlocksAccountedFor
<1> QED BY <1>5, <1>8, <1>9, HeapInvNext

LEMMA CallocZeroInv ==
  ASSUME TypeOK, HeapInv, TypeOK', NEW t \in Threads, CallocZero(t)
  PROVE  HeapInv'
<1> DEFINE r == loc[t].res
           n == loc[t].size
<1>1. /\ pc[t] = "zero" /\ dibbs' = dibbs /\ hdrs' = hdrs /\ loc' = loc /\ owned' = owned
      /\ \A a \in Addr : Wrap(a - r) < n \/ mem'[a] = mem[a]
  BY DEF CallocZero
<1>2. /\ loc[t].op = "calloc" /\ loc[t].ptr = 0 /\ loc[t].asked <= n
      /\ IF r = 0 THEN n = 0 ELSE UsedAt(r) /\ n <= Size(r - 1)
  BY <1>1 DEF HeapInv, Calls, CallOK
<1>3. r \in Addr /\ n \in Int /\ loc[t].asked \in Int /\ W \in Nat
  BY LocalsType, Geometry
<1>4. Calm
  <2>1. CASE r = 0
    <3>1. \A a \in Addr : ~(Wrap(a - r) < n)
      BY <1>2, <1>3, <2>1 DEF Wrap, Addr
    <3>2. hdrs \subseteq Addr /\ End \in Addr /\ mem \in Memory /\ Tiles(mem, hdrs)
      BY InvSane, SaneTypes, AddrFacts DEF Sane
    <3>3. \A h \in FreeChunks : h + 1 \in Addr
      BY <3>2, LinkPlaces DEF FreeChunks
    <3> QED BY <1>1, <3>1, <3>2, <3>3 DEF Calm
  <2>2. CASE r # 0
    <3>1. WritesBlock(r, n)
      BY <1>1 DEF WritesBlock
    <3> QED BY <1>2, <1>3, <2>2, <3>1, BlockCalm
  <2> QED BY <2>1, <2>2
<1>5. pc'[t] = "return" /\ Others(t) /\ Held(t)' = Held(t)
  BY <1>1, GotoFacts DEF CallocZero, Others, Held
<1>6. CallOK(t)'
  <2>1. ASSUME r # 0 PROVE Got(t)'
    <3>1. UsedAt(r)' /\ Size(r - 1)' = Size(r - 1)
      <4>1. PICK q : q = r
        OBVIOUS
      <4>2. UsedAt(q)' /\ Size(q - 1)' = Size(q - 1)
        BY <1>2, <1>4, <2>1, <4>1, CalmFacts
      <4> QED BY <1>1, <4>1, <4>2 DEF UsedAt, Size
    <3>2. Size(r - 1) \in Int
      BY <1>2, <2>1, InvSane, SaneTypes, TilesFacts DEF UsedAt, Size, Sane
    <3>3. loc[t].asked <= Size(r - 1)
      BY <1>2, <1>3, <2>1, <3>2
    <3> QED BY <1>1, <3>1, <3>3 DEF Got, UsedAt, Size
  <2> QED BY <1>1, <1>2, <1>5, <2>1 DEF CallOK, InMalloc, InFree, InRealloc, InCopy, InRelock
<1> QED BY <1>1, <1>4, <1>5, <1>6, Light

LEMMA CopyInv ==
  ASSUME TypeOK, HeapInv, TypeOK', NEW t \in Threads, Copy(t)
  PROVE  HeapInv'
<1> DEFINE to == loc[t].res
<1>1. /\ pc[t] = "memcpy" /\ dibbs' = dibbs /\ hdrs' = hdrs /\ loc' = loc /\ owned' = owned
      /\ \A a \in Addr : Wrap(a - to) < Current(t) \/ mem'[a] = mem[a]
  BY DEF Copy
<1>2. /\ loc[t].op = "realloc" /\ UsedAt(loc[t].ptr) /\ Got(t) /\ loc[t].res # loc[t].ptr
      /\ Size(loc[t].ptr - 1) < loc[t].size /\ loc[t].size <= Size(to - 1)
  BY <1>1 DEF HeapInv, Calls, CallOK, InCopy
<1>3. UsedAt(to) /\ to \in Addr /\ Size(to - 1) \in Int
  <2>1. UsedAt(to) /\ to \in Addr
    BY <1>2, LocalsType DEF Got
  <2> QED BY <2>1, InvSane, SaneTypes, TilesFacts DEF UsedAt, Size, Sane
<1>4. Current(t) = Size(loc[t].ptr - 1) /\ Current(t) \in Int /\ Current(t) <= Size(to - 1)
  BY <1>2, <1>3, ReallocCall, LocalsType
<1>5. Calm
  <2>1. WritesBlock(to, Current(t))
    BY <1>1 DEF WritesBlock
  <2> QED BY <1>3, <1>4, <2>1, BlockCalm
<1>6. pc'[t] = "free" /\ Others(t) /\ Held(t)' = Held(t)
  BY <1>1, GotoFacts DEF Copy, Others, Held
<1>7. CallOK(t)'
  <2>1. PICK q : q = to
    OBVIOUS
  <2>2. UsedAt(q)' /\ Size(q - 1)' = Size(q - 1)
    BY <1>3, <1>5, <2>1, CalmFacts
  <2>3. Got(t)'
    BY <1>1, <1>2, <2>1, <2>2 DEF Got, UsedAt, Size
  <2>4. FreeOK(t)'
    BY <1>1, <1>2, <1>6, <2>3 DEF FreeOK, UsedAt
  <2> QED BY <1>6, <2>4 DEF CallOK, InMalloc, InRealloc, InCopy, InRelock
<1> QED BY <1>1, <1>5, <1>6, <1>7, Light

-----------------------------------------------------------------------------
(* malloc takes a chunk.                                                   *)

(* What malloc returns, once the chunk at r - 1 has its tags. *)
GivesBlock(t, r) ==
  /\ r # 0 /\ r # loc[t].ptr
  /\ r - 1 \in hdrs' /\ ~mem'[r - 1].c.f /\ mem'[r - 1].c.v = loc[t].size
  /\ \A p \in Held(t) : p - 1 \in hdrs' /\ mem'[p - 1].c = mem[p - 1].c

LEMMA MallocGot ==
  ASSUME TypeOK, HeapInv, NEW t \in Threads, pc[t] = "search", NEW r, MallocReturns(t, r),
         GivesBlock(t, r)
  PROVE  /\ CallOK(t)' /\ Held(t)' = Held(t) \cup {r} /\ Others(t)
         /\ pc'[t] \notin {"assign_ptr", "search", "overflow"}
<1>1. /\ Others(t)
      /\ pc'[t] = CASE loc[t].op = "calloc"  -> "zero"
                    [] loc[t].op = "realloc" -> "copy"
                    [] OTHER                 -> "return"
      /\ loc'[t].res = r /\ loc'[t].op = loc[t].op /\ loc'[t].asked = loc[t].asked
      /\ loc'[t].size = loc[t].size /\ loc'[t].ptr = loc[t].ptr
  BY MallocReturned
<1>2. /\ loc[t].op \in {"malloc", "calloc", "realloc"} /\ loc[t].res = 0 /\ RequestOK(loc[t])
      /\ loc[t].op # "realloc" => loc[t].ptr = 0
      /\ loc[t].op = "realloc" => UsedAt(loc[t].ptr) /\ Size(loc[t].ptr - 1) < loc[t].size
  BY MallocCall DEF InMalloc
<1>3. Held(t)' = Held(t) \cup {r}
  BY <1>1, <1>2 DEF Held, GivesBlock
<1>4. loc[t].asked <= loc[t].size /\ loc[t].size \in Int
  BY <1>2, LocalsType DEF RequestOK
<1>5. Got(t)'
  <2>1. /\ r - 1 \in hdrs' /\ ~mem'[r - 1].c.f /\ loc[t].asked <= mem'[r - 1].c.v
    BY <1>4 DEF GivesBlock
  <2> QED BY <1>1, <2>1 DEF Got, UsedAt, Size
<1>6. CASE loc[t].op = "realloc"
  <2>1. UsedAt(loc[t].ptr) /\ Size(loc[t].ptr - 1) < loc[t].size /\ loc[t].ptr \in Held(t)
    <3>1. loc[t].ptr # 0
      BY <1>2, <1>6, InvSane, SaneTypes DEF UsedAt, Sane
    <3> QED BY <1>2, <1>6, <3>1 DEF Held
  <2>2. PICK p : p = loc[t].ptr /\ p = loc'[t].ptr
    BY <1>1
  <2>3. UsedAt(p)' /\ Size(p - 1)' = Size(p - 1)
    BY <2>1, <2>2 DEF UsedAt, Size, GivesBlock
  <2>4. pc'[t] = "copy" /\ loc'[t].res # loc'[t].ptr
    BY <1>1, <1>6 DEF GivesBlock
  <2>5. Size(p - 1)' < loc'[t].size /\ loc'[t].op = "realloc"
    BY <1>1, <1>6, <2>1, <2>2, <2>3
  <2>6. loc'[t].size <= mem'[loc'[t].res - 1].c.v
    BY <1>1, <1>4 DEF GivesBlock
  <2>7. CallOK(t)'
    BY <1>5, <2>2, <2>3, <2>4, <2>5, <2>6
       DEF CallOK, InMalloc, InFree, InRealloc, InRelock, UsedAt, Size
  <2> QED BY <1>1, <1>3, <2>4, <2>7
<1>7. CASE loc[t].op = "calloc"
  <2>1. pc'[t] = "zero" /\ loc'[t].ptr = 0 /\ loc'[t].asked <= loc'[t].size /\ loc'[t].op = "calloc"
    BY <1>1, <1>2, <1>4, <1>7
  <2>2. loc'[t].size <= mem'[loc'[t].res - 1].c.v /\ loc'[t].res # 0
    BY <1>1, <1>4 DEF GivesBlock
  <2>3. CallOK(t)'
    BY <1>5, <2>1, <2>2 DEF CallOK, InMalloc, InFree, InRealloc, InCopy, InRelock, Got, Size
  <2> QED BY <1>1, <1>3, <2>1, <2>3
<1>8. CASE loc[t].op = "malloc"
  <2>1. pc'[t] = "return" /\ loc'[t].ptr = 0 /\ loc'[t].res # 0
    BY <1>1, <1>2, <1>8 DEF GivesBlock
  <2>2. CallOK(t)'
    BY <1>5, <2>1 DEF CallOK, InMalloc, InFree, InRealloc, InCopy, InRelock
  <2> QED BY <1>1, <1>3, <2>1, <2>2
<1> QED BY <1>2, <1>6, <1>7, <1>8

(* The tags and the list after a block has been taken. *)
Takes(t, h, r, T) ==
  /\ owned' = owned /\ hdrs \subseteq hdrs'
  /\ \A g \in hdrs : g # h => mem'[g].c = mem[g].c
  /\ \A g \in hdrs' \ hdrs : g = r - 1
  /\ ~mem'[r - 1].c.f /\ r - 1 \notin T /\ r - 1 \in hdrs' /\ r \in Int
  /\ \/ r - 1 = h /\ T = Listed \ {h}
     \/ r - 1 \notin hdrs /\ T = Listed /\ mem'[h].c.f

LEMMA MallocTook ==
  ASSUME TypeOK, HeapInv, Alone, TypeOK', NEW t \in Threads, pc[t] = "search",
         NEW h \in Listed, NEW r, NEW T, Takes(t, h, r, T),
         MallocReturns(t, r), mem'[r - 1].c.v = loc[t].size,
         HeapOK(mem', hdrs', T, dibbs'), ListApart(mem', T)
  PROVE  HeapInv'
<1>1. Sane /\ Listed = Unheld /\ \A g \in hdrs : g \in Int /\ 0 < g
  BY InvSane, ListedHeld, SaneTypes DEF Sane
<1>2. \A p \in Held(t) : p \in Int /\ p - 1 \in hdrs /\ p - 1 + 1 = p /\ p - 1 \notin Listed
  BY <1>1, HeldCases DEF Unheld
<1>3. \A g \in Listed : g + 1 \notin Held(t)
  BY <1>1 DEF Unheld
<1>4. h \in hdrs /\ mem[h].c.f /\ \A g \in Listed : g \in hdrs /\ mem[g].c.f /\ g \in Int
  BY HeadOfList
<1>5. r # 0 /\ r - 1 \in Int /\ r - 1 + 1 = r /\ r \notin Held(t)
  <2>1. r \in Int /\ r \notin Held(t)
    BY <1>2, <1>4 DEF Takes
  <2>2. r - 1 \in hdrs'
    BY DEF Takes
  <2>3. 0 < r - 1
    <3>1. hdrs' \subseteq Bottom .. End - 1
      BY DEF HeapOK, Tiles
    <3>2. 0 < Bottom /\ Bottom \in Int /\ End \in Int
      BY Geometry DEF End
    <3>3. r - 1 \in Bottom .. End - 1
      BY <2>2, <3>1
    <3> QED BY <2>1, <3>2, <3>3
  <2> QED BY <2>1, <2>3
<1>6. \A g \in hdrs : g \notin Listed => mem'[g].c = mem[g].c
  BY DEF Takes
<1>7. GivesBlock(t, r)
  <2>1. \A p \in Held(t) : p - 1 \in hdrs' /\ mem'[p - 1].c = mem[p - 1].c
    BY <1>2, <1>6 DEF Takes
  <2>2. r # loc[t].ptr
    BY <1>5 DEF Held
  <2> QED BY <1>5, <2>1, <2>2 DEF GivesBlock, Takes
<1>8. /\ CallOK(t)' /\ Held(t)' = Held(t) \cup {r} /\ Others(t)
      /\ pc'[t] \notin {"assign_ptr", "search", "overflow"}
  BY <1>7, MallocGot
<1>9. Frame(t)
  <2>1. \A g \in hdrs : g \notin Listed => g \in hdrs' /\ mem'[g].c = mem[g].c
    BY <1>6 DEF Takes
  <2>2. ASSUME NEW g \in hdrs', ~mem'[g].c.f
        PROVE  (g \in hdrs /\ ~mem[g].c.f /\ g + 1 \notin Held(t)) \/ g + 1 \in Held(t)'
    <3>1. CASE g = r - 1
      BY <1>5, <1>8, <3>1
    <3>2. CASE g # r - 1
      <4>1. g \in hdrs /\ g # h
        BY <2>2, <3>2 DEF Takes
      <4>2. ~mem[g].c.f
        BY <2>2, <4>1 DEF Takes
      <4> QED BY <1>8, <4>1, <4>2
    <3> QED BY <3>1, <3>2
  <2>3. ASSUME NEW p \in Held(t)'
        PROVE  p - 1 \in hdrs' /\ (p \in Held(t) \/ p - 1 \in Listed \/ p - 1 \notin hdrs)
    <3>1. CASE p = r
      BY <3>1 DEF Takes
    <3>2. CASE p \in Held(t)
      BY <1>2, <3>2 DEF Takes
    <3> QED BY <1>8, <3>1, <3>2
  <2> QED BY <1>8, <2>1, <2>2, <2>3 DEF Frame, Takes
<1>10. NewList(t, T)
  <2>1. T \subseteq hdrs' /\ T \subseteq Listed
    BY DEF HeapOK, Takes
  <2>2. \A g \in T : mem'[g].c.f /\ g + 1 \notin Held(t)'
    <3> SUFFICES ASSUME NEW g \in T PROVE mem'[g].c.f /\ g + 1 \notin Held(t)'
      OBVIOUS
    <3>1. g \in Listed /\ g # r - 1 /\ g \in Int /\ r \in Int
      BY <1>4, <2>1 DEF Takes
    <3>2. g + 1 # r
      BY <3>1
    <3>3. mem'[g].c.f
      BY <1>4, <3>1 DEF Takes
    <3> QED BY <1>3, <1>8, <3>1, <3>2, <3>3
  <2>3. ASSUME NEW g \in hdrs' \ T
        PROVE  g + 1 \in Held(t)' \/ (g \in hdrs /\ g \notin Listed /\ g + 1 \notin Held(t))
    <3>1. CASE g = r - 1
      BY <1>5, <1>8, <3>1
    <3>2. CASE g # r - 1
      BY <1>8, <2>3, <3>2 DEF Takes
    <3> QED BY <3>1, <3>2
  <2> QED BY <2>1, <2>2, <2>3 DEF NewList
<1>11. pc[t] \in In
  BY DEF In
<1> QED BY <1>8, <1>9, <1>10, <1>11, Changed

(* A step leaves what is in the chunks alone, but for those of T. *)
BlocksKept(T) == Keeps(mem, mem', hdrs, T)

LEMMA PairStores ==
  ASSUME NEW m, NEW h, NEW e, NEW w
  PROVE  [m EXCEPT ![h].c = w, ![e].p = w] = PutP(PutC(m, h, w), e, w)
  BY DEF PutP, PutC

LEMMA MallocPerfectInv ==
  ASSUME TypeOK, HeapInv, Alone, TypeOK', NEW t \in Threads, MallocPerfect(t)
  PROVE  HeapInv' /\ BlocksKept(Listed)
<1> DEFINE h    == loc[t].f - 1
           w    == Used(mem[h].c.v)
           next == mem[Wrap(dibbs + 1)].c
           d    == IF h # dibbs THEN dibbs ELSE IF Null(mem[h + 1].c) THEN End ELSE mem[h + 1].c.v - 1
<1>1. pc[t] = "search" /\ loc[t].f # 0 /\ Exact(t) /\ loc[t].f \in Addr /\ loc[t].f \in Int
  BY LocalsType DEF MallocPerfect
<1>2. /\ Candidate(t) = h /\ h \in Listed /\ Size(h) = loc[t].size
      /\ h \in hdrs /\ h + 1 = loc[t].f /\ h \in Int
  <2>1. Candidate(t) = h /\ h \in Listed /\ Size(h) = loc[t].size
    BY <1>1, SearchTests
  <2> QED BY <1>1, <2>1, HeadOfList
<1>3. /\ mem \in Memory /\ Tiles(mem, hdrs) /\ HeapOK(mem, hdrs, Listed, dibbs)
      /\ ListApart(mem, Listed)
  BY InvSane, HeaderTypes, HeapInvIs DEF Sane
<1>4. NextHeader(mem, h) = EndOf(mem, h)
  BY <1>2, <1>3, Neighbours
<1>5. /\ mem' = Relink([mem EXCEPT ![h].c = w, ![NextHeader(mem, h)].p = w], loc[t].f)
      /\ dibbs' = IF h # dibbs THEN dibbs ELSE IF Null(next) THEN End ELSE Wrap(next.v - 1)
      /\ MallocReturns(t, loc[t].f) /\ owned' = owned /\ hdrs' = hdrs
  BY <1>2 DEF MallocPerfect
<1>6. dibbs' = d
  <2>1. CASE h = dibbs
    <3>1. next = mem[h + 1].c
      BY <1>2, <1>3, <2>1, LinkPlaces
    <3>2. CASE Null(next)
      BY <1>5, <2>1, <3>1, <3>2
    <3>3. CASE ~Null(next)
      <4>1. PICK g \in Listed : mem[h + 1].c = Link(g + 1)
        BY <1>2, <1>3, <3>1, <3>3 DEF HeapOK, FreeList, Null
      <4>2. g \in Int /\ g \in Addr
        BY <1>3, HeadOfList, TilesFacts
      <4>3. next.v = g + 1
        BY <3>1, <4>1, LinkField
      <4>4. Wrap(next.v - 1) = mem[h + 1].c.v - 1
        <5>1. next.v - 1 = g
          BY <4>2, <4>3
        <5> QED BY <3>1, <4>2, <5>1, WrapIn
      <4> HIDE DEF next
      <4> QED BY <1>5, <2>1, <3>1, <3>3, <4>4
    <3> QED BY <3>2, <3>3
  <2>2. CASE h # dibbs
    BY <1>5, <2>2
  <2> QED BY <2>1, <2>2
<1>7. w \in Word /\ w.v = mem[h].c.v /\ ~w.f
  <2>1. mem[h].c \in Word
    BY <1>2, <1>3, TilesFacts
  <2> QED BY <2>1 DEF Word, Used
<1>8. mem' = Relink(PutP(PutC(mem, h, w), EndOf(mem, h), w), h + 1)
  <2>1. mem' = Relink([mem EXCEPT ![h].c = w, ![EndOf(mem, h)].p = w], h + 1)
    BY <1>2, <1>4, <1>5
  <2> HIDE DEF h, w
  <2>2. [mem EXCEPT ![h].c = w, ![EndOf(mem, h)].p = w] = PutP(PutC(mem, h, w), EndOf(mem, h), w)
    BY PairStores
  <2> QED BY <2>1, <2>2
<1> HIDE DEF h, w, d, next
<1>9. TakenWhole(mem, mem', hdrs, Listed, dibbs, h, w)
  BY <1>2, <1>3, <1>7, <1>8, TakeWhole
<1> DEFINE T == Listed \ {h}
<1>10. /\ HeapOK(mem', hdrs', T, dibbs')
       /\ mem'[h].c = w /\ \A g \in hdrs : g # h => mem'[g].c = mem[g].c
  BY <1>5, <1>6, <1>9 DEF TakenWhole, d
<1>11. ListApart(mem', T)
  BY <1>3, <1>10 DEF ListApart, EndOf, HeapOK
<1>12. Takes(t, h, loc[t].f, T)
  <2>1. loc[t].f - 1 = h
    BY DEF h
  <2> QED BY <1>1, <1>2, <1>5, <1>7, <1>10, <2>1 DEF Takes
<1>13. mem'[loc[t].f - 1].c.v = loc[t].size
  BY <1>2, <1>7, <1>10 DEF Size, h
<1>14. HeapInv'
  BY <1>1, <1>2, <1>5, <1>10, <1>11, <1>12, <1>13, MallocTook
<1> QED BY <1>9, <1>14 DEF TakenWhole, BlocksKept

(* Where set_used_space cuts. *)
LEMMA CutPlace ==
  ASSUME NEW m \in Memory, NEW H, Tiles(m, H), NEW h \in H, NEW size \in Int,
         1 <= size, size + 2 <= m[h].c.v
  PROVE  LET n == h + m[h].c.v - size
             w1 == Freed(m[h].c.v - size - 1)
         IN  /\ Wrap(h + Wrap(m[h].c.v - size)) = n /\ n \in Int
             /\ Wrap(m[h].c.v - Wrap(size + 1)) = m[h].c.v - size - 1
             /\ Wrap(n + 1) = n + 1 /\ Wrap(n + 1 + size) = EndOf(m, h)
             /\ w1 \in Word /\ Used(size) \in Word
             /\ SplitTags(m, h, n, w1, Used(size))
<1> DEFINE v == m[h].c.v
           e == EndOf(m, h)
<1>1. /\ h \in Int /\ h \in Addr /\ v \in Int /\ e = h + 1 + v /\ e \in Addr /\ e \in Int
      /\ Bottom <= h /\ e <= End
  BY TilesFacts DEF EndOf
<1>2. 0 < h /\ e < W /\ W \in Nat
  <2>1. Bottom \in Int /\ 0 < Bottom /\ End \in Int /\ End < W /\ W \in Nat
    BY Geometry DEF End
  <2> QED BY <1>1, <2>1
<1>8. 1 <= size /\ size + 2 <= v
  OBVIOUS
<1> HIDE DEF v, e
<1> DEFINE n == h + v - size
<1>3. /\ v - size \in Addr /\ n \in Addr /\ size + 1 \in Addr /\ v - (size + 1) \in Addr
      /\ n + 1 \in Addr /\ n + 1 + size = e /\ size \in Addr /\ v - size - 1 = v - (size + 1)
  BY <1>1, <1>2, <1>8 DEF Addr
<1>4. /\ Wrap(v - size) = v - size /\ Wrap(size + 1) = size + 1
      /\ Wrap(v - (size + 1)) = v - size - 1 /\ Wrap(n + 1) = n + 1 /\ Wrap(n + 1 + size) = e
  BY <1>1, <1>3, WrapIn
<1>5. Wrap(h + Wrap(v - size)) = n
  <2>1. h + (v - size) = n
    BY <1>1
  <2> QED BY <1>3, <1>4, <2>1, WrapIn
<1>6. Freed(v - size - 1) \in Word /\ Used(size) \in Word
  BY <1>3 DEF Freed, Used, Word
<1>7. SplitTags(m, h, n, Freed(v - size - 1), Used(size))
  BY <1>1, <1>3, <1>8 DEF SplitTags, Freed, Used, v, e
<1> QED BY <1>1, <1>3, <1>4, <1>5, <1>6, <1>7 DEF v, e

LEMMA MallocSplitInv ==
  ASSUME TypeOK, HeapInv, Alone, TypeOK', NEW t \in Threads, MallocSplit(t)
  PROVE  HeapInv' /\ BlocksKept(Listed)
<1> DEFINE h    == loc[t].best
           size == loc[t].size
           n    == h + mem[h].c.v - size
           w1   == Freed(mem[h].c.v - size - 1)
           w2   == Used(size)
           e    == EndOf(mem, h)
<1>1. pc[t] = "search" /\ h # 0 /\ size \in Int /\ size > 0
  BY LocalsType, MallocCall DEF MallocSplit, InMalloc
<1>2. h \in Listed /\ h \in hdrs /\ Size(h) # size /\ Fits(h, size)
  <2>1. h \in Passed(t) /\ Fits(h, size) /\ Size(h) # size
    BY <1>1, SearchCall
  <2>2. h \in Listed
    BY <2>1 DEF Passed
  <2> QED BY <2>1, <2>2, HeadOfList
<1>3. /\ mem \in Memory /\ Tiles(mem, hdrs) /\ HeapOK(mem, hdrs, Listed, dibbs)
      /\ ListApart(mem, Listed)
  BY InvSane, HeaderTypes, HeapInvIs DEF Sane
<1>4. 1 <= size /\ size + 2 <= mem[h].c.v
  BY <1>1, <1>2 DEF Fits, Size
<1>5. /\ Wrap(h + Wrap(mem[h].c.v - size)) = n /\ n \in Int
      /\ Wrap(mem[h].c.v - Wrap(size + 1)) = mem[h].c.v - size - 1
      /\ Wrap(n + 1) = n + 1 /\ Wrap(n + 1 + size) = e
      /\ w1 \in Word /\ w2 \in Word
      /\ SplitTags(mem, h, n, w1, w2)
  BY <1>1, <1>2, <1>3, <1>4, CutPlace
<1>6. /\ mem' = [mem EXCEPT ![n] = [p |-> w1, c |-> w2], ![h].c = w1, ![e].p = w2]
      /\ hdrs' = hdrs \cup {n} /\ MallocReturns(t, n + 1)
      /\ dibbs' = dibbs /\ owned' = owned
  <2> DEFINE n0 == Wrap(h + Wrap(mem[h].c.v - size))
             r0 == Freed(Wrap(mem[h].c.v - Wrap(size + 1)))
  <2>1. n0 = n /\ r0 = w1
    BY <1>5
  <2>2. /\ mem' = [mem EXCEPT ![n0] = [p |-> r0, c |-> w2], ![h].c = r0,
                              ![Wrap(Wrap(n0 + 1) + size)].p = w2]
        /\ hdrs' = hdrs \cup {n0} /\ MallocReturns(t, Wrap(n0 + 1))
        /\ dibbs' = dibbs /\ owned' = owned
    BY DEF MallocSplit
  <2> HIDE DEF n0, r0, n, w1, w2, e
  <2> QED BY <1>5, <2>1, <2>2
<1>7. w1.f /\ ~w2.f /\ w2.v = size
  BY DEF Freed, Used
<1> HIDE DEF h, n, w1, w2, e
<1>8. mem' = PutP(PutC(PutCell(mem, n, w1, w2), h, w1), EndOf(mem, h), w2)
  <2>1. [mem EXCEPT ![n] = [p |-> w1, c |-> w2], ![h].c = w1, ![e].p = w2]
          = PutP(PutC(PutCell(mem, n, w1, w2), h, w1), e, w2)
    BY DEF PutP, PutC, PutCell
  <2>2. e = EndOf(mem, h)
    BY DEF e
  <2> QED BY <1>6, <2>1, <2>2
<1>9. CutAt(mem, mem', hdrs, Listed, dibbs, h, n, w1, w2)
  BY <1>2, <1>3, <1>5, <1>8, Cut
<1>10. /\ HeapOK(mem', hdrs', Listed, dibbs') /\ n \notin hdrs
       /\ mem'[h].c = w1 /\ mem'[n].c = w2
       /\ \A g \in hdrs : g # h => mem'[g].c = mem[g].c
       /\ EndOf(mem', h) = n
       /\ \A g \in hdrs \ {h} : EndOf(mem', g) = EndOf(mem, g)
  BY <1>6, <1>9 DEF CutAt
<1>11. ListApart(mem', Listed)
  <2>1. Listed \subseteq hdrs
    BY <1>3 DEF HeapOK
  <2> QED BY <1>3, <1>10, <2>1 DEF ListApart
<1> DEFINE r == n + 1
<1>12. r - 1 = n /\ r \in Int /\ MallocReturns(t, r)
  BY <1>5, <1>6
<1> HIDE DEF r
<1>13. Takes(t, h, r, Listed)
  <2>1. n \notin Listed
    BY <1>3, <1>10 DEF HeapOK
  <2> QED BY <1>6, <1>7, <1>10, <1>12, <2>1 DEF Takes
<1>14. mem'[r - 1].c.v = loc[t].size
  BY <1>7, <1>10, <1>12
<1>15. HeapInv'
  BY <1>1, <1>2, <1>10, <1>11, <1>12, <1>13, <1>14, MallocTook
<1> QED BY <1>2, <1>9, <1>15 DEF CutAt, Keeps, BlocksKept

-----------------------------------------------------------------------------
(* free gives a chunk back.                                                *)

(* The chunk that t has in its hands joins the free ones, those of T. *)
Frees(t, T) ==
  LET h == loc[t].ptr - 1 IN
  /\ owned' = owned /\ hdrs' \subseteq hdrs
  /\ \A g \in hdrs : g \notin Listed /\ g # h => g \in hdrs' /\ mem'[g].c = mem[g].c
  /\ \A g \in hdrs' : ~mem'[g].c.f => ~mem[g].c.f /\ g # h
  /\ \A g \in T : mem'[g].c.f /\ (g \in Listed \/ g = h)
  /\ \A g \in hdrs' \ T : ~mem'[g].c.f \/ (g \notin Listed /\ g # h)

LEMMA FreeDone ==
  ASSUME TypeOK, HeapInv, Alone, TypeOK', NEW t \in Threads, pc[t] \in {"merge", "assign_ptr"},
         FreeReturns(t), NEW T, Frees(t, T), HeapOK(mem', hdrs', T, dibbs'), ListApart(mem', T)
  PROVE  HeapInv'
<1> DEFINE h == loc[t].ptr - 1
<1>1. /\ Others(t)
      /\ pc'[t] = (IF loc[t].op = "realloc" THEN "relock" ELSE "return")
      /\ loc'[t].ptr = 0 /\ loc'[t].op = loc[t].op /\ loc'[t].asked = loc[t].asked
      /\ loc'[t].res = loc[t].res
  BY FreeReturned
<1>2. /\ FreeOK(t) /\ h \in hdrs /\ h \in Int /\ loc[t].ptr = h + 1 /\ loc[t].ptr # 0
      /\ loc[t].ptr - 1 \in Int
  BY FreeCall DEF InFree
<1>3. /\ \/ loc[t].op = "realloc" /\ Got(t) /\ loc[t].res # loc[t].ptr
         \/ loc[t].op = "free" /\ loc[t].res = 0
      /\ loc[t].res \in Int
  BY <1>2, LocalsType DEF FreeOK
<1>4. \A g \in hdrs : g \in Int
  BY InvSane, SaneTypes DEF Sane
<1> DEFINE r == loc[t].res
<1> HIDE DEF h
<1>5. /\ Held(t) = {h + 1} \cup ({r} \ {0}) /\ Held(t)' = {r} \ {0} /\ r # h + 1
  BY <1>1, <1>2, <1>3 DEF Held
<1> HIDE DEF r
<1>6. /\ hdrs' \subseteq hdrs
      /\ \A g \in hdrs : g \notin Listed /\ g # h => g \in hdrs' /\ mem'[g].c = mem[g].c
      /\ \A g \in hdrs' : ~mem'[g].c.f => ~mem[g].c.f /\ g # h
      /\ \A g \in T : mem'[g].c.f /\ (g \in Listed \/ g = h)
      /\ \A g \in hdrs' \ T : ~mem'[g].c.f \/ (g \notin Listed /\ g # h)
  BY DEF Frees, h
<1>7. ASSUME r # 0
      PROVE  /\ r - 1 \in hdrs /\ r - 1 \notin Listed /\ r - 1 # h /\ ~mem[r - 1].c.f
             /\ r - 1 \in hdrs' /\ mem'[r - 1].c = mem[r - 1].c
             /\ loc[t].op = "realloc" /\ loc[t].asked <= mem[r - 1].c.v
  <2>1. /\ r - 1 \in hdrs /\ ~mem[r - 1].c.f /\ loc[t].op = "realloc"
        /\ loc[t].asked <= mem[r - 1].c.v
    BY <1>3, <1>7 DEF Got, UsedAt, Size, r
  <2>2. r - 1 \notin Listed /\ r - 1 # h
    BY <1>2, <1>3, <1>5, <2>1 DEF Listed, FreeChunks, r
  <2> QED BY <1>6, <2>1, <2>2
<1>8. CallOK(t)'
  <2>1. CASE loc[t].op = "realloc"
    <3>1. r # 0
      <4>1. r - 1 \in hdrs
        BY <1>3, <2>1 DEF Got, UsedAt, r
      <4> QED BY <4>1, InvSane, SaneTypes DEF Sane
    <3>2. Got(t)'
      BY <1>1, <1>7, <3>1 DEF Got, UsedAt, Size, r
    <3> QED BY <1>1, <2>1, <3>2 DEF CallOK, InMalloc, InFree, InRealloc, InCopy, InRelock
  <2>2. CASE loc[t].op = "free" /\ loc[t].res = 0
    BY <1>1, <2>2 DEF CallOK, InMalloc, InFree, InRealloc, InCopy, InRelock
  <2> QED BY <1>3, <2>1, <2>2
<1>9. r \in Int /\ \A g \in hdrs : g + 1 = r <=> g = r - 1
  BY <1>3, <1>4 DEF r
<1>10. \A g \in hdrs : g + 1 = h + 1 <=> g = h
  BY <1>2, <1>4
<1>11. Frame(t)
  <2>1. \A g \in hdrs : g \notin Listed /\ g + 1 \notin Held(t) => g \in hdrs' /\ mem'[g].c = mem[g].c
    BY <1>5, <1>6
  <2>2. \A g \in hdrs' : ~mem'[g].c.f
          => (g \in hdrs /\ ~mem[g].c.f /\ g + 1 \notin Held(t)) \/ g + 1 \in Held(t)'
    BY <1>5, <1>6, <1>10
  <2>3. \A p \in Held(t)' : p - 1 \in hdrs' /\ p \in Held(t)
    BY <1>5, <1>7
  <2> QED BY <1>1, <2>1, <2>2, <2>3 DEF Frame, Frees
<1>12. NewList(t, T)
  <2>1. T \subseteq hdrs'
    BY DEF HeapOK
  <2>2. ASSUME NEW g \in T PROVE mem'[g].c.f /\ g + 1 \notin Held(t)' /\ (g \in Listed \/ g + 1 \in Held(t))
    <3>1. g \in hdrs /\ mem'[g].c.f /\ (g \in Listed \/ g = h)
      BY <1>6, <2>1
    <3>2. r # 0 => g # r - 1
      BY <1>7, <3>1
    <3> QED BY <1>5, <1>9, <3>1, <3>2
  <2>3. ASSUME NEW g \in hdrs' \ T
        PROVE  \/ ~mem'[g].c.f \/ g + 1 \in Held(t)'
               \/ g \in hdrs /\ g \notin Listed /\ g + 1 \notin Held(t)
    BY <1>5, <1>6, <1>10
  <2> QED BY <2>1, <2>2, <2>3 DEF NewList
<1>13. pc[t] \in In
  BY DEF In
<1>14. pc'[t] \notin {"assign_ptr", "search", "overflow"}
  BY <1>1
<1> QED BY <1>8, <1>11, <1>12, <1>13, <1>14, Changed

(* assign_ptr has put the chunk into the list. *)
LEMMA AssignDone ==
  ASSUME TypeOK, HeapInv, Alone, TypeOK', NEW t \in Threads, pc[t] = "assign_ptr",
         FreeReturns(t), owned' = owned, hdrs' = hdrs,
         Entered(mem, mem', hdrs, Listed, dibbs', loc[t].ptr - 1)
  PROVE  HeapInv' /\ BlocksKept(Listed \cup {loc[t].ptr - 1})
<1> DEFINE h == loc[t].ptr - 1
           T == Listed \cup {h}
<1>1. FreeOK(t) /\ h \in hdrs /\ h \in Int /\ mem[h].c.f
  <2>1. FreeOK(t) /\ h \in hdrs /\ h \in Int
    BY FreeCall DEF InFree
  <2> QED BY <2>1 DEF FreeOK
<1>2. /\ After(h) \notin FreeChunks
      /\ \A g \in FreeChunks : After(g) # h
  BY DEF HeapInv, Calls, AssignOK
<1> HIDE DEF h
<1>3. /\ HeapOK(mem', hdrs, T, dibbs')
      /\ \A g \in hdrs \cup {End} : mem'[g] = mem[g]
      /\ \A g \in hdrs : EndOf(mem', g) = EndOf(mem, g)
  BY DEF Entered, h
<1>4. Listed \subseteq FreeChunks /\ FreeChunks \subseteq hdrs /\ ListApart(mem, Listed)
      /\ h \in FreeChunks
  BY <1>1, HeapInvIs DEF Listed, FreeChunks
<1>5. \A g : After(g) = EndOf(mem, g)
  BY DEF After, EndOf, Size
<1>6. ListApart(mem', T)
  <2>1. ASSUME NEW k \in T PROVE EndOf(mem', k) \notin T
    <3>1. k \in FreeChunks /\ EndOf(mem', k) = EndOf(mem, k)
      BY <1>3, <1>4
    <3>2. EndOf(mem, k) # h
      BY <1>2, <1>5, <3>1
    <3>3. EndOf(mem, k) \notin Listed
      <4>1. CASE k = h
        BY <1>2, <1>4, <1>5, <4>1
      <4>2. CASE k \in Listed
        BY <1>4, <4>2 DEF ListApart
      <4> QED BY <4>1, <4>2
    <3> QED BY <3>1, <3>2, <3>3
  <2> QED BY <2>1 DEF ListApart
<1>7. Frees(t, T)
  <2>1. \A g \in FreeChunks : mem[g].c.f
    BY DEF FreeChunks
  <2> QED BY <1>3, <1>4, <2>1 DEF Frees, h
<1>8. HeapInv'
  BY <1>3, <1>6, <1>7, FreeDone
<1> QED BY <1>8 DEF Entered, BlocksKept

LEMMA AssignFirstInv ==
  ASSUME TypeOK, HeapInv, Alone, TypeOK', NEW t \in Threads, AssignFirst(t)
  PROVE  HeapInv' /\ BlocksKept(Listed \cup {loc[t].ptr - 1})
<1> DEFINE curr == loc[t].ptr
           h == curr - 1
           d_free == Wrap(dibbs + 1)
<1>1. /\ pc[t] = "assign_ptr" /\ FreeReturns(t) /\ owned' = owned /\ hdrs' = hdrs
      /\ dibbs = End \/ (loc[t].f = d_free /\ d_free > curr)
      /\ dibbs' = Wrap(curr - 1)
      /\ mem' = IF dibbs = End THEN mem
                ELSE [mem EXCEPT ![curr] = [p |-> Link(0), c |-> Link(d_free)],
                                 ![d_free].p = Link(curr)]
  BY DEF AssignFirst
<1>2. h \in hdrs /\ h \in Int /\ curr = h + 1 /\ Wrap(curr - 1) = h /\ curr \in Int
  BY <1>1, FreeCall DEF InFree
<1>3. /\ mem \in Memory /\ HeapOK(mem, hdrs, Listed, dibbs) /\ Tiles(mem, hdrs)
  BY InvSane, HeaderTypes, HeapInvIs DEF Sane
<1> HIDE DEF h
<1>4. CASE dibbs = End
  <2>1. mem[h + 1].p = Link(0) /\ mem[h + 1].c = Link(0)
    BY <1>1, <1>2 DEF HeapInv, Calls, AssignOK
  <2>2. Entered(mem, mem, hdrs, Listed, h, h)
    BY <1>2, <1>3, <1>4, <2>1, EnterEmpty
  <2>3. mem' = mem /\ dibbs' = h /\ h = loc[t].ptr - 1
    BY <1>1, <1>2, <1>4 DEF h
  <2>4. Entered(mem, mem', hdrs, Listed, dibbs', loc[t].ptr - 1)
    BY <2>2, <2>3
  <2> QED BY <1>1, <2>4, AssignDone
<1>5. CASE dibbs # End
  <2>1. dibbs \in Listed /\ IsFirst(Listed, dibbs) /\ dibbs \in hdrs /\ dibbs \in Int
    BY <1>3, <1>5, HeadOfList DEF HeapOK, FreeList
  <2>2. d_free = dibbs + 1
    BY <1>3, <2>1, LinkPlaces
  <2>3. \A k \in Listed : h < k
    <3>1. h < dibbs
      BY <1>1, <1>2, <1>5, <2>1, <2>2
    <3>2. \A k \in Listed : dibbs <= k /\ k \in Int
      BY <2>1, HeadOfList DEF IsFirst
    <3> QED BY <1>2, <2>1, <3>1, <3>2
  <2> HIDE DEF d_free
  <2>4. mem' = PutP(PutCell(mem, h + 1, Link(0), Link(dibbs + 1)), dibbs + 1, Link(h + 1))
    <3>1. mem' = [mem EXCEPT ![h + 1] = [p |-> Link(0), c |-> Link(dibbs + 1)],
                             ![dibbs + 1].p = Link(h + 1)]
      BY <1>1, <1>2, <1>5, <2>2
    <3> QED BY <3>1 DEF PutP, PutCell
  <2>5. Entered(mem, mem', hdrs, Listed, h, h)
    BY <1>2, <1>3, <1>5, <2>3, <2>4, EnterFirst
  <2>6. dibbs' = h /\ h = loc[t].ptr - 1
    BY <1>1, <1>2 DEF h
  <2>7. Entered(mem, mem', hdrs, Listed, dibbs', loc[t].ptr - 1)
    BY <2>5, <2>6
  <2> QED BY <1>1, <2>7, AssignDone
<1> QED BY <1>4, <1>5

LEMMA AssignInsertInv ==
  ASSUME TypeOK, HeapInv, Alone, TypeOK', NEW t \in Threads, AssignInsert(t)
  PROVE  HeapInv' /\ BlocksKept(Listed \cup {loc[t].ptr - 1})
<1> DEFINE curr == loc[t].ptr
           h == curr - 1
           f == loc[t].f
           g == f - 1
           next == mem[f].c
<1>1. /\ pc[t] = "assign_ptr" /\ FreeReturns(t) /\ owned' = owned /\ hdrs' = hdrs /\ dibbs' = dibbs
      /\ Between(t) /\ ~Before(t)
      /\ mem' = [SetPrev(mem, next, Link(curr))
                   EXCEPT ![curr] = [p |-> Link(f), c |-> next], ![f].c = Link(curr)]
  BY DEF AssignInsert, Between
<1>2. /\ f \in Int /\ h \in Int /\ h + 1 = curr /\ g \in Listed /\ g < h /\ h \notin Listed
      /\ \/ next = Link(0) /\ IsLast(Listed, g)
         \/ \E k \in Listed : next = Link(k + 1) /\ Follows(Listed, g, k)
  BY <1>1, AssignPlace
<1>3. g + 1 = f /\ h \in hdrs
  <2>1. pc[t] \in InFree
    BY <1>1 DEF InFree
  <2>2. loc[t].ptr - 1 \in hdrs
    BY <2>1, FreeCall
  <2> QED BY <1>2, <2>2
<1>4. /\ mem \in Memory /\ HeapOK(mem, hdrs, Listed, dibbs)
  BY InvSane, HeaderTypes, HeapInvIs DEF Sane
<1>5. \A k \in Listed : k \in Int
  BY HeadOfList
<1>6. \A k \in Listed : k <= g \/ h < k
  <2>1. CASE IsLast(Listed, g)
    BY <2>1 DEF IsLast
  <2>2. CASE \E k \in Listed : next = Link(k + 1) /\ Follows(Listed, g, k)
    <3>1. PICK k \in Listed : next = Link(k + 1) /\ Follows(Listed, g, k)
      BY <2>2
    <3>2. k \in Int /\ next.v = k + 1 /\ ~Null(next)
      <4>1. 0 < k
        BY HeadOfList, InvSane, SaneTypes DEF Sane
      <4>2. k + 1 # 0 /\ k \in Int
        BY <1>5, <4>1
      <4> QED BY <3>1, <4>2, LinkField DEF Null
    <3>3. ~(next.v < curr)
      BY <1>1, <3>2 DEF Before
    <3> HIDE DEF next, h, g, curr
    <3>4. h < k
      BY <1>2, <3>2, <3>3
    <3>5. \A j \in Listed : j <= g \/ k <= j
      BY <3>1 DEF Follows
    <3> QED BY <1>2, <1>5, <3>2, <3>4, <3>5
  <2> QED BY <1>2, <2>1, <2>2
<1> HIDE DEF next, h, g, curr, f
<1> DEFINE y == SetPrev(mem, mem[g + 1].c, Link(h + 1))
           z == PutCell(y, h + 1, Link(g + 1), mem[g + 1].c)
<1>7. Entered(mem, PutC(z, g + 1, Link(h + 1)), hdrs, Listed, dibbs, h)
  BY <1>2, <1>3, <1>4, <1>6, EnterAfter
<1>8. mem' = PutC(z, g + 1, Link(h + 1))
  <2>1. mem' = [y EXCEPT ![h + 1] = [p |-> Link(g + 1), c |-> mem[g + 1].c], ![g + 1].c = Link(h + 1)]
    BY <1>1, <1>2, <1>3 DEF next
  <2> HIDE DEF y
  <2> QED BY <2>1 DEF PutC, PutCell
<1> HIDE DEF z
<1>9. Entered(mem, mem', hdrs, Listed, dibbs', loc[t].ptr - 1)
  BY <1>1, <1>7, <1>8 DEF h, curr
<1> QED BY <1>1, <1>9, AssignDone

(* The two tests of free, in a heap. *)
LEMMA MergeTests ==
  ASSUME NEW m \in Memory, NEW H, Tiles(m, H), Footers(m, H), NEW h \in H
  PROVE  /\ FreeBelow(m, h) <=> \E g \in H : EndOf(m, g) = h /\ m[g].c.f
         /\ \A g \in H : EndOf(m, g) = h => PrevHeader(m, h) = g /\ m[h].p = m[g].c /\ g # h
         /\ NextHeader(m, h) = EndOf(m, h)
         /\ FreeAbove(m, h) <=> EndOf(m, h) \in H /\ m[EndOf(m, h)].c.f
<1>1. /\ \A g \in H : m[g].c.v >= 1 /\ m[g].c.v \in Int /\ g \in Int /\ g < EndOf(m, g)
      /\ EndOf(m, h) \in H \cup {End} /\ End \notin H
  <2>1. \A g \in H : m[g].c.v \in Int /\ g \in Int /\ g + 2 <= EndOf(m, g) /\ EndOf(m, g) \in Int
    BY TilesFacts
  <2>2. \A g \in H : g < EndOf(m, g)
    BY <2>1
  <2> QED BY <2>1, <2>2, TilesAll DEF Tiles
<1>2. \A g \in H : EndOf(m, g) = h => PrevHeader(m, h) = g /\ m[h].p = m[g].c /\ g # h
  <2> SUFFICES ASSUME NEW g \in H, EndOf(m, g) = h
               PROVE  PrevHeader(m, h) = g /\ m[h].p = m[g].c /\ g # h
    OBVIOUS
  <2>1. g # h
    BY <1>1
  <2>2. m[h].p = m[g].c
    BY <2>1 DEF Footers
  <2> QED BY <2>1, <2>2, Neighbours
<1>3. NextHeader(m, h) = EndOf(m, h)
  BY Neighbours
<1>4. FreeBelow(m, h) <=> \E g \in H : EndOf(m, g) = h /\ m[g].c.f
  <2>1. CASE h = Bottom
    <3>1. m[h].p.v = 0
      BY <2>1 DEF Footers
    <3>2. \A g \in H : EndOf(m, g) # h
      BY <2>1, TilesAll
    <3> QED BY <3>1, <3>2 DEF FreeBelow
  <2>2. CASE h # Bottom
    <3>1. PICK g \in H : EndOf(m, g) = h
      BY <2>2 DEF Tiles
    <3>2. m[h].p = m[g].c /\ m[g].c.v # 0
      BY <1>1, <1>2, <3>1
    <3>3. FreeBelow(m, h) <=> m[g].c.f
      BY <3>2 DEF FreeBelow
    <3>4. \A k \in H : EndOf(m, k) = h => m[k].c = m[g].c
      BY <1>2, <3>1
    <3> QED BY <3>1, <3>3, <3>4
  <2> QED BY <2>1, <2>2
<1>5. FreeAbove(m, h) <=> EndOf(m, h) \in H /\ m[EndOf(m, h)].c.f
  <2>1. FreeAbove(m, h) <=> m[EndOf(m, h)].c.f /\ m[EndOf(m, h)].c.v # 0
    BY <1>3 DEF FreeAbove
  <2>2. CASE EndOf(m, h) = End
    BY <1>1, <2>1, <2>2 DEF Footers, Used
  <2>3. CASE EndOf(m, h) \in H
    BY <1>1, <2>1, <2>3
  <2> QED BY <1>1, <2>2, <2>3
<1> QED BY <1>2, <1>3, <1>4, <1>5

(* The first test of free finds the free chunk that ends at h. *)
FreeBefore(m, H, h) == \E g \in H : EndOf(m, g) = h /\ m[g].c.f

LEMMA BelowTest ==
  ASSUME NEW m \in Memory, NEW H, Tiles(m, H), Footers(m, H), NEW h \in H
  PROVE  FreeBelow(m, h) <=> FreeBefore(m, H, h)
BY MergeTests DEF FreeBefore

(* The places of a free that merges, its chunk at h. *)
LEMMA MergePlaces ==
  ASSUME TypeOK, HeapInv, NEW t \in Threads, pc[t] = "merge", ~MergesLoose(t), pc'[t] # "merge"
  PROVE  LET h == loc[t].ptr - 1 IN
         /\ h \in hdrs /\ h \in Int /\ loc[t].ptr = h + 1 /\ Wrap(loc[t].ptr - 1) = h
         /\ h \notin Listed
         /\ loc[t].nxt = EndOf(mem, h)
         /\ \A g \in hdrs : g # h /\ mem[g].c.f /\ (EndOf(mem, g) = h \/ EndOf(mem, h) = g)
              => g \in Listed
<1> DEFINE h == loc[t].ptr - 1
<1>1. /\ FreeOK(t) /\ h \in hdrs /\ h \in Int /\ loc[t].ptr = h + 1 /\ Wrap(loc[t].ptr - 1) = h
      /\ loc[t].nxt = After(h)
  <2>1. FreeOK(t) /\ h \in hdrs /\ h \in Int /\ loc[t].ptr \in Int /\ Wrap(loc[t].ptr - 1) = h
    BY FreeCall DEF InFree
  <2> QED BY <2>1 DEF FreeOK
<1>2. h \notin Listed
  BY <1>1 DEF Listed, InTransit, Leaving
<1>3. \A g : After(g) = EndOf(mem, g)
  BY DEF After, EndOf, Size
<1>4. ASSUME NEW g \in hdrs, g # h, mem[g].c.f, EndOf(mem, g) = h \/ EndOf(mem, h) = g
      PROVE  g \in Listed
  <2>1. g \notin Loose
    BY <1>3, <1>4 DEF MergesLoose
  <2> QED BY <1>4, <2>1 DEF Loose, Listed, FreeChunks
<1> QED BY <1>1, <1>2, <1>3, <1>4

(* What a merge does, its four results. *)
LEMMA MergeUnfold ==
  ASSUME NEW t \in Threads, FreeMerge(t), NEW h, loc[t].ptr = h + 1, Wrap(loc[t].ptr - 1) = h,
         loc[t].nxt = EndOf(mem, h), NEW m0, m0 = Flagged(mem, h + 1, EndOf(mem, h)),
         NEW top, top = IF FreeBelow(m0, h) THEN PrevHeader(m0, h) ELSE h,
         NEW m1, m1 = IF FreeBelow(m0, h) THEN MergePrev(m0, h) ELSE m0,
         NEW d1, d1 = IF FreeBelow(m0, h) THEN Lowest(dibbs, top) ELSE dibbs
  PROVE  /\ pc[t] = "merge" /\ owned' = owned
         /\ mem' = IF FreeAbove(m1, top) THEN MergeNext(m1, top, Lowest(d1, top)) ELSE m1
         /\ dibbs' = IF FreeAbove(m1, top) THEN Lowest(d1, top) ELSE d1
         /\ hdrs' = hdrs \ ((IF FreeBelow(m0, h) THEN {h} ELSE {}) \cup
                            (IF FreeAbove(m1, top) THEN {NextHeader(m1, top)} ELSE {}))
         /\ IF FreeBelow(m0, h) \/ FreeAbove(m1, top) THEN FreeReturns(t)
            ELSE /\ Goto(t, "assign_ptr")
                 /\ loc' = [loc EXCEPT ![t].f = Wrap(dibbs + 1), ![t].nxt = 0]
  BY DEF FreeMerge

(* The heap with the tags of the chunk at h flagged, and which of its      *)
(* neighbours are free.                                                    *)
Freeing(t, h, m0) ==
  /\ pc[t] = "merge" /\ owned' = owned
  /\ mem \in Memory /\ h \in hdrs \ Listed /\ h \in Int /\ h = loc[t].ptr - 1 /\ loc[t].ptr = h + 1
  /\ FlaggedAt(mem, m0, hdrs, Listed, dibbs, h)
  /\ ListApart(mem, Listed)
  /\ \A g \in Listed : g \in hdrs /\ g \in Int /\ mem[g].c.f
  /\ \A g \in hdrs : g # h /\ mem[g].c.f /\ (EndOf(mem, g) = h \/ EndOf(mem, h) = g)
       => g \in Listed

(* What the merge with the chunk above, at g, leaves. *)
MergedInto(h, g, m1) ==
  /\ g \in Listed /\ m1 \in Memory /\ HeapOK(m1, hdrs \ {h}, Listed, dibbs)
  /\ EndOf(m1, g) = EndOf(mem, h)
  /\ \A k \in hdrs \ {g, h} : EndOf(m1, k) = EndOf(mem, k)
  /\ m1[g].c.f /\ \A k \in (hdrs \cup {End}) \ {g, h} : m1[k].c = mem[k].c
  /\ Keeps(mem, m1, hdrs, {h})

(* Two changes of the heap, one after the other. *)
LEMMA KeepsBoth ==
  ASSUME NEW m, NEW x, NEW y, NEW H, NEW T, Keeps(m, x, H, T),
         NEW G, NEW U, Keeps(x, y, G, U), NEW V, H \ V \subseteq (H \ T) \cap (G \ U),
         \A g \in H \ V : EndOf(x, g) = EndOf(m, g)
  PROVE  Keeps(m, y, H, V)
<1> SUFFICES ASSUME NEW g \in H \ V, NEW a \in Inside(m, g) PROVE y[a] = m[a]
  BY DEF Keeps
<1>1. Inside(x, g) = Inside(m, g)
  BY DEF Inside
<1>2. x[a] = m[a] /\ y[a] = x[a]
  BY <1>1 DEF Keeps
<1> QED BY <1>2

LEMMA FreedInto ==
  ASSUME NEW t \in Threads, NEW h, NEW m0, Freeing(t, h, m0), NEW g \in hdrs,
         EndOf(mem, g) = h, g # h, mem[g].c.f, m0[h].p = m0[g].c, NEW m1, m1 = MergePrev(m0, h)
  PROVE  MergedInto(h, g, m1) /\ Lowest(dibbs, g) = dibbs
<1>1. g \in Listed
  BY DEF Freeing
<1>2. /\ m0 \in Memory /\ HeapOK(m0, hdrs, Listed, dibbs)
      /\ \A k \in hdrs \cup {End} : k # h => m0[k].c = mem[k].c
      /\ \A k \in hdrs : EndOf(m0, k) = EndOf(mem, k)
      /\ h \in hdrs \ Listed
  BY DEF Freeing, FlaggedAt
<1>3. h = EndOf(m0, g)
  BY <1>2
<1>4. MergedAbove(m0, m1, hdrs, Listed, dibbs, g, h)
  BY <1>2, <1>3, MergedPrev
<1>5. Lowest(dibbs, g) = dibbs
  <2>1. dibbs \in Listed /\ IsFirst(Listed, dibbs)
    BY <1>1, <1>2 DEF HeapOK, FreeList
  <2>2. dibbs <= g /\ dibbs \in Int /\ g \in Int
    BY <1>1, <2>1 DEF IsFirst, Freeing
  <2> QED BY <2>2 DEF Lowest
<1>6. Keeps(mem, m1, hdrs, {h})
  <2>1. Keeps(mem, m0, hdrs, {h}) /\ Keeps(m0, m1, hdrs, {})
    BY <1>4 DEF Freeing, FlaggedAt, MergedAbove
  <2> QED BY <1>2, <2>1, KeepsBoth
<1>7. MergedInto(h, g, m1)
  BY <1>1, <1>2, <1>4, <1>6 DEF MergedAbove, MergedInto
<1> QED BY <1>5, <1>7

LEMMA FreeMergeBothInv ==
  ASSUME TypeOK, HeapInv, Alone, TypeOK', NEW t \in Threads, NEW h, NEW m0, Freeing(t, h, m0),
         NEW g \in hdrs, EndOf(mem, g) = h, g # h, mem[g].c.f, m0[h].p = m0[g].c,
         NEW m1, m1 = MergePrev(m0, h), FreeAbove(m1, g),
         mem' = MergeNext(m1, g, dibbs), dibbs' = dibbs, hdrs' = hdrs \ {h, NextHeader(m1, g)},
         FreeReturns(t)
  PROVE  HeapInv' /\ BlocksKept(Listed \cup {h})
<1>1. /\ g \in Listed /\ m1 \in Memory /\ HeapOK(m1, hdrs \ {h}, Listed, dibbs)
      /\ EndOf(m1, g) = EndOf(mem, h)
      /\ \A k \in hdrs \ {g, h} : EndOf(m1, k) = EndOf(mem, k)
      /\ m1[g].c.f /\ \A k \in (hdrs \cup {End}) \ {g, h} : m1[k].c = mem[k].c
  <2>1. MergedInto(h, g, m1)
    BY FreedInto
  <2> QED BY <2>1 DEF MergedInto
<1>2. /\ h \in hdrs \ Listed /\ h = loc[t].ptr - 1 /\ owned' = owned
      /\ ListApart(mem, Listed) /\ \A k \in Listed : k \in hdrs /\ mem[k].c.f
      /\ \A k \in hdrs : k # h /\ mem[k].c.f /\ EndOf(mem, h) = k => k \in Listed
      /\ pc[t] = "merge"
  BY DEF Freeing
<1> DEFINE H == hdrs \ {h}
           b == EndOf(m1, g)
<1>3. g \in H /\ Tiles(m1, H) /\ Footers(m1, H)
  BY <1>1, <1>2 DEF HeapOK
<1>4. NextHeader(m1, g) = b /\ b \in H /\ m1[b].c.f /\ b # g
  <2>1. b \in H /\ m1[b].c.f /\ NextHeader(m1, g) = b
    BY <1>1, <1>3, MergeTests
  <2>2. b # g
    BY <1>1, <1>3, TilesFacts
  <2> QED BY <2>1, <2>2
<1>5. b \in Listed
  BY <1>1, <1>2, <1>4
<1> HIDE DEF b
<1>6. MergedBelow(m1, mem', H, Listed, Listed \ {b}, dibbs, g, b)
  <2>1. b = EndOf(m1, g)
    BY DEF b
  <2> HIDE DEF H
  <2> QED BY <1>1, <1>5, <2>1, MergedNextListed DEF H
<1>7. /\ HeapOK(mem', hdrs', Listed \ {b}, dibbs')
      /\ EndOf(mem', g) = EndOf(m1, b)
      /\ \A k \in H \ {g, b} : EndOf(mem', k) = EndOf(m1, k)
      /\ mem'[g].c.f /\ \A k \in (H \cup {End}) \ {g, b} : mem'[k].c = m1[k].c
      /\ hdrs' = H \ {b}
  <2>1. hdrs' = H \ {b}
    BY <1>4
  <2> QED BY <1>6, <2>1 DEF MergedBelow
<1>8. /\ EndOf(mem', g) = EndOf(mem, b)
      /\ \A k \in hdrs \ {g, h, b} : EndOf(mem', k) = EndOf(mem, k) /\ mem'[k].c = mem[k].c
  BY <1>1, <1>4, <1>7
<1>9. ListApart(mem', Listed \ {b})
  <2> SUFFICES ASSUME NEW k \in Listed \ {b} PROVE EndOf(mem', k) \notin Listed \ {b}
    BY DEF ListApart
  <2>1. EndOf(mem, k) \notin Listed /\ EndOf(mem, b) \notin Listed
    BY <1>2, <1>5 DEF ListApart
  <2> QED BY <1>2, <1>8, <2>1
<1>10. Frees(t, Listed \ {b})
  <2> DEFINE T == Listed \ {b}
  <2>1. hdrs' \subseteq hdrs /\ \A k \in hdrs : k \notin Listed /\ k # h => k \in hdrs' /\ mem'[k].c = mem[k].c
    BY <1>1, <1>5, <1>7, <1>8
  <2>2. \A k \in hdrs' : ~mem'[k].c.f => ~mem[k].c.f /\ k # h
    BY <1>7, <1>8
  <2>3. \A k \in T : mem'[k].c.f /\ k \in Listed
    BY <1>2, <1>7, <1>8
  <2>4. \A k \in hdrs' \ T : k \notin Listed /\ k # h
    BY <1>7
  <2> HIDE DEF H
  <2> QED BY <1>2, <2>1, <2>2, <2>3, <2>4 DEF Frees
<1>11. Keeps(mem, mem', hdrs, Listed \cup {h})
  <2>1. Keeps(mem, m1, hdrs, {h})
    <3>1. MergedInto(h, g, m1)
      BY FreedInto
    <3> QED BY <3>1 DEF MergedInto
  <2>2. Keeps(m1, mem', H, Listed \cup {g})
    BY <1>6 DEF MergedBelow
  <2>3. \A k \in hdrs \ (Listed \cup {h}) : EndOf(m1, k) = EndOf(mem, k)
    BY <1>1
  <2>4. PICK x : x = mem'
    OBVIOUS
  <2>5. Keeps(m1, x, H, Listed \cup {g})
    BY <2>2, <2>4
  <2>6. hdrs \ (Listed \cup {h}) \subseteq (hdrs \ {h}) \cap (H \ (Listed \cup {g}))
    BY <1>1
  <2>7. Keeps(mem, x, hdrs, Listed \cup {h})
    BY <2>1, <2>3, <2>5, <2>6, KeepsBoth
  <2> QED BY <2>4, <2>7
<1>12. HeapInv'
  BY <1>2, <1>7, <1>9, <1>10, FreeDone
<1> QED BY <1>11, <1>12 DEF BlocksKept

LEMMA FreeMergeAboveInv ==
  ASSUME TypeOK, HeapInv, Alone, TypeOK', NEW t \in Threads, NEW h, NEW m0, Freeing(t, h, m0),
         NEW g \in hdrs, EndOf(mem, g) = h, g # h, mem[g].c.f, m0[h].p = m0[g].c,
         mem' = MergePrev(m0, h), ~FreeAbove(mem', g),
         dibbs' = dibbs, hdrs' = hdrs \ {h}, FreeReturns(t)
  PROVE  HeapInv' /\ BlocksKept(Listed \cup {h})
<1>1. /\ g \in Listed /\ mem' \in Memory /\ HeapOK(mem', hdrs', Listed, dibbs')
      /\ EndOf(mem', g) = EndOf(mem, h)
      /\ \A k \in hdrs \ {g, h} : EndOf(mem', k) = EndOf(mem, k)
      /\ mem'[g].c.f /\ \A k \in (hdrs \cup {End}) \ {g, h} : mem'[k].c = mem[k].c
  <2>1. PICK m1 : m1 = mem'
    OBVIOUS
  <2>2. m1 = MergePrev(m0, h)
    BY <2>1
  <2>3. MergedInto(h, g, m1)
    BY <2>2, FreedInto
  <2> QED BY <2>1, <2>3 DEF MergedInto
<1>2. /\ h \in hdrs \ Listed /\ h = loc[t].ptr - 1 /\ owned' = owned
      /\ ListApart(mem, Listed) /\ \A k \in Listed : k \in hdrs /\ mem[k].c.f
      /\ pc[t] = "merge"
  BY DEF Freeing
<1>3. EndOf(mem, h) \notin Listed
  <2>1. g \in hdrs' /\ Tiles(mem', hdrs') /\ Footers(mem', hdrs')
    BY <1>1, <1>2 DEF HeapOK
  <2>2. ~(EndOf(mem', g) \in hdrs' /\ mem'[EndOf(mem', g)].c.f)
    BY <1>1, <2>1, MergeTests
  <2>3. ASSUME EndOf(mem, h) \in Listed PROVE FALSE
    <3>1. PICK b : b = EndOf(mem, h)
      OBVIOUS
    <3>2. b \in hdrs \ {h} /\ mem[b].c.f
      BY <1>2, <2>3, <3>1
    <3>3. b # g
      BY <1>1, <2>1, <3>1, TilesFacts
    <3>4. mem'[b].c.f
      BY <1>1, <3>2, <3>3
    <3> QED BY <1>1, <2>2, <3>1, <3>2, <3>4
  <2> QED BY <2>3
<1>4. ListApart(mem', Listed)
  <2> SUFFICES ASSUME NEW k \in Listed PROVE EndOf(mem', k) \notin Listed
    BY DEF ListApart
  <2>1. EndOf(mem, k) \notin Listed
    BY <1>2 DEF ListApart
  <2> QED BY <1>1, <1>2, <1>3, <2>1
<1>5. Frees(t, Listed)
  <2>1. \A k \in hdrs : k \notin Listed /\ k # h => k \in hdrs' /\ mem'[k].c = mem[k].c
    BY <1>1
  <2>2. \A k \in hdrs' : ~mem'[k].c.f => ~mem[k].c.f /\ k # h
    BY <1>1
  <2>3. \A k \in Listed : mem'[k].c.f
    BY <1>1, <1>2
  <2>4. \A k \in hdrs' \ Listed : k \notin Listed /\ k # h
    OBVIOUS
  <2> QED BY <1>2, <2>1, <2>2, <2>3, <2>4 DEF Frees
<1>6. Keeps(mem, mem', hdrs, {h})
  <2>1. PICK m1 : m1 = mem'
    OBVIOUS
  <2>2. m1 = MergePrev(m0, h)
    BY <2>1
  <2>3. MergedInto(h, g, m1)
    BY <2>2, FreedInto
  <2> QED BY <2>1, <2>3 DEF MergedInto
<1>7. HeapInv'
  BY <1>1, <1>2, <1>4, <1>5, FreeDone
<1> QED BY <1>6, <1>7 DEF Keeps, BlocksKept

LEMMA FreeMergeBelowInv ==
  ASSUME TypeOK, HeapInv, Alone, TypeOK', NEW t \in Threads, NEW h, NEW m0, Freeing(t, h, m0),
         ~FreeBelow(m0, h), FreeAbove(m0, h),
         mem' = MergeNext(m0, h, Lowest(dibbs, h)), dibbs' = Lowest(dibbs, h),
         hdrs' = hdrs \ {NextHeader(m0, h)}, FreeReturns(t)
  PROVE  HeapInv' /\ BlocksKept(Listed \cup {h})
<1>1. /\ h \in hdrs \ Listed /\ h = loc[t].ptr - 1 /\ owned' = owned /\ h \in Int
      /\ ListApart(mem, Listed) /\ \A k \in Listed : k \in hdrs /\ mem[k].c.f
      /\ \A k \in hdrs : k # h /\ mem[k].c.f /\ (EndOf(mem, k) = h \/ EndOf(mem, h) = k) => k \in Listed
      /\ pc[t] = "merge" /\ FlaggedAt(mem, m0, hdrs, Listed, dibbs, h) /\ mem \in Memory
  BY DEF Freeing
<1>2. /\ m0 \in Memory /\ HeapOK(m0, hdrs, Listed, dibbs) /\ Tiles(m0, hdrs) /\ Footers(m0, hdrs)
      /\ \A g \in hdrs \cup {End} : g # h => m0[g].c = mem[g].c
      /\ \A g \in hdrs : EndOf(m0, g) = EndOf(mem, g)
      /\ m0[h].c.f /\ m0[h + 1].p = Link(0)
  BY <1>1 DEF FlaggedAt, HeapOK, Freed
<1> DEFINE b == EndOf(m0, h)
<1>3. NextHeader(m0, h) = b /\ b \in hdrs /\ m0[b].c.f /\ b # h /\ EndOf(m0, b) # h /\ h < EndOf(m0, b)
  <2>1. b \in hdrs /\ m0[b].c.f /\ NextHeader(m0, h) = b
    BY <1>1, <1>2, MergeTests
  <2>2. h + 2 <= b /\ b \in Int
    BY <1>1, <1>2, TilesFacts
  <2>3. b + 2 <= EndOf(m0, b) /\ EndOf(m0, b) \in Int
    BY <1>2, <2>1, TilesFacts
  <2> HIDE DEF b
  <2>4. b # h /\ EndOf(m0, b) # h /\ h < EndOf(m0, b)
    BY <1>1, <2>2, <2>3
  <2> QED BY <2>1, <2>4
<1>4. b \in Listed
  BY <1>1, <1>2, <1>3
<1> DEFINE T == (Listed \ {b}) \cup {h}
<1>5. b = EndOf(m0, h) /\ Null(m0[h + 1].p)
  BY <1>2 DEF Null
<1> HIDE DEF b
<1>6. MergedBelow(m0, mem', hdrs, Listed, T, Lowest(dibbs, h), h, b)
  BY <1>1, <1>2, <1>4, <1>5, MergedNextUnlisted
<1>7. /\ HeapOK(mem', hdrs', T, dibbs')
      /\ EndOf(mem', h) = EndOf(mem, b)
      /\ \A k \in hdrs \ {h, b} : EndOf(mem', k) = EndOf(mem, k) /\ mem'[k].c = mem[k].c
      /\ mem'[h].c.f /\ hdrs' = hdrs \ {b}
  <2>1. hdrs' = hdrs \ {b}
    BY <1>3
  <2>2. /\ HeapOK(mem', hdrs', T, dibbs')
        /\ EndOf(mem', h) = EndOf(m0, b)
        /\ \A k \in hdrs \ {h, b} : EndOf(mem', k) = EndOf(m0, k)
        /\ mem'[h].c.f /\ \A k \in (hdrs \cup {End}) \ {h, b} : mem'[k].c = m0[k].c
    BY <1>6, <2>1 DEF MergedBelow
  <2> QED BY <1>2, <1>3, <2>1, <2>2
<1>8. ListApart(mem', T)
  <2> SUFFICES ASSUME NEW k \in T PROVE EndOf(mem', k) \notin T
    BY DEF ListApart
  <2>1. CASE k = h
    <3>1. EndOf(mem, b) \notin Listed
      BY <1>1, <1>4 DEF ListApart
    <3>2. EndOf(mem, b) # h
      BY <1>2, <1>3
    <3> QED BY <1>7, <2>1, <3>1, <3>2
  <2>2. CASE k \in Listed \ {b}
    <3>1. EndOf(mem', k) = EndOf(mem, k) /\ EndOf(mem, k) \notin Listed /\ k \in hdrs /\ k # h
      BY <1>1, <1>7, <2>2 DEF ListApart
    <3>2. EndOf(mem, k) # h
      <4>1. m0[k].c.f /\ EndOf(m0, k) = EndOf(mem, k)
        BY <1>1, <1>2, <2>2, <3>1
      <4> QED BY <1>1, <1>2, <3>1, <4>1, MergeTests
    <3> QED BY <3>1, <3>2
  <2> QED BY <2>1, <2>2
<1>9. Frees(t, T)
  <2>1. hdrs' \subseteq hdrs /\ \A k \in hdrs : k \notin Listed /\ k # h => k \in hdrs' /\ mem'[k].c = mem[k].c
    BY <1>4, <1>7
  <2>2. \A k \in hdrs' : ~mem'[k].c.f => ~mem[k].c.f /\ k # h
    BY <1>7
  <2>3. \A k \in T : mem'[k].c.f /\ (k \in Listed \/ k = h)
    BY <1>1, <1>7
  <2>4. \A k \in hdrs' \ T : k \notin Listed /\ k # h
    BY <1>7
  <2> HIDE DEF T
  <2> QED BY <1>1, <2>1, <2>2, <2>3, <2>4 DEF Frees
<1>10. Keeps(mem, mem', hdrs, Listed \cup {h})
  <2>1. Keeps(mem, m0, hdrs, {h})
    BY <1>1 DEF FlaggedAt
  <2>2. PICK x : x = mem'
    OBVIOUS
  <2>3. Keeps(m0, x, hdrs, Listed \cup {h})
    BY <1>6, <2>2 DEF MergedBelow
  <2>4. hdrs \ (Listed \cup {h}) \subseteq (hdrs \ {h}) \cap (hdrs \ (Listed \cup {h}))
    OBVIOUS
  <2>5. Keeps(mem, x, hdrs, Listed \cup {h})
    BY <1>2, <2>1, <2>3, <2>4, KeepsBoth
  <2> QED BY <2>2, <2>5
<1>11. HeapInv'
  BY <1>1, <1>7, <1>8, <1>9, FreeDone
<1> QED BY <1>10, <1>11 DEF BlocksKept

LEMMA FreeMergeNoneInv ==
  ASSUME TypeOK, HeapInv, Alone, TypeOK', NEW t \in Threads, NEW h, NEW m0, Freeing(t, h, m0),
         ~FreeBelow(m0, h), ~FreeAbove(m0, h), mem' = m0, dibbs' = dibbs, hdrs' = hdrs,
         Goto(t, "assign_ptr"), loc' = [loc EXCEPT ![t].f = Wrap(dibbs + 1), ![t].nxt = 0]
  PROVE  HeapInv' /\ BlocksKept(Listed \cup {h})
<1>1. /\ h \in hdrs \ Listed /\ h = loc[t].ptr - 1 /\ owned' = owned /\ h \in Int
      /\ loc[t].ptr = h + 1
      /\ ListApart(mem, Listed) /\ \A k \in Listed : k \in hdrs /\ mem[k].c.f
      /\ pc[t] = "merge" /\ FlaggedAt(mem, m0, hdrs, Listed, dibbs, h) /\ mem \in Memory
  BY DEF Freeing
<1>2. /\ m0 \in Memory /\ HeapOK(m0, hdrs, Listed, dibbs) /\ Tiles(m0, hdrs) /\ Footers(m0, hdrs)
      /\ \A g \in hdrs \cup {End} : g # h => m0[g].c = mem[g].c
      /\ \A g \in hdrs : EndOf(m0, g) = EndOf(mem, g)
      /\ m0[h].c.f /\ m0[h + 1].p = Link(0) /\ m0[h + 1].c = Link(0)
  BY <1>1 DEF FlaggedAt, HeapOK, Freed
<1>3. loc' = [loc EXCEPT ![t] = [loc[t] EXCEPT !.f = Wrap(dibbs + 1), !.nxt = 0]]
  BY TypeOKMemory DEF Locals
<1>4. /\ loc'[t].f = Wrap(dibbs + 1) /\ loc'[t].op = loc[t].op /\ loc'[t].asked = loc[t].asked
      /\ loc'[t].ptr = loc[t].ptr /\ loc'[t].res = loc[t].res
      /\ \A u \in Threads \ {t} : loc'[u] = loc[u]
  BY <1>3, TypeOKMemory DEF Locals
<1>5. pc'[t] = "assign_ptr" /\ Others(t) /\ Held(t)' = Held(t)
  BY <1>4, GotoFacts DEF Others, Held
<1>6. FreeOK(t) /\ h + 1 \in Held(t) /\ \A g \in Listed : g + 1 \notin Held(t)
  <2>1. FreeOK(t) /\ loc[t].ptr # 0
    BY <1>1, FreeCall DEF InFree
  <2>2. \A g \in Listed : g + 1 \notin Held(t)
    BY InvSane, ListedHeld DEF Unheld
  <2> QED BY <1>1, <2>1, <2>2 DEF Held
<1>7. CallOK(t)'
  <2>1. ASSUME loc[t].op = "realloc" PROVE Got(t)'
    <3>1. Got(t) /\ loc[t].res - 1 # h
      <4>1. Got(t) /\ loc[t].res # loc[t].ptr /\ loc[t].res \in Int
        BY <1>6, <2>1, LocalsType DEF FreeOK
      <4> QED BY <1>1, <4>1
    <3>2. mem'[loc[t].res - 1].c = mem[loc[t].res - 1].c
      BY <1>2, <3>1 DEF Got, UsedAt
    <3> QED BY <1>4, <3>1, <3>2 DEF Got, UsedAt, Size
  <2>2. FreeOK(t)'
    BY <1>1, <1>2, <1>4, <1>5, <1>6, <2>1 DEF FreeOK
  <2> QED BY <1>5, <2>2 DEF CallOK, InMalloc, InRealloc, InCopy, InRelock
<1>8. /\ \A k \in hdrs : EndOf(m0, k) = h => ~m0[k].c.f
      /\ EndOf(m0, h) \in hdrs => ~m0[EndOf(m0, h)].c.f
      /\ EndOf(m0, h) # h
  <2>1. EndOf(m0, h) # h
    BY <1>1, <1>2, TilesFacts
  <2>2. h \in hdrs
    BY <1>1
  <2> QED BY <1>2, <2>1, <2>2, MergeTests
<1>9. (AssignOK(t) /\ SearchOK(t))'
  <2>1. FreeChunks' = {g \in hdrs : m0[g].c.f}
    BY DEF FreeChunks
  <2>2. \A k : After(k)' = EndOf(m0, k)
    BY DEF After, EndOf, Size
  <2>3. Wrap(dibbs + 1) = dibbs + 1
    <3>1. CASE dibbs = End
      BY <3>1, Geometry DEF Wrap, End
    <3>2. CASE dibbs # End
      <4>1. dibbs \in hdrs
        BY <1>1, <1>2, <3>2 DEF HeapOK, FreeList
      <4> QED BY <1>2, <4>1, LinkPlaces
    <3> QED BY <3>1, <3>2
  <2>4. After(h)' \notin FreeChunks' /\ \A g \in FreeChunks' : After(g)' # h
    BY <1>8, <2>1, <2>2
  <2>5. /\ loc'[t].f = dibbs' + 1 /\ mem'[loc'[t].ptr].p = Link(0) /\ mem'[loc'[t].ptr].c = Link(0)
        /\ loc'[t].ptr - 1 = h
    BY <1>1, <1>2, <1>4, <2>3
  <2>6. AssignOK(t)'
    BY <2>4, <2>5 DEF AssignOK
  <2> QED BY <1>5, <2>6 DEF SearchOK
<1>10. ListApart(mem', Listed)
  BY <1>1, <1>2 DEF ListApart
<1>11. Frame(t)
  <2>1. \A g \in hdrs : g \notin Listed /\ g + 1 \notin Held(t) => g \in hdrs' /\ mem'[g].c = mem[g].c
    BY <1>2, <1>6
  <2>2. \A g \in hdrs' : ~mem'[g].c.f => g \in hdrs /\ ~mem[g].c.f
    BY <1>2
  <2>3. \A p \in Held(t)' : p - 1 \in hdrs' /\ p \in Held(t)
    BY <1>5, InvSane, HeldCases
  <2> QED BY <1>1, <1>5, <2>1, <2>2, <2>3 DEF Frame
<1>12. NewList(t, Listed)
  <2>1. Listed \subseteq hdrs' /\ \A g \in Listed : mem'[g].c.f /\ g + 1 \notin Held(t)'
    BY <1>1, <1>2, <1>5, <1>6
  <2>2. \A g \in hdrs' \ Listed : g + 1 \in Held(t)' \/ (g \in hdrs /\ g \notin Listed /\ g + 1 \notin Held(t))
    BY <1>5
  <2> QED BY <2>1, <2>2 DEF NewList
<1>13. pc[t] \in In
  BY <1>1 DEF In
<1>14. Keeps(mem, mem', hdrs, {h})
  BY <1>1 DEF FlaggedAt
<1>15. HeapInv'
  BY <1>2, <1>7, <1>9, <1>10, <1>11, <1>12, <1>13, Changed
<1> QED BY <1>14, <1>15 DEF Keeps, BlocksKept

LEMMA FreeMergeInv ==
  ASSUME TypeOK, HeapInv, Alone, TypeOK', NEW t \in Threads, FreeMerge(t), ~MergesLoose(t)
  PROVE  HeapInv' /\ BlocksKept(Listed \cup {loc[t].ptr - 1})
<1>1. pc[t] = "merge" /\ pc'[t] # "merge"
  <2>1. pc[t] = "merge" /\ (FreeReturns(t) \/ Goto(t, "assign_ptr"))
    BY DEF FreeMerge
  <2> QED BY <2>1, GotoFacts, FreeReturned
<1>2. PICK h : h = loc[t].ptr - 1
  OBVIOUS
<1>3. /\ h \in hdrs /\ h \in Int /\ loc[t].ptr = h + 1 /\ Wrap(loc[t].ptr - 1) = h
      /\ h \notin Listed /\ loc[t].nxt = EndOf(mem, h)
      /\ \A g \in hdrs : g # h /\ mem[g].c.f /\ (EndOf(mem, g) = h \/ EndOf(mem, h) = g)
           => g \in Listed
  BY <1>1, <1>2, MergePlaces
<1>4. PICK m0 : m0 = Flagged(mem, h + 1, EndOf(mem, h))
  OBVIOUS
<1>5. /\ mem \in Memory /\ HeapOK(mem, hdrs, Listed, dibbs) /\ Tiles(mem, hdrs)
      /\ ListApart(mem, Listed)
  BY InvSane, HeaderTypes, HeapInvIs DEF Sane
<1>6. FlaggedAt(mem, m0, hdrs, Listed, dibbs, h)
  BY <1>3, <1>4, <1>5, Flag
<1> DEFINE below == FreeBelow(m0, h)
<1>7. PICK top : top = IF below THEN PrevHeader(m0, h) ELSE h
  OBVIOUS
<1>8. PICK m1 : m1 = IF below THEN MergePrev(m0, h) ELSE m0
  OBVIOUS
<1>9. PICK d1 : d1 = IF below THEN Lowest(dibbs, top) ELSE dibbs
  OBVIOUS
<1> DEFINE above == FreeAbove(m1, top)
<1>10. /\ owned' = owned
       /\ mem' = IF above THEN MergeNext(m1, top, Lowest(d1, top)) ELSE m1
       /\ dibbs' = IF above THEN Lowest(d1, top) ELSE d1
       /\ hdrs' = hdrs \ ((IF below THEN {h} ELSE {}) \cup
                          (IF above THEN {NextHeader(m1, top)} ELSE {}))
       /\ IF below \/ above THEN FreeReturns(t)
          ELSE /\ Goto(t, "assign_ptr")
               /\ loc' = [loc EXCEPT ![t].f = Wrap(dibbs + 1), ![t].nxt = 0]
  BY <1>3, <1>4, <1>7, <1>8, <1>9, MergeUnfold
<1>11. Freeing(t, h, m0)
  BY <1>1, <1>2, <1>3, <1>5, <1>6, <1>10, HeadOfList DEF Freeing
<1>12. /\ m0 \in Memory /\ Tiles(m0, hdrs) /\ Footers(m0, hdrs)
       /\ \A g \in hdrs \cup {End} : g # h => m0[g].c = mem[g].c
       /\ \A g \in hdrs : EndOf(m0, g) = EndOf(mem, g)
  BY <1>6 DEF FlaggedAt, HeapOK
<1>13. /\ below <=> \E g \in hdrs : EndOf(m0, g) = h /\ m0[g].c.f
       /\ \A g \in hdrs : EndOf(m0, g) = h => PrevHeader(m0, h) = g /\ m0[h].p = m0[g].c /\ g # h
  <2>1. FreeBelow(m0, h) <=> FreeBefore(m0, hdrs, h)
    BY <1>3, <1>12, BelowTest
  <2>2. \A g \in hdrs : EndOf(m0, g) = h => PrevHeader(m0, h) = g /\ m0[h].p = m0[g].c /\ g # h
    BY <1>3, <1>12, MergeTests
  <2> QED BY <2>1, <2>2 DEF FreeBefore
<1> HIDE DEF below, above
<1>14. CASE below
  <2>1. PICK g \in hdrs : EndOf(m0, g) = h /\ m0[g].c.f
    BY <1>13, <1>14
  <2>2. /\ PrevHeader(m0, h) = g /\ m0[h].p = m0[g].c /\ g # h
        /\ EndOf(mem, g) = h /\ mem[g].c.f
    BY <1>12, <1>13, <2>1
  <2>3. top = g /\ m1 = MergePrev(m0, h) /\ d1 = Lowest(dibbs, g)
    BY <1>7, <1>8, <1>9, <1>14, <2>2
  <2>4. MergedInto(h, g, m1) /\ Lowest(dibbs, g) = dibbs
    BY <1>11, <2>2, <2>3, FreedInto
  <2>5. CASE above
    <3>1. /\ mem' = MergeNext(m1, g, dibbs) /\ dibbs' = dibbs
          /\ hdrs' = hdrs \ {h, NextHeader(m1, g)} /\ FreeReturns(t) /\ FreeAbove(m1, g)
      BY <1>10, <1>14, <2>3, <2>4, <2>5 DEF above
    <3> QED BY <1>2, <1>11, <2>2, <2>3, <3>1, FreeMergeBothInv
  <2>6. CASE ~above
    <3>1. /\ mem' = MergePrev(m0, h) /\ dibbs' = dibbs
          /\ hdrs' = hdrs \ {h} /\ FreeReturns(t) /\ ~FreeAbove(mem', g)
      BY <1>10, <1>14, <2>3, <2>4, <2>6 DEF above
    <3> QED BY <1>2, <1>11, <2>2, <3>1, FreeMergeAboveInv
  <2> QED BY <2>5, <2>6
<1>15. CASE ~below
  <2>1. top = h /\ m1 = m0 /\ d1 = dibbs
    BY <1>7, <1>8, <1>9, <1>15
  <2>2. CASE above
    <3>1. /\ mem' = MergeNext(m0, h, Lowest(dibbs, h)) /\ dibbs' = Lowest(dibbs, h)
          /\ hdrs' = hdrs \ {NextHeader(m0, h)} /\ FreeReturns(t) /\ FreeAbove(m0, h)
      BY <1>10, <1>15, <2>1, <2>2 DEF above
    <3> QED BY <1>2, <1>11, <1>15, <3>1, FreeMergeBelowInv DEF below
  <2>3. CASE ~above
    <3>1. /\ mem' = m0 /\ dibbs' = dibbs /\ hdrs' = hdrs /\ ~FreeAbove(m0, h)
          /\ Goto(t, "assign_ptr")
          /\ loc' = [loc EXCEPT ![t].f = Wrap(dibbs + 1), ![t].nxt = 0]
      BY <1>10, <1>15, <2>1, <2>3 DEF above
    <3> QED BY <1>2, <1>11, <1>15, <3>1, FreeMergeNoneInv DEF below
  <2> QED BY <2>2, <2>3
<1> QED BY <1>14, <1>15

-----------------------------------------------------------------------------
(* realloc in place.                                                       *)

(* The block at h grows over the chunk after it; T is the list then. *)
Extends(t, h, T) ==
  /\ owned' = owned
  /\ h \in hdrs' /\ ~mem'[h].c.f /\ loc[t].asked <= mem'[h].c.v
  /\ \A g \in hdrs : g \notin Listed /\ g # h => g \in hdrs' /\ mem'[g].c = mem[g].c
  /\ \A g \in hdrs' : ~mem'[g].c.f => g = h \/ (g \in hdrs /\ ~mem[g].c.f)
  /\ \A g \in T : mem'[g].c.f /\ (g \in Listed \/ g \notin hdrs)
  /\ \A g \in hdrs' \ T : g = h \/ (g \in hdrs /\ g \notin Listed)

LEMMA ReallocGrew ==
  ASSUME TypeOK, HeapInv, Alone, TypeOK', NEW t \in Threads, pc[t] = "resize",
         ReallocReturns(t, loc[t].ptr), NEW h, h = loc[t].ptr - 1, NEW T, Extends(t, h, T),
         HeapOK(mem', hdrs', T, dibbs'), ListApart(mem', T)
  PROVE  HeapInv'
<1>1. /\ loc[t].res = 0 /\ loc[t].ptr # 0 /\ h \in hdrs /\ h \in Int /\ h + 1 = loc[t].ptr
      /\ h \notin Listed
  <2>1. loc[t].res = 0 /\ loc[t].ptr # 0 /\ UsedAt(loc[t].ptr) /\ loc[t].ptr \in Int
    BY ResizeCall, LocalsType
  <2> QED BY <2>1, HeadOfList DEF UsedAt
<1>2. /\ Others(t) /\ pc'[t] = "return"
      /\ loc'[t].res = h + 1 /\ loc'[t].ptr = 0 /\ loc'[t].asked = loc[t].asked
  BY <1>1, ReallocReturned
<1>3. Held(t) = {h + 1} /\ Held(t)' = {h + 1}
  BY <1>1, <1>2 DEF Held
<1>4. CallOK(t)'
  <2>1. loc'[t].res - 1 = h
    BY <1>1, <1>2
  <2>2. Got(t)'
    BY <1>2, <2>1 DEF Got, UsedAt, Size, Extends
  <2>3. loc'[t].res # 0
    BY <1>1, <1>2
  <2> QED BY <1>2, <2>2, <2>3 DEF CallOK, InMalloc, InFree, InRealloc, InCopy, InRelock
<1>5. /\ \A g \in hdrs' : g \in Int /\ (g + 1 = h + 1 <=> g = h)
      /\ \A g \in hdrs : g \in Int /\ (g + 1 = h + 1 <=> g = h)
  <2>1. /\ hdrs' \subseteq Bottom .. End - 1 /\ hdrs \subseteq Bottom .. End - 1
        /\ Bottom \in Int /\ End \in Int
    BY Geometry DEF HeapOK, HeapInv, Tiles, End
  <2> QED BY <1>1, <2>1
<1>6. T \subseteq hdrs'
  BY DEF HeapOK
<1>7. Frame(t)
  <2>1. \A g \in hdrs : g \notin Listed /\ g + 1 \notin Held(t) => g \in hdrs' /\ mem'[g].c = mem[g].c
    BY <1>3, <1>5 DEF Extends
  <2>2. \A g \in hdrs' : ~mem'[g].c.f
          => (g \in hdrs /\ ~mem[g].c.f /\ g + 1 \notin Held(t)) \/ g + 1 \in Held(t)'
    BY <1>3, <1>5 DEF Extends
  <2>3. \A p \in Held(t)' : p - 1 \in hdrs' /\ p \in Held(t)
    <3>1. h + 1 - 1 = h
      BY <1>1
    <3> QED BY <1>3, <3>1 DEF Extends
  <2> QED BY <1>2, <2>1, <2>2, <2>3 DEF Frame, Extends
<1>8. NewList(t, T)
  <2>1. \A g \in T : mem'[g].c.f /\ g + 1 \notin Held(t)' /\ (g \in Listed \/ g \notin hdrs)
    <3> SUFFICES ASSUME NEW g \in T
                 PROVE  mem'[g].c.f /\ g + 1 \notin Held(t)' /\ (g \in Listed \/ g \notin hdrs)
      OBVIOUS
    <3>1. mem'[g].c.f /\ (g \in Listed \/ g \notin hdrs) /\ g # h
      BY DEF Extends
    <3> QED BY <1>3, <1>5, <1>6, <3>1
  <2>2. \A g \in hdrs' \ T : g + 1 \in Held(t)' \/ (g \in hdrs /\ g \notin Listed /\ g + 1 \notin Held(t))
    BY <1>3, <1>5 DEF Extends
  <2> QED BY <1>6, <2>1, <2>2 DEF NewList
<1>9. pc[t] \in In
  BY DEF In
<1> QED BY <1>2, <1>4, <1>7, <1>8, <1>9, Changed

(* The block of a realloc, at h, and the chunk at b after it, when it is   *)
(* free: the sizes that realloc adds up do not leave the address space.    *)
GrowsOver(t, h, b) ==
  /\ h = loc[t].ptr - 1 /\ loc[t].ptr = h + 1 /\ h \in Int /\ h \in hdrs \ Listed
  /\ ~mem[h].c.f /\ Header(t) = h /\ Current(t) = mem[h].c.v
  /\ b = EndOf(mem, h) /\ NextHdr(t) = b /\ b \in Listed /\ b \in hdrs /\ b # dibbs /\ b \in Int
  /\ NextHeader(mem, b) = EndOf(mem, b) /\ Wrap(b + 1) = b + 1
  /\ mem[h].c.v \in Int /\ mem[b].c.v \in Int /\ mem[h].c.v >= 1 /\ mem[b].c.v >= 1
  /\ EndOf(mem, b) = h + 2 + mem[h].c.v + mem[b].c.v /\ EndOf(mem, b) <= End
  /\ Both(t) = mem[h].c.v + mem[b].c.v
  /\ Wrap(Both(t) + 1) = mem[h].c.v + mem[b].c.v + 1
  /\ Wrap(Both(t) - 1) = mem[h].c.v + mem[b].c.v - 1
  /\ mem[b].p = mem[h].c

LEMMA GrowPlace ==
  ASSUME TypeOK, HeapInv, NEW t \in Threads, pc[t] = "resize", pc'[t] = "return",
         hdrs' # hdrs, ~GrowsIntoFirst(t), NextIsFree(t)
  PROVE  GrowsOver(t, Header(t), NextHdr(t))
<1> DEFINE h == Header(t)
           b == NextHdr(t)
<1>1. UsedAt(loc[t].ptr) /\ loc[t].ptr \in Int
  BY ResizeCall, LocalsType
<1>2. /\ h = loc[t].ptr - 1 /\ h \in hdrs \ FreeChunks /\ h \in Int /\ loc[t].ptr = h + 1
      /\ Current(t) = mem[h].c.v /\ Current(t) \in Int /\ Current(t) >= 1
      /\ b = EndOf(mem, h) /\ b \in hdrs \cup {End}
  BY <1>1, ReallocCall
<1>3. /\ mem \in Memory /\ Tiles(mem, hdrs) /\ Footers(mem, hdrs) /\ mem[End].c = Used(0)
  BY InvSane, HeaderTypes, HeapInvIs DEF Sane, HeapOK, Footers
<1>4. mem[b].c.f
  BY DEF NextIsFree
<1>5. b \in hdrs /\ b \in FreeChunks
  BY <1>2, <1>3, <1>4 DEF Used, FreeChunks
<1>6. b \notin Loose \cup {dibbs}
  BY DEF GrowsIntoFirst
<1>7. b \in Listed /\ b # dibbs /\ h \notin Listed /\ ~mem[h].c.f
  BY <1>2, <1>5, <1>6 DEF Listed, Loose, FreeChunks
<1>8. /\ EndOf(mem, b) - h - 1 = mem[h].c.v + mem[b].c.v + 1
      /\ EndOf(mem, b) - h - 1 \in Addr
  BY ZenonT(40), <1>2, <1>3, <1>5, JoinedSize
<1>9. /\ mem[b].c.v \in Int /\ b \in Int /\ EndOf(mem, b) \in Int /\ EndOf(mem, b) <= End
      /\ mem[b].c.v >= 1
  <2>1. b + 2 <= EndOf(mem, b) /\ mem[b].c.v \in Int /\ b \in Int
    BY <1>3, <1>5, TilesFacts
  <2>2. mem[b].c.v >= 1
    BY <1>3, <1>5 DEF Tiles
  <2> QED BY <1>3, <1>5, <2>1, <2>2, TilesFacts
<1>10. NextHeader(mem, b) = EndOf(mem, b) /\ Wrap(b + 1) = b + 1
  BY <1>3, <1>5, Neighbours, LinkPlaces
<1>11. mem[b].p = mem[h].c
  <2>1. b # h
    BY <1>5, <1>7
  <2>2. hdrs # {Bottom}
    BY <1>2, <1>5, <2>1
  <2> QED BY <1>2, <1>3, <2>2 DEF Footers
<1>12. Both(t) = Wrap(mem[h].c.v + mem[b].c.v)
  BY <1>2 DEF Both
<1> HIDE DEF h, b
<1>13. PICK x, y : x = mem[h].c.v /\ y = mem[b].c.v
  OBVIOUS
<1>14. PICK e : e = EndOf(mem, b)
  OBVIOUS
<1>15. /\ x \in Int /\ y \in Int /\ x >= 1 /\ y >= 1 /\ h \in Int /\ e \in Int
       /\ e - h - 1 = x + y + 1 /\ e - h - 1 \in Addr /\ Both(t) = Wrap(x + y)
  BY <1>2, <1>8, <1>9, <1>12, <1>13, <1>14
<1>16. e = h + 2 + x + y /\ x + y + 1 \in Addr /\ x + y \in Addr /\ x + y - 1 \in Addr
  BY <1>15, Geometry DEF Addr
<1>17. Both(t) = x + y /\ Wrap(Both(t) + 1) = x + y + 1 /\ Wrap(Both(t) - 1) = x + y - 1
  BY <1>15, <1>16, WrapIn
<1> QED BY <1>2, <1>5, <1>7, <1>9, <1>10, <1>11, <1>13, <1>14, <1>15, <1>16, <1>17
        DEF GrowsOver, h, b

LEMMA ReallocAbsorbInv ==
  ASSUME TypeOK, HeapInv, Alone, TypeOK', NEW t \in Threads, ReallocAbsorb(t), ~GrowsIntoFirst(t)
  PROVE  HeapInv' /\ BlocksKept(Listed)
<1>1. /\ pc[t] = "resize" /\ NextIsFree(t) /\ loc[t].size <= Wrap(Both(t) + 1)
      /\ ReallocReturns(t, loc[t].ptr) /\ owned' = owned /\ dibbs' = dibbs
      /\ hdrs' = hdrs \ {NextHdr(t)}
  BY DEF ReallocAbsorb
<1>2. pc'[t] = "return" /\ hdrs' # hdrs
  <2>1. pc'[t] = "return"
    BY <1>1, ReallocReturned
  <2>2. NextHdr(t) \in hdrs
    <3>1. NextHdr(t) \in hdrs \cup {End}
      BY <1>1, ResizeCall, ReallocCall
    <3>2. mem[End].c = Used(0)
      BY DEF HeapInv, Footers
    <3> QED BY <1>1, <3>1, <3>2 DEF NextIsFree, Used
  <2> QED BY <1>1, <2>1, <2>2
<1>3. PICK h, b : h = Header(t) /\ b = NextHdr(t)
  OBVIOUS
<1>4. GrowsOver(t, h, b)
  BY <1>1, <1>2, <1>3, GrowPlace
<1>5. /\ mem \in Memory /\ Tiles(mem, hdrs) /\ HeapOK(mem, hdrs, Listed, dibbs)
      /\ ListApart(mem, Listed)
  BY InvSane, HeaderTypes, HeapInvIs DEF Sane
<1>6. PICK w : w = Used(Wrap(Both(t) + 1))
  OBVIOUS
<1>7. w \in Word /\ ~w.f /\ w.v = EndOf(mem, b) - h - 1 /\ w.v = Wrap(Both(t) + 1)
  <2>1. w.v = EndOf(mem, b) - h - 1 /\ w.v = Wrap(Both(t) + 1) /\ ~w.f
    <3>1. w.v = Wrap(Both(t) + 1) /\ ~w.f
      BY <1>6 DEF Used
    <3>2. PICK x, y : x = mem[h].c.v /\ y = mem[b].c.v
      OBVIOUS
    <3>3. /\ x \in Int /\ y \in Int /\ h \in Int
          /\ EndOf(mem, b) = h + 2 + x + y /\ Wrap(Both(t) + 1) = x + y + 1
      BY <1>4, <3>2 DEF GrowsOver
    <3> QED BY <3>1, <3>3
  <2>2. EndOf(mem, b) - h - 1 \in Addr
    BY <1>4, <1>5, JoinedSize DEF GrowsOver
  <2> QED BY <1>6, <2>1, <2>2 DEF Used, Word
<1>8. mem' = Relink(PutP(PutC(mem, h, w), EndOf(mem, b), w), b + 1)
  <2>1. mem' = Relink([mem EXCEPT ![h].c = w, ![NextHeader(mem, b)].p = w], Wrap(b + 1))
    BY <1>3, <1>6 DEF ReallocAbsorb
  <2>2. NextHeader(mem, b) = EndOf(mem, b) /\ Wrap(b + 1) = b + 1
    BY <1>4 DEF GrowsOver
  <2>3. mem' = Relink([mem EXCEPT ![h].c = w, ![EndOf(mem, b)].p = w], b + 1)
    BY <2>1, <2>2
  <2> QED BY <2>3, PairStores
<1>9. Absorbed(mem, mem', hdrs, Listed, dibbs, h, b, w)
  <2>1. Spans(mem, h, b, w) /\ h \in hdrs /\ b \in Listed /\ b # dibbs
    BY <1>4, <1>7 DEF Spans, GrowsOver
  <2> QED BY <1>5, <1>7, <1>8, <2>1, Absorb
<1> DEFINE T == Listed \ {b}
<1>10. /\ HeapOK(mem', hdrs', T, dibbs') /\ mem'[h].c = w
       /\ \A g \in hdrs \ {h, b} : mem'[g].c = mem[g].c /\ EndOf(mem', g) = EndOf(mem, g)
  BY <1>1, <1>3, <1>9 DEF Absorbed
<1>11. ListApart(mem', T)
  BY <1>4, <1>5, <1>10 DEF ListApart, HeapOK, GrowsOver
<1>12. Extends(t, h, T)
  <2>1. loc[t].asked <= mem'[h].c.v
    <3>1. loc[t].asked <= loc[t].size /\ loc[t].asked \in Int /\ loc[t].size \in Int
      BY <1>1, ResizeCall
    <3>2. mem'[h].c.v = Wrap(Both(t) + 1)
      BY <1>7, <1>10
    <3>3. mem'[h].c.v \in Int
      <4>1. /\ Wrap(Both(t) + 1) = mem[h].c.v + mem[b].c.v + 1
            /\ mem[h].c.v \in Int /\ mem[b].c.v \in Int
        BY <1>4 DEF GrowsOver
      <4> QED BY <3>2, <4>1
    <3>4. loc[t].size <= mem'[h].c.v
      BY <1>1, <3>2
    <3> QED BY <3>1, <3>3, <3>4
  <2>2. /\ h \in hdrs /\ h # b /\ b \in Listed /\ b \in hdrs /\ hdrs' = hdrs \ {b}
        /\ ~mem'[h].c.f /\ h \notin Listed
    BY <1>1, <1>3, <1>4, <1>7, <1>10 DEF GrowsOver
  <2>3. \A g \in Listed : g \in hdrs /\ mem[g].c.f
    BY HeadOfList
  <2> QED BY <1>1, <1>10, <2>1, <2>2, <2>3 DEF Extends
<1>13. h = loc[t].ptr - 1
  BY <1>4 DEF GrowsOver
<1> HIDE DEF T
<1>14. HeapInv'
  BY <1>1, <1>10, <1>11, <1>12, <1>13, ReallocGrew
<1> QED BY <1>9, <1>14 DEF Absorbed, BlocksKept

(* The first n cells of the block at p are not written. *)
StartKept(p, n) == \A a \in Addr : p <= a /\ a < p + n => mem'[a] = mem[a]

LEMMA ReallocUpgradeInv ==
  ASSUME TypeOK, HeapInv, Alone, TypeOK', NEW t \in Threads, ReallocUpgrade(t), ~GrowsIntoFirst(t)
  PROVE  /\ HeapInv' /\ BlocksKept(Listed \cup {loc[t].ptr - 1})
         /\ StartKept(loc[t].ptr, Size(loc[t].ptr - 1))
<1>1. /\ pc[t] = "resize" /\ NextIsFree(t) /\ loc[t].size > Current(t)
      /\ loc[t].size < Wrap(Both(t) - 1)
      /\ ReallocReturns(t, loc[t].ptr) /\ owned' = owned /\ dibbs' = dibbs
  BY DEF ReallocUpgrade
<1>2. PICK size : size = loc[t].size
  OBVIOUS
<1>3. /\ size \in Int /\ loc[t].asked \in Int /\ loc[t].asked <= size /\ size >= 2
      /\ UsedAt(loc[t].ptr) /\ size \in Addr
  BY <1>1, <1>2, ResizeCall, LocalsType
<1>4. /\ mem \in Memory /\ Tiles(mem, hdrs) /\ Footers(mem, hdrs)
      /\ HeapOK(mem, hdrs, Listed, dibbs) /\ ListApart(mem, Listed) /\ End \notin hdrs
  BY InvSane, HeaderTypes, HeapInvIs, TilesAll DEF Sane, HeapOK
<1>5. PICK n : n = Wrap(loc[t].ptr + size)
  OBVIOUS
<1>6. /\ pc'[t] = "return" /\ hdrs' = (hdrs \ {NextHdr(t)}) \cup {n}
  BY <1>1, <1>2, <1>5, ReallocReturned DEF ReallocUpgrade
<1>7. PICK h, b, x, y : /\ h = Header(t) /\ b = NextHdr(t)
                        /\ x = mem[Header(t)].c.v /\ y = mem[NextHdr(t)].c.v
  OBVIOUS
<1>8. /\ h \in Int /\ h + 1 = loc[t].ptr /\ x = Current(t) /\ x \in Int /\ h \in hdrs
      /\ NextHdr(t) = h + 1 + x /\ NextHdr(t) \in hdrs \cup {End} /\ x >= 1
  BY <1>3, <1>7, ReallocCall DEF EndOf
<1>9. y \in Int /\ NextHdr(t) \in hdrs /\ y >= 1 /\ h + 1 + x + 1 + y <= End
  <2>1. NextHdr(t) \in hdrs
    <3>1. mem[End].c = Used(0)
      BY <1>4 DEF Footers
    <3> QED BY <1>1, <1>8, <3>1 DEF NextIsFree, Used
  <2>2. EndOf(mem, NextHdr(t)) <= End /\ y \in Int /\ y >= 1
    BY <1>4, <1>7, <2>1, TilesFacts DEF Tiles
  <2>3. EndOf(mem, NextHdr(t)) = h + 1 + x + 1 + y
    BY <1>7, <1>8 DEF EndOf
  <2> QED BY <2>1, <2>2, <2>3
<1>10. /\ Both(t) = x + y /\ Wrap(Both(t) - 1) = x + y - 1 /\ 0 < h
       /\ h + 1 + x + 1 + y < W /\ W \in Int
  <2>1. Bottom <= h /\ 0 < Bottom /\ Bottom \in Int /\ End \in Int /\ End < W /\ W \in Int
    BY <1>4, <1>8, TilesFacts, Geometry DEF End
  <2>2. x + y \in Addr /\ x + y - 1 \in Addr /\ 0 < h /\ h + 1 + x + 1 + y < W
    BY <1>8, <1>9, <2>1, Geometry DEF Addr
  <2>3. Both(t) = Wrap(x + y)
    BY <1>7, <1>8 DEF Both
  <2>4. Wrap(x + y) = x + y /\ Wrap(x + y - 1) = x + y - 1
    BY <2>2, WrapIn
  <2>5. Both(t) = x + y
    BY <2>3, <2>4
  <2>6. Wrap(Both(t) - 1) = x + y - 1
    <3>1. PICK s : s = Both(t)
      OBVIOUS
    <3>2. s - 1 \in Addr /\ s - 1 = x + y - 1
      BY <1>8, <1>9, <2>2, <2>5, <3>1
    <3>3. Wrap(s - 1) = s - 1
      BY <3>2, WrapIn
    <3> QED BY <3>1, <3>2, <3>3
  <2> QED BY <2>1, <2>2, <2>5, <2>6
<1>11. n = h + 1 + size /\ n \in Int /\ x < size /\ size < x + y - 1 /\ n \in Addr /\ n + 1 \in Addr
  <2>1. x < size /\ size < x + y - 1
    BY <1>1, <1>2, <1>8, <1>10
  <2>2. h + 1 + size \in Addr /\ h + 1 + size + 1 \in Addr
    BY <1>3, <1>8, <1>9, <1>10, <2>1, Geometry DEF Addr
  <2> QED BY <1>3, <1>5, <1>8, <2>1, <2>2, WrapIn
<1>fits. x + y - size \in 0 .. W - 1 /\ y + x - size = x + y - size /\ y + x \in 0 .. W - 1
  <2>1. x \in Int /\ y \in Int /\ size \in Int /\ h \in Int /\ W \in Int
    BY <1>3, <1>8, <1>9, <1>10
  <2>2. x < size /\ size < x + y - 1 /\ 0 < h /\ h + 1 + x + 1 + y < W /\ size >= 2
    BY <1>3, <1>10, <1>11
  <2> QED BY <2>1, <2>2
<1>12. hdrs' # hdrs
  <2>1. n \notin hdrs
    <3>1. NextHdr(t) < n
      BY <1>3, <1>8, <1>11
    <3>2. n < EndOf(mem, NextHdr(t)) /\ EndOf(mem, NextHdr(t)) \in Int
      BY <1>3, <1>7, <1>8, <1>9, <1>11 DEF EndOf
    <3>3. n \in hdrs => n <= NextHdr(t) \/ EndOf(mem, NextHdr(t)) <= n
      BY <1>4, <1>9 DEF Tiles
    <3> QED BY <1>8, <1>9, <1>11, <3>1, <3>2, <3>3
  <2> QED BY <1>6, <2>1
<1>13. GrowsOver(t, h, b)
  BY <1>1, <1>6, <1>7, <1>12, GrowPlace
<1>14. PICK w1, w2, e : w1 = Used(size) /\ w2 = Freed(x + y - size) /\ e = EndOf(mem, b)
  OBVIOUS
<1>15. w1 \in Word /\ w2 \in Word /\ GrowTags(mem, h, b, n, w1, w2)
  <2>1. e = h + 2 + x + y /\ b = h + 1 + x /\ b = EndOf(mem, h)
    BY <1>7, <1>8, <1>13, <1>14 DEF GrowsOver
  <2>2. x + y - size \in Addr
    BY <1>fits DEF Addr
  <2>3. b < n /\ n + 2 <= e /\ size = n - h - 1 /\ x + y - size = e - n - 1
    BY <1>3, <1>8, <1>9, <1>11, <2>1
  <2>4. w1.v = size /\ w2.v = x + y - size
    BY <1>14 DEF Used, Freed
  <2> QED BY <1>3, <1>14, <2>1, <2>2, <2>3, <2>4 DEF Used, Freed, Word, GrowTags
<1>16. /\ Wrap(Wrap(mem[b].c.v + mem[b].p.v) - size) = x + y - size
       /\ NextHeader(mem, b) = e /\ Wrap(b + 1) = b + 1 /\ Wrap(n + 1) = n + 1
  <2>1. mem[b].c.v = y /\ mem[b].p.v = x /\ NextHeader(mem, b) = e /\ Wrap(b + 1) = b + 1
    BY <1>7, <1>13, <1>14 DEF GrowsOver
  <2>2. PICK s : s = mem[b].c.v + mem[b].p.v
    OBVIOUS
  <2>3. s = y + x /\ s \in Addr /\ s - size = x + y - size /\ s - size \in Addr
    <3>1. s = y + x
      BY <1>8, <1>9, <2>1, <2>2
    <3> QED BY <1>3, <1>8, <1>9, <1>fits, <3>1 DEF Addr
  <2>4. Wrap(n + 1) = n + 1
    BY <1>11, WrapIn
  <2>5. Wrap(s) = s /\ Wrap(s - size) = s - size
    BY <2>3, WrapIn
  <2> QED BY <2>1, <2>2, <2>3, <2>4, <2>5
<1> DEFINE z == Moved(mem, h, n + 1, n, e, mem[b + 1], w1, w2)
<1>17. mem' = SetPrev(SetNext(z, mem[b + 1].p, Link(n + 1)), mem[b + 1].c, Link(n + 1))
  <2> DEFINE n_f   == mem[Wrap(b + 1)]
             new_f == Wrap(n + 1)
             rest  == Freed(Wrap(Wrap(mem[b].c.v + mem[b].p.v) - size))
             m1    == [mem EXCEPT ![h].c = w1, ![new_f] = n_f, ![n] = [p |-> w1, c |-> rest],
                                  ![NextHeader(mem, b)].p = rest]
  <2>1. mem' = SetPrev(SetNext(m1, n_f.p, Link(new_f)), n_f.c, Link(new_f))
    BY <1>2, <1>5, <1>7, <1>14 DEF ReallocUpgrade
  <2>2. n_f = mem[b + 1] /\ new_f = n + 1 /\ rest = w2
    BY <1>14, <1>16
  <2>3. m1 = z
    <3>1. m1 = [mem EXCEPT ![h].c = w1, ![n + 1] = mem[b + 1], ![n] = [p |-> w1, c |-> w2],
                           ![e].p = w2]
      BY <1>16, <2>2
    <3> QED BY <3>1 DEF Moved, PutP, PutC, PutCell, PutCopy
  <2> HIDE DEF m1, n_f, new_f, rest, z
  <2> QED BY <2>1, <2>2, <2>3
<1> HIDE DEF z
<1>18. Grown(mem, mem', hdrs, Listed, dibbs, h, b, n, w1, w2)
  <2>1. h \in hdrs \ Listed /\ b \in Listed /\ b # dibbs
    BY <1>13 DEF GrowsOver
  <2> QED BY <1>4, <1>11, <1>14, <1>15, <1>17, <2>1, Grow DEF z
<1> DEFINE T == (Listed \ {b}) \cup {n}
<1>19. /\ HeapOK(mem', hdrs', T, dibbs') /\ n \notin hdrs
       /\ mem'[h].c = w1 /\ mem'[n].c = w2 /\ EndOf(mem', n) = EndOf(mem, b)
       /\ \A g \in hdrs \ {h, b} : mem'[g].c = mem[g].c /\ EndOf(mem', g) = EndOf(mem, g)
  BY <1>1, <1>6, <1>7, <1>18 DEF Grown
<1>20. /\ h \in hdrs /\ h # b /\ b \in Listed /\ b \in hdrs /\ hdrs' = (hdrs \ {b}) \cup {n}
       /\ ~w1.f /\ w2.f /\ w1.v = size /\ h \notin Listed /\ h = loc[t].ptr - 1
  BY <1>6, <1>7, <1>13, <1>14 DEF GrowsOver, Used, Freed
<1>21. \A g \in Listed : g \in hdrs /\ mem[g].c.f
  BY HeadOfList
<1>22. ListApart(mem', T)
  <2>1. \A g \in hdrs : EndOf(mem, g) \in hdrs \cup {End}
    BY <1>4 DEF Tiles
  <2>2. n # End
    BY <1>3, <1>9, <1>11, <1>8
  <2>3. EndOf(mem', n) \notin T
    BY <1>4, <1>19, <1>20, <2>1, <2>2 DEF ListApart
  <2>4. \A g \in Listed \ {b} : EndOf(mem', g) \notin T
    BY <1>4, <1>19, <1>20, <1>21, <2>1, <2>2 DEF ListApart
  <2> QED BY <2>3, <2>4 DEF ListApart
<1>23. Extends(t, h, T)
  <2>1. loc[t].asked <= mem'[h].c.v
    BY <1>3, <1>19, <1>20
  <2> QED BY <1>1, <1>19, <1>20, <1>21, <2>1 DEF Extends
<1> HIDE DEF T
<1>24. HeapInv'
  BY <1>1, <1>19, <1>20, <1>22, <1>23, ReallocGrew
<1>25. BlocksKept(Listed \cup {loc[t].ptr - 1})
  BY <1>18, <1>20 DEF Grown, BlocksKept
<1>26. StartKept(loc[t].ptr, Size(loc[t].ptr - 1))
  <2>1. \A a \in Addr : h < a /\ a < b => mem'[a] = mem[a]
    BY <1>18 DEF Grown
  <2>2. Size(loc[t].ptr - 1) = x /\ b = loc[t].ptr + x /\ b \in Int /\ \A a \in Addr : a \in Int
    <3>1. loc[t].ptr - 1 = h /\ Size(h) = x
      BY <1>7, <1>20 DEF Size
    <3>2. b = loc[t].ptr + x /\ b \in Int
      BY <1>7, <1>8
    <3> QED BY <3>1, <3>2, AddrInt
  <2>3. ASSUME NEW a \in Addr, loc[t].ptr <= a, a < b PROVE h < a /\ a < b
    BY <1>8, <2>2, <2>3
  <2> QED BY <2>1, <2>2, <2>3 DEF StartKept
<1> QED BY <1>24, <1>25, <1>26

LEMMA ReallocReduceInv ==
  ASSUME TypeOK, HeapInv, Alone, TypeOK', NEW t \in Threads, ReallocReduce(t)
  PROVE  /\ HeapInv' /\ BlocksKept({loc[t].ptr - 1})
         /\ StartKept(loc[t].ptr, loc[t].size) /\ mem'[loc[t].ptr - 1].c.v = loc[t].size
<1>1. /\ pc[t] = "resize" /\ loc[t].size <= Current(t)
      /\ Current(t) - loc[t].size >= 2 /\ owned' = owned /\ dibbs' = dibbs
      /\ Goto(t, "free")
  BY DEF ReallocReduce, MinimumBlockSize
<1>2. PICK size : size = loc[t].size
  OBVIOUS
<1>3. /\ size \in Int /\ loc[t].asked \in Int /\ loc[t].asked <= size /\ size >= 2
      /\ UsedAt(loc[t].ptr) /\ size \in Addr
      /\ loc[t].op = "realloc" /\ loc[t].res = 0 /\ loc[t].ptr # 0
  BY <1>1, <1>2, ResizeCall, LocalsType
<1>4. /\ mem \in Memory /\ Tiles(mem, hdrs) /\ Footers(mem, hdrs)
      /\ HeapOK(mem, hdrs, Listed, dibbs) /\ ListApart(mem, Listed) /\ End \notin hdrs
  BY InvSane, HeaderTypes, HeapInvIs, TilesAll DEF Sane, HeapOK
<1>5. PICK n : n = Wrap(loc[t].ptr + size)
  OBVIOUS
<1>6. PICK h, x, e : h = Header(t) /\ x = Current(t) /\ e = NextHdr(t)
  OBVIOUS
<1>7. /\ h \in Int /\ h + 1 = loc[t].ptr /\ h = loc[t].ptr - 1 /\ h \in hdrs \ FreeChunks
      /\ x \in Int /\ x = mem[h].c.v /\ e = EndOf(mem, h) /\ e = h + 1 + x
  BY <1>3, <1>6, ReallocCall DEF EndOf
<1>8. /\ h \notin Listed /\ ~mem[h].c.f /\ h \in hdrs
      /\ 0 < h /\ e \in Int /\ e < W /\ W \in Int /\ size + 2 <= x
  <2>1. Bottom <= h /\ 0 < Bottom /\ Bottom \in Int /\ End \in Int /\ End < W /\ W \in Int
    BY <1>4, <1>7, TilesFacts, Geometry DEF End
  <2>2. e <= End /\ e \in Int
    BY <1>4, <1>7, TilesFacts
  <2>3. size + 2 <= x
    BY <1>1, <1>2, <1>3, <1>6, <1>7
  <2> QED BY <1>7, <2>1, <2>2, <2>3 DEF Listed, FreeChunks
<1>9. /\ n = h + 1 + size /\ n \in Int /\ Wrap(n + 1) = n + 1
      /\ x - size - 1 \in Addr /\ Wrap(x - Wrap(size + 1)) = x - size - 1
  <2>1. /\ h + 1 + size \in 0 .. W - 1 /\ h + 1 + size + 1 \in 0 .. W - 1
        /\ x - (size + 1) \in 0 .. W - 1 /\ size + 1 \in 0 .. W - 1
        /\ x - (size + 1) = x - size - 1
    BY <1>3, <1>7, <1>8
  <2>2. n = h + 1 + size
    BY <1>5, <1>7, <2>1, WrapIn DEF Addr
  <2>3. Wrap(n + 1) = n + 1 /\ Wrap(size + 1) = size + 1
    BY <2>1, <2>2, WrapIn DEF Addr
  <2>4. PICK s : s = Wrap(size + 1)
    OBVIOUS
  <2>5. x - s \in Addr /\ x - s = x - size - 1
    BY <1>3, <1>7, <2>1, <2>3, <2>4 DEF Addr
  <2>6. Wrap(x - s) = x - s
    BY <2>5, WrapIn
  <2>7. Wrap(x - Wrap(size + 1)) = x - size - 1 /\ x - size - 1 \in Addr
    BY <2>4, <2>5, <2>6
  <2>8. n \in Int
    BY <1>3, <1>7, <2>2
  <2> QED BY <2>2, <2>3, <2>7, <2>8
<1>10. PICK w1, w2 : w1 = Used(size) /\ w2 = Freed(x - size - 1)
  OBVIOUS
<1>11. /\ w1 \in Word /\ w2 \in Word /\ ~w1.f /\ w2.f /\ w1.v = size
       /\ SplitTags(mem, h, n, w1, w2)
  <2>1. h + 2 <= n /\ n + 2 <= e /\ size = n - h - 1 /\ x - size - 1 = e - n - 1
    BY <1>3, <1>7, <1>8, <1>9
  <2> QED BY <1>3, <1>7, <1>9, <1>10, <2>1 DEF Used, Freed, Word, SplitTags
<1>12. /\ mem' = PutP(PutC(PutCell(mem, n, w1, w2), h, w1), EndOf(mem, h), w2)
       /\ hdrs' = hdrs \cup {n}
       /\ loc' = [loc EXCEPT ![t].res = loc[t].ptr, ![t].ptr = n + 1]
  <2> DEFINE rest == Freed(Wrap(Current(t) - Wrap(size + 1)))
  <2>1. /\ mem' = [mem EXCEPT ![n] = [p |-> w1, c |-> rest], ![h].c = w1, ![e].p = rest]
        /\ hdrs' = hdrs \cup {n}
        /\ loc' = [loc EXCEPT ![t].res = loc[t].ptr, ![t].ptr = Wrap(n + 1)]
    BY <1>2, <1>5, <1>6, <1>10 DEF ReallocReduce
  <2>2. rest = w2
    BY <1>6, <1>9, <1>10
  <2> HIDE DEF rest
  <2>3. mem' = [mem EXCEPT ![n] = [p |-> w1, c |-> w2], ![h].c = w1, ![e].p = w2]
    BY <2>1, <2>2
  <2>4. mem' = PutP(PutC(PutCell(mem, n, w1, w2), h, w1), e, w2)
    BY <2>3 DEF PutP, PutC, PutCell
  <2> QED BY <1>7, <1>9, <2>1, <2>4
<1>13. CutAt(mem, mem', hdrs, Listed, dibbs, h, n, w1, w2)
  BY <1>4, <1>8, <1>9, <1>11, <1>12, Cut
<1>14. /\ HeapOK(mem', hdrs', Listed, dibbs') /\ n \notin hdrs
       /\ mem'[h].c = w1 /\ mem'[n].c = w2
       /\ \A g \in hdrs : g # h => mem'[g].c = mem[g].c
       /\ \A g \in hdrs \ {h} : EndOf(mem', g) = EndOf(mem, g)
  BY <1>1, <1>12, <1>13 DEF CutAt
<1>15. \A g \in Listed : g \in hdrs /\ mem[g].c.f
  BY HeadOfList
<1>16. ListApart(mem', Listed)
  BY <1>4, <1>8, <1>14, <1>15 DEF ListApart
<1>17. /\ pc'[t] = "free" /\ Others(t)
       /\ loc'[t].res = h + 1 /\ loc'[t].ptr = n + 1 /\ loc'[t].asked = loc[t].asked
       /\ loc'[t].op = "realloc"
  <2>1. pc'[t] = "free" /\ \A u \in Threads \ {t} : pc'[u] = pc[u]
    BY <1>1, GotoFacts
  <2>2. loc' = [loc EXCEPT ![t] = [loc[t] EXCEPT !.res = loc[t].ptr, !.ptr = n + 1]]
    BY <1>12, TypeOKMemory DEF Locals
  <2>3. /\ loc'[t].res = loc[t].ptr /\ loc'[t].ptr = n + 1 /\ loc'[t].asked = loc[t].asked
        /\ loc'[t].op = loc[t].op /\ \A u \in Threads \ {t} : loc'[u] = loc[u]
    BY <2>2, TypeOKMemory DEF Locals
  <2> QED BY <1>3, <1>7, <2>1, <2>3 DEF Others
<1>18. Held(t) = {h + 1} /\ Held(t)' = {h + 1, n + 1}
  <2>1. h + 1 # 0 /\ n + 1 # 0
    <3>1. 0 < h /\ h \in Int /\ size \in Int /\ size >= 2 /\ n = h + 1 + size
      BY <1>3, <1>7, <1>8, <1>9
    <3> QED BY <3>1
  <2> QED BY <1>3, <1>7, <1>17, <2>1 DEF Held
<1>19. /\ loc'[t].res - 1 = h /\ loc'[t].ptr - 1 = n /\ h # n /\ loc'[t].res # loc'[t].ptr
       /\ \A p \in Held(t)' : p - 1 = h \/ p - 1 = n
  BY <1>3, <1>7, <1>9, <1>17, <1>18
<1>20. CallOK(t)'
  <2>1. Got(t)'
    <3>1. h \in hdrs' /\ ~mem'[h].c.f /\ loc'[t].asked <= mem'[h].c.v
      BY <1>3, <1>8, <1>11, <1>12, <1>14, <1>17
    <3> QED BY <1>19, <3>1 DEF Got, UsedAt, Size
  <2>2. FreeOK(t)'
    BY <1>12, <1>17, <1>19, <2>1 DEF FreeOK
  <2> QED BY <1>17, <2>2 DEF CallOK, InMalloc, InRealloc, InCopy, InRelock
<1>21. \A g \in hdrs : g \in Int /\ (g + 1 = h + 1 <=> g = h)
  BY <1>4, <1>7, TilesAll
<1>22. Frame(t)
  <2>1. \A g \in hdrs : g + 1 \notin Held(t) => g \in hdrs' /\ mem'[g].c = mem[g].c
    BY <1>12, <1>14, <1>18, <1>21
  <2>2. \A g \in hdrs' : ~mem'[g].c.f
          => (g \in hdrs /\ ~mem[g].c.f /\ g + 1 \notin Held(t)) \/ g + 1 \in Held(t)'
    BY <1>11, <1>12, <1>14, <1>18, <1>21
  <2>3. ASSUME NEW p \in Held(t)'
        PROVE  p - 1 \in hdrs' /\ (p \in Held(t) \/ p - 1 \notin hdrs)
    <3>1. CASE p = h + 1
      <4>1. p - 1 = h
        BY <1>7, <3>1
      <4> QED BY <1>8, <1>12, <1>18, <3>1, <4>1
    <3>2. CASE p = n + 1
      <4>1. p - 1 = n
        BY <1>9, <3>2
      <4> QED BY <1>12, <1>14, <4>1
    <3> QED BY <1>18, <3>1, <3>2
  <2> QED BY <1>1, <1>17, <2>1, <2>2, <2>3 DEF Frame
<1>23. NewList(t, Listed)
  <2>1. \A g \in Listed : g \in hdrs /\ g # h /\ g # n /\ g \in Int
    BY <1>8, <1>14, <1>15, <1>21
  <2>2. \A g \in Listed : mem'[g].c.f /\ g + 1 \notin Held(t)'
    <3> SUFFICES ASSUME NEW g \in Listed PROVE mem'[g].c.f /\ g + 1 \notin Held(t)'
      OBVIOUS
    <3>1. g \in hdrs /\ g # h /\ g # n /\ g \in Int /\ mem'[g].c.f
      BY <1>14, <1>15, <2>1
    <3>2. g + 1 # h + 1 /\ g + 1 # n + 1
      BY <1>7, <1>9, <3>1
    <3> QED BY <1>18, <3>1, <3>2
  <2>3. \A g \in hdrs' \ Listed : g + 1 \in Held(t)' \/ (g \in hdrs /\ g + 1 \notin Held(t))
    BY <1>12, <1>18, <1>21
  <2> QED BY <1>12, <2>1, <2>2, <2>3 DEF NewList
<1>24. pc[t] \in In
  BY <1>1 DEF In
<1>25. HeapInv'
  BY <1>14, <1>16, <1>17, <1>20, <1>22, <1>23, <1>24, Changed
<1>26. BlocksKept({loc[t].ptr - 1})
  BY <1>7, <1>13 DEF CutAt, BlocksKept
<1>27. StartKept(loc[t].ptr, loc[t].size)
  <2>1. \A a \in Addr : h < a /\ a < n => mem'[a] = mem[a]
    BY <1>13 DEF CutAt
  <2>2. n = loc[t].ptr + size /\ \A a \in Addr : a \in Int
    BY <1>7, <1>9, AddrInt
  <2>3. ASSUME NEW a \in Addr, loc[t].ptr <= a PROVE h < a
    BY <1>7, <2>2, <2>3
  <2> QED BY <1>2, <2>1, <2>2, <2>3 DEF StartKept
<1>28. mem'[loc[t].ptr - 1].c.v = loc[t].size
  BY <1>2, <1>7, <1>11, <1>14
<1> QED BY <1>25, <1>26, <1>27, <1>28

-----------------------------------------------------------------------------
(* The inductive invariant.                                                *)

(* The heaps the state properties are about: the constructor's first chunk *)
(* ends at minfos.end, no request is so large that ALIGN or the sizes      *)
(* compared with it leave size_t, and the word at end, which nobody        *)
(* writes, reads as an empty chunk.                                        *)
FittingHeap ==
  /\ FirstChunkFits /\ RequestsFit
  /\ Ram[End].c = Used(0)

LEMMA InitHeapInv == FittingHeap /\ Init => HeapInv
<1> SUFFICES ASSUME FittingHeap, Init PROVE HeapInv
  OBVIOUS
<1>1. /\ Bottom \in Nat /\ End \in Nat /\ Bottom + 2 <= End /\ End < W /\ 0 < Bottom /\ W \in Nat
      /\ Bottom + HeapSize + 1 = End
  BY Geometry DEF End, FittingHeap, FirstChunkFits
<1>2. HeapSize = End - Bottom - 1 /\ HeapSize >= 1 /\ HeapSize \in Int
  BY <1>1, Geometry DEF HeapSize, End
<1>3. TypeOK /\ mem \in Memory
  BY InitTypeOK, TypeOKMemory
<1>4. /\ mem[Bottom].c = Freed(HeapSize) /\ mem[Bottom].p = Used(0) /\ mem[End].c = Used(0)
      /\ mem[Bottom + 1].p = Link(0) /\ mem[Bottom + 1].c = Link(0)
  <2>1. /\ Bottom \in Addr /\ Bottom + 1 \in Addr /\ End - 1 \in Addr /\ End \in Addr
        /\ Bottom # End - 1 /\ Bottom # Bottom + 1 /\ End # Bottom /\ End # Bottom + 1 /\ End # End - 1
    BY <1>1 DEF Addr
  <2>2. Ram \in [Addr -> Cell] /\ mem = Constructed /\ Ram[End].c = Used(0)
    BY Geometry DEF Init, FittingHeap
  <2>3. PICK a, b : a = End - 1 /\ b = Bottom + 1
    OBVIOUS
  <2>4. mem = [Ram EXCEPT ![Bottom] = [p |-> Used(0), c |-> Freed(HeapSize)],
                          ![a]      = [p |-> Freed(HeapSize), c |-> Used(0)],
                          ![b]      = [p |-> Link(0), c |-> Link(0)]]
    BY <2>2, <2>3 DEF Constructed
  <2>5. Bottom \in Addr /\ a \in Addr /\ b \in Addr /\ End \in Addr
        /\ Bottom # a /\ Bottom # b /\ End # Bottom /\ End # b /\ End # a
    BY <2>1, <2>3
  <2>6. mem[b] = [p |-> Link(0), c |-> Link(0)] /\ mem[End] = Ram[End]
        /\ mem[Bottom] = [p |-> Used(0), c |-> Freed(HeapSize)]
    BY <2>2, <2>4, <2>5
  <2> QED BY <2>2, <2>3, <2>6
<1>5. /\ hdrs = {Bottom} /\ dibbs = Bottom /\ DOMAIN owned = {}
      /\ \A t \in Threads : pc[t] = "idle" /\ loc[t] = NoCall
  BY DEF Init
<1>6. mem[Bottom].c.v = HeapSize /\ mem[Bottom].c.f /\ EndOf(mem, Bottom) = End
  <2>1. mem[Bottom].c.v = HeapSize /\ mem[Bottom].c.f
    BY <1>4 DEF Freed
  <2> QED BY <1>1, <1>2, <2>1 DEF EndOf
<1>7. Listed = {Bottom}
  <2>1. InTransit = {}
    BY <1>5 DEF InTransit, Leaving
  <2>2. FreeChunks = {Bottom}
    BY <1>5, <1>6 DEF FreeChunks
  <2> QED BY <2>1, <2>2 DEF Listed
<1>8. Tiles(mem, hdrs)
  BY <1>1, <1>2, <1>5, <1>6 DEF Tiles
<1>9. Footers(mem, hdrs)
  BY <1>4, <1>5 DEF Footers, Used
<1>10. FreeList(mem, Listed, dibbs)
  BY <1>1, <1>4, <1>5, <1>7 DEF FreeList, IsFirst, IsLast
<1>11. Coalesced
  <2>1. After(Bottom) = End
    BY <1>6 DEF After, EndOf, Size
  <2> QED BY <1>1, <1>7, <2>1 DEF Coalesced
<1>12. \A t \in Threads : Held(t) = {}
  BY <1>5 DEF Held, NoCall
<1>13. BlocksAccountedFor
  <2>1. hdrs \ FreeChunks = {}
    BY <1>5, <1>6 DEF FreeChunks
  <2> QED BY <1>5, <1>12, <2>1 DEF BlocksAccountedFor
<1>14. Calls
  BY <1>5 DEF Calls, CallOK, AssignOK, SearchOK, InMalloc, InFree, InRealloc, InCopy, InRelock
<1> QED BY <1>8, <1>9, <1>10, <1>11, <1>13, <1>14 DEF HeapInv

LEMMA MallocInv ==
  ASSUME TypeOK, HeapInv, Alone, TypeOK', NEW t \in Threads, Malloc(t)
  PROVE  HeapInv'
BY MallocEnterInv, MallocLockInv, SearchInv, MallocPerfectInv, MallocSplitInv, MallocFailsInv,
   CallocZeroInv DEF Malloc

LEMMA FreeInv ==
  ASSUME TypeOK, HeapInv, Alone, TypeOK', NEW t \in Threads, Free(t), ~MergesLoose(t)
  PROVE  HeapInv'
BY FreeEnterInv, FreeLockInv, FreeMergeInv, AssignFirstInv, AssignWalkInv, AssignInsertInv DEF Free

LEMMA ReallocInv ==
  ASSUME TypeOK, HeapInv, Alone, TypeOK', NEW t \in Threads, Realloc(t), ~GrowsIntoFirst(t)
  PROVE  HeapInv'
<1>1. CASE ReallocLock(t) \/ ReallocKeep(t) \/ ReallocReduce(t) \/ ReallocRelocate(t)
  BY <1>1, ReallocLockInv, ReallocKeepInv, ReallocReduceInv, ReallocRelocateInv
<1>2. CASE ReallocAbsorb(t) \/ ReallocUpgrade(t)
  BY <1>2, ReallocAbsorbInv, ReallocUpgradeInv
<1>3. CASE CopyEnter(t) \/ CopyLock(t) \/ Copy(t)
  BY <1>3, CopyEnterInv, CopyLockInv, CopyInv
<1>4. CASE RelockEnter(t) \/ Relock(t) \/ ReallocEnd(t)
  BY <1>4, RelockEnterInv, RelockInv, ReallocEndInv
<1> QED BY <1>1, <1>2, <1>3, <1>4 DEF Realloc

LEMMA CallInv ==
  ASSUME TypeOK, HeapInv, RequestsFit, TypeOK', NEW t \in Threads, Call(t)
  PROVE  HeapInv'
BY CallMallocInv, CallCallocInv, CallFreeInv, CallReallocInv DEF Call

LEMMA NextHeapInv ==
  ASSUME TypeOK, HeapInv, Alone, RequestsFit, TypeOK', [Next /\ Sound]_vars
  PROVE  HeapInv'
<1>1. CASE UNCHANGED vars
  BY <1>1, Stutters DEF vars, heap
<1>2. CASE Write
  BY <1>2, WriteInv
<1>3. ASSUME NEW t \in Threads, Call(t)
      PROVE  HeapInv'
  BY <1>3, CallInv
<1>4. ASSUME NEW t \in Threads, Step(t), Sound
      PROVE  HeapInv'
  <2>1. ~GrowsIntoFirst(t) /\ ~MergesLoose(t)
    BY <1>4 DEF Sound
  <2>2. CASE Malloc(t)
    BY <2>2, MallocInv
  <2>3. CASE Free(t)
    BY <2>1, <2>3, FreeInv
  <2>4. CASE Realloc(t)
    BY <2>1, <2>4, ReallocInv
  <2>5. CASE Return(t)
    BY <2>5, ReturnInv
  <2> QED BY <1>4, <2>2, <2>3, <2>4, <2>5 DEF Step
<1>5. ASSUME NEW t \in Threads, Halt(t)
      PROVE  HeapInv'
  BY <1>5, HaltInv
<1> QED BY <1>1, <1>2, <1>3, <1>4, <1>5 DEF Next

(* The lock's theorem, for the labels. *)
LEMMA ExclusionAlone == Spin!MutualExclusion => Alone
<1> SUFFICES ASSUME Spin!MutualExclusion, NEW t \in Threads, NEW u \in Threads,
                    pc[t] \in In, pc[u] \in In
             PROVE  t = u
  BY DEF Alone
<1>1. Where(t) = "in" /\ Where(u) = "in"
  BY DEF Where, Side
<1> QED BY <1>1 DEF Spin!MutualExclusion

LEMMA SoundIsSpec == SoundSpec => Spec
<1>1. [Next /\ Sound]_vars => [Next]_vars
  OBVIOUS
<1> QED BY <1>1, PTL DEF SoundSpec, Spec

(* Every step but the two of realloc that README.md describes keeps the    *)
(* heap: its tags tile it, its list is the free chunks in order, and each  *)
(* call has in its locals what the code takes for granted.                 *)
THEOREM HeapSound == ASSUME FittingHeap PROVE SoundSpec => []HeapInv
<1>1. Init => HeapInv
  BY InitHeapInv
<1>2. TypeOK /\ TypeOK' /\ Alone /\ HeapInv /\ [Next /\ Sound]_vars => HeapInv'
  BY NextHeapInv DEF FittingHeap
<1> QED BY <1>1, <1>2, SoundIsSpec, TypeCorrect, OneThreadInside, ExclusionAlone, PTL DEF SoundSpec

-----------------------------------------------------------------------------
(* What the invariant says of the heap.                                    *)

LEMMA InvTags == HeapInv => TagsAgree
<1> SUFFICES ASSUME HeapInv PROVE TagsAgree
  OBVIOUS
<1>1. Tiles(mem, hdrs) /\ Footers(mem, hdrs)
  BY DEF HeapInv
<1>2. \A h : After(h) = EndOf(mem, h)
  BY DEF After, EndOf, Size
<1>3. \A h \in hdrs : Bottom <= h /\ h < End
  BY <1>1, Geometry DEF Tiles, End
<1> QED BY <1>1, <1>2, <1>3 DEF Tiles, Footers, TagsAgree

LEMMA InvList == HeapInv => FreeListExact
<1> SUFFICES ASSUME HeapInv PROVE FreeListExact
  OBVIOUS
<1>1. FreeList(mem, Listed, dibbs) /\ InHeap(Listed)
  BY DEF HeapInv, Tiles, InHeap, Listed, FreeChunks
<1>2. Listed = {} => dibbs = End
  BY <1>1 DEF FreeList
<1>3. ASSUME NEW h \in Listed
      PROVE  /\ (\A g \in Listed : h <= g) => dibbs = h /\ mem[h + 1].p = Link(0)
             /\ (\A g \in Listed : g <= h) => mem[h + 1].c = Link(0)
  <2>1. /\ mem[h + 1].c = Link(0) <=> IsLast(Listed, h)
        /\ mem[h + 1].p = Link(0) <=> IsFirst(Listed, h)
        /\ IsFirst(Listed, h) <=> dibbs = h
    BY <1>1, ListFacts
  <2> QED BY <2>1 DEF IsFirst, IsLast
<1>4. ASSUME NEW h \in Listed, NEW g \in Listed, h < g, \A k \in Listed : k <= h \/ g <= k
      PROVE  mem[h + 1].c = Link(g + 1) /\ mem[g + 1].p = Link(h + 1)
  <2>1. Follows(Listed, h, g)
    BY <1>4 DEF Follows
  <2>2. mem[h + 1].c = Link(g + 1) <=> Follows(Listed, h, g)
    BY <1>1, ListFacts
  <2>3. mem[g + 1].p = Link(h + 1) <=> Follows(Listed, h, g)
    BY <1>1, ListFacts
  <2> QED BY <2>1, <2>2, <2>3
<1> QED BY <1>2, <1>3, <1>4 DEF FreeListExact

(* With no call under way, all free chunks are listed. *)
LEMMA InvAtRest ==
  ASSUME TypeOK, HeapInv, \A t \in Threads : pc[t] = "idle"
  PROVE  Listed = FreeChunks /\ \A t \in Threads : Held(t) = {}
<1>1. InTransit = {}
  BY DEF InTransit, Leaving
<1> QED BY <1>1, IdleCall DEF Listed

LEMMA InvLinks == TypeOK /\ HeapInv => LinksMatch
<1> SUFFICES ASSUME TypeOK, HeapInv, \A t \in Threads : pc[t] = "idle"
             PROVE  /\ dibbs # End => mem[dibbs + 1].p = Link(0)
                    /\ \A h \in FreeChunks :
                         LET next == mem[h + 1].c
                         IN  ~Null(next) => next.v - 1 \in FreeChunks /\ mem[next.v].p = Link(h + 1)
  BY DEF LinksMatch
<1>1. FreeList(mem, Listed, dibbs) /\ InHeap(Listed) /\ Listed = FreeChunks
  BY InvAtRest DEF HeapInv, Tiles, InHeap, Listed, FreeChunks
<1>2. dibbs # End => mem[dibbs + 1].p = Link(0)
  BY <1>1, ListFacts DEF FreeList
<1>3. ASSUME NEW h \in FreeChunks, ~Null(mem[h + 1].c)
      PROVE  /\ mem[h + 1].c.v - 1 \in FreeChunks
             /\ mem[mem[h + 1].c.v].p = Link(h + 1)
  <2>1. PICK g \in Listed : mem[h + 1].c = Link(g + 1)
    BY <1>1, <1>3 DEF FreeList, Null
  <2>2. mem[g + 1].p = Link(h + 1)
    BY <1>1, <2>1, ListFacts
  <2>3. mem[h + 1].c.v = g + 1 /\ g \in Int
    BY <2>1, HeadOfList, LinkField
  <2> QED BY <1>1, <2>2, <2>3
<1> QED BY <1>2, <1>3

LEMMA InvRecovers == FirstChunkFits /\ TypeOK /\ HeapInv => HeapRecovers
<1> SUFFICES ASSUME FirstChunkFits, TypeOK, HeapInv, DOMAIN owned = {},
                    \A t \in Threads : pc[t] = "idle"
             PROVE  /\ hdrs = {Bottom} /\ dibbs = Bottom
                    /\ mem[Bottom].c = Freed(HeapSize)
                    /\ mem[Bottom + 1] = [p |-> Link(0), c |-> Link(0)]
  BY DEF HeapRecovers
<1>1. /\ Tiles(mem, hdrs) /\ FreeList(mem, Listed, dibbs) /\ ListApart(mem, Listed)
      /\ mem \in Memory
  BY HeapInvIs, InvSane, HeaderTypes DEF HeapOK, Sane
<1>2. Listed = hdrs
  <2>1. hdrs \ FreeChunks = {}
    BY InvAtRest DEF HeapInv, BlocksAccountedFor
  <2> QED BY <2>1, InvAtRest DEF FreeChunks
<1>3. \A h \in hdrs : EndOf(mem, h) = End
  BY <1>1, <1>2 DEF ListApart, Tiles
<1>4. hdrs = {Bottom}
  <2>1. Bottom \in hdrs /\ End \notin hdrs
    BY <1>1, TilesAll
  <2>2. \A h \in hdrs : h = Bottom \/ \E g \in hdrs : EndOf(mem, g) = h
    BY <1>1 DEF Tiles
  <2> QED BY <1>3, <2>1, <2>2
<1>5. dibbs = Bottom /\ mem[Bottom + 1].p = Link(0) /\ mem[Bottom + 1].c = Link(0)
  <2>1. Listed = {Bottom} /\ Bottom \in Int
    BY <1>2, <1>4, Geometry
  <2>2. ~Follows(Listed, Bottom, Bottom)
    BY <2>1 DEF Follows
  <2>3. dibbs = Bottom
    BY <1>1, <2>1 DEF FreeList
  <2> QED BY <1>1, <2>1, <2>2, <2>3 DEF FreeList
<1>6. mem[Bottom].c.v = HeapSize
  <2>1. /\ Bottom \in Int /\ HeapSize \in Int /\ mem[Bottom].c.v \in Int
        /\ Bottom + 1 + mem[Bottom].c.v = End /\ Bottom + HeapSize + 1 = End
    BY <1>1, <1>3, <1>4, TilesFacts, Geometry DEF EndOf, FirstChunkFits, HeapSize, End
  <2> QED BY <2>1
<1>7. mem[Bottom].c = Freed(HeapSize)
  <2>1. mem[Bottom].c.f = TRUE
    <3>1. Bottom \in FreeChunks /\ mem[Bottom].c \in Word
      BY <1>1, <1>2, <1>4, TilesFacts DEF Listed
    <3> QED BY <3>1 DEF FreeChunks, Word
  <2>2. mem[Bottom].c \in Word
    BY <1>1, <1>4, TilesFacts
  <2> QED BY <1>6, <2>1, <2>2 DEF Word, Freed
<1>8. mem[Bottom + 1] \in Cell
  <2>1. Bottom + 1 \in Addr
    BY <1>1, <1>4, LinkPlaces
  <2> QED BY <1>1, <2>1 DEF Memory
<1> QED BY <1>4, <1>5, <1>7, <1>8 DEF Cell

LEMMA InvNext == TypeOK /\ HeapInv => NextStillNext
<1> SUFFICES ASSUME TypeOK, HeapInv, NEW t \in Threads, pc[t] \in {"free_lock", "merge"}
             PROVE  loc[t].nxt = NextHeader(mem, Wrap(loc[t].ptr - 1))
  BY DEF NextStillNext
<1>1. pc[t] \in InFree
  BY DEF InFree
<1>2. /\ FreeOK(t) /\ Wrap(loc[t].ptr - 1) = loc[t].ptr - 1
      /\ NextHeader(mem, loc[t].ptr - 1) = After(loc[t].ptr - 1)
  BY <1>1, FreeCall
<1> QED BY <1>2 DEF FreeOK

LEMMA InvSearch == HeapInv => SearchSoFar
  BY DEF HeapInv, Calls, SearchOK, Passed, SearchSoFar

LEMMA InvCopy == TypeOK /\ HeapInv => CopyFits
<1> SUFFICES ASSUME TypeOK, HeapInv, NEW t \in Threads, pc[t] = "memcpy"
             PROVE  Current(t) <= Size(loc[t].res - 1)
  BY DEF CopyFits
<1>1. /\ UsedAt(loc[t].ptr) /\ Got(t)
      /\ Size(loc[t].ptr - 1) < loc[t].size /\ loc[t].size <= Size(loc[t].res - 1)
  BY DEF HeapInv, Calls, CallOK, InCopy
<1>2. Current(t) = Size(loc[t].ptr - 1) /\ Current(t) \in Int /\ loc[t].size \in Int
  BY <1>1, ReallocCall, LocalsType
<1>3. Size(loc[t].res - 1) \in Int
  <2>1. mem \in Memory /\ Tiles(mem, hdrs) /\ loc[t].res - 1 \in hdrs
    BY <1>1, InvSane, HeaderTypes DEF Got, UsedAt, Sane
  <2> QED BY <2>1, TilesFacts DEF Size
<1> QED BY <1>1, <1>2, <1>3

LEMMA InvBlocks == TypeOK /\ HeapInv => BlocksInHeap
<1> SUFFICES ASSUME TypeOK, HeapInv, NEW p \in DOMAIN owned
             PROVE  Bottom <= p /\ p < Top
  BY DEF BlocksInHeap
<1>1. p - 1 \in hdrs /\ p \in Int
  BY UsedBlocks DEF UsedAt
<1>2. Bottom <= p - 1 /\ p - 1 < End /\ Bottom \in Int /\ Top \in Int /\ End = Top - 1
  BY <1>1, Geometry DEF HeapInv, Tiles, End
<1> QED BY <1>1, <1>2

LEMMA SoundInvariant == ASSUME FittingHeap PROVE SoundSpec => [](FirstChunkFits /\ TypeOK /\ HeapInv)
<1>1. FirstChunkFits
  BY DEF FittingHeap
<1> QED BY <1>1, SoundIsSpec, HeapSound, TypeCorrect, PTL

(* The tags tile the heap, each footer says what its header says: no       *)
(* malloc, free or realloc of any threads, in any order, leaves a gap, an  *)
(* overlap or a footer behind.                                             *)
THEOREM TagsSound == ASSUME FittingHeap PROVE SoundSpec => []TagsAgree
  BY SoundInvariant, InvTags, PTL

(* The list that malloc walks and free inserts into is exactly the free    *)
(* chunks that no call has in its hands, in the order of their addresses,  *)
(* linked both ways, dibbs first.                                          *)
THEOREM ListSound == ASSUME FittingHeap PROVE SoundSpec => []FreeListExact
  BY SoundInvariant, InvList, PTL

(* Two listed chunks never touch: the merges of free leave no free space   *)
(* in pieces.                                                              *)
THEOREM NeverSplit == ASSUME FittingHeap PROVE SoundSpec => []Coalesced
<1>1. HeapInv => Coalesced
  BY DEF HeapInv
<1> QED BY <1>1, SoundInvariant, PTL

(* No block is handed out twice, lost, or smaller than what was asked for. *)
THEOREM BlocksSound == ASSUME FittingHeap PROVE SoundSpec => []BlocksAccountedFor
<1>1. HeapInv => BlocksAccountedFor
  BY DEF HeapInv
<1> QED BY <1>1, SoundInvariant, PTL

(* get_usable_chunk finds the chunk of the size, or the smallest one that  *)
(* can be split; the kernel stops for a heap overflow only when there is   *)
(* neither.                                                                *)
THEOREM SearchSound == ASSUME FittingHeap PROVE SoundSpec => []SearchSoFar
  BY SoundInvariant, InvSearch, PTL

(* What free read before it took the lock is what it needs when it has it. *)
THEOREM NextSound == ASSUME FittingHeap PROVE SoundSpec => []NextStillNext
  BY SoundInvariant, InvNext, PTL

(* realloc's copy never goes beyond the new block, though the lock was     *)
(* free between its malloc and the copy.                                   *)
THEOREM CopySound == ASSUME FittingHeap PROVE SoundSpec => []CopyFits
  BY SoundInvariant, InvCopy, PTL

(* When everything is given back, the heap is what the constructor made.   *)
THEOREM HeapComesBack == ASSUME FittingHeap PROVE SoundSpec => []HeapRecovers
  BY SoundInvariant, InvRecovers, PTL

(* What check_linked_list looks for is never wrong, and what showAllocated *)
(* Memory says of pointers is true: the runs that find the contrary need a *)
(* step that is not Sound, or a first chunk that does not fit.             *)
THEOREM ChecksSound == ASSUME FittingHeap PROVE SoundSpec => [](LinksMatch /\ BlocksInHeap)
  BY SoundInvariant, InvLinks, InvBlocks, PTL

-----------------------------------------------------------------------------
(* Clients see an allocator.                                               *)

LEMMA ReturnGives ==
  ASSUME TypeOK, HeapInv, NEW t \in Threads, Return(t)
  PROVE  [Alloc!Next]_owned
<1> DEFINE r == loc[t].res
           n == loc[t].asked
<1>1. /\ pc[t] = "return" /\ loc[t].ptr = 0 /\ (r # 0 => Got(t))
      /\ owned' = IF r = 0 THEN owned
                  ELSE [q \in DOMAIN owned \cup {r} |-> IF q = r THEN n ELSE owned[q]]
  BY DEF HeapInv, Calls, CallOK, Return
<1>2. CASE r = 0
  BY <1>1, <1>2
<1>3. CASE r # 0
  <2>1. UsedAt(r) /\ n <= Size(r - 1) /\ n \in Nat /\ r \in Int
    BY <1>1, <1>3, LocalsType DEF Got
  <2>2. r \in Held(t)
    BY <1>3 DEF Held
  <2>3. r \notin DOMAIN owned
    BY <2>2 DEF HeapInv, BlocksAccountedFor
  <2>4. mem \in Memory /\ Tiles(mem, hdrs)
    BY InvSane, HeaderTypes DEF Sane
  <2>5. \A p : p \in Int => EndOf(mem, p - 1) = p + mem[p - 1].c.v
    BY DEF EndOf
  <2>6. /\ r - 1 \in hdrs /\ n \in Int /\ mem[r - 1].c.v \in Int /\ n <= mem[r - 1].c.v
        /\ Bottom <= r - 1 /\ EndOf(mem, r - 1) <= End /\ EndOf(mem, r - 1) = r + mem[r - 1].c.v
        /\ Bottom \in Int /\ End \in Int
    <3>1. r - 1 \in hdrs
      BY <2>1 DEF UsedAt
    <3> QED BY <2>1, <2>4, <2>5, <3>1, TilesFacts, TilesAll DEF Size
  <2>7. ASSUME NEW q \in DOMAIN owned
        PROVE  r # q /\ (r + n <= q \/ q + owned[q] <= r)
    <3>1. /\ q - 1 \in hdrs /\ owned[q] <= mem[q - 1].c.v /\ q \in Int /\ r # q
          /\ owned[q] \in Int
      BY <2>3, UsedBlocks, TypeOKMemory DEF UsedAt, Size
    <3>2. mem[q - 1].c.v \in Int /\ EndOf(mem, q - 1) = q + mem[q - 1].c.v
      BY <2>4, <2>5, <3>1, TilesFacts
    <3>3. q - 1 <= r - 1 \/ EndOf(mem, r - 1) <= q - 1
      BY <2>4, <2>6, <3>1, TilesAll
    <3>4. r - 1 <= q - 1 \/ EndOf(mem, q - 1) <= r - 1
      BY <2>4, <2>6, <3>1, TilesAll
    <3> QED BY <2>1, <2>6, <3>1, <3>2, <3>3, <3>4
  <2>8. Alloc!Fresh(r, n)
    BY <2>1, <2>6, <2>7 DEF Alloc!Fresh
  <2>9. Alloc!Give(r, n)
    BY <1>1, <1>3, <2>8 DEF Alloc!Give
  <2>10. r \in (Bottom + 1) .. (End - 1) /\ n \in 0 .. ((End - 1) - (Bottom + 1) + 1)
    <3>1. mem[r - 1].c.v >= 1
      BY <2>4, <2>6 DEF Tiles
    <3> QED BY <2>1, <2>6, <3>1
  <2> QED BY <2>9, <2>10 DEF Alloc!Next
<1> QED BY <1>2, <1>3

(* The steps that change what clients hold. *)
LEMMA OwnedSteps ==
  ASSUME [Next]_vars
  PROVE  owned' = owned \/ \E t \in Threads : CallFree(t) \/ CallRealloc(t) \/ Return(t)
<1>1. CASE UNCHANGED vars
  BY <1>1 DEF vars
<1>2. CASE Write
  BY <1>2 DEF Write
<1>3. ASSUME NEW t \in Threads, Call(t)
      PROVE  owned' = owned \/ CallFree(t) \/ CallRealloc(t)
  BY <1>3 DEF Call, CallMalloc, CallCalloc
<1>4. ASSUME NEW t \in Threads, Malloc(t) PROVE owned' = owned
  BY <1>4 DEF Malloc, MallocEnter, MallocLock, TakeLock, Search, MallocPerfect, MallocSplit,
     MallocFails, CallocZero
<1>5. ASSUME NEW t \in Threads, Free(t) PROVE owned' = owned
  BY <1>5 DEF Free, FreeEnter, FreeLock, TakeLock, FreeMerge, AssignFirst, AssignWalk, AssignInsert
<1>6. ASSUME NEW t \in Threads, Realloc(t) PROVE owned' = owned
  BY <1>6 DEF Realloc, ReallocLock, TakeLock, ReallocKeep, ReallocReduce, ReallocAbsorb,
     ReallocUpgrade, ReallocRelocate, CopyEnter, CopyLock, Copy, RelockEnter, Relock, ReallocEnd
<1>7. ASSUME NEW t \in Threads, Halt(t) PROVE owned' = owned
  BY <1>7 DEF Halt, vars
<1> QED BY <1>1, <1>2, <1>3, <1>4, <1>5, <1>6, <1>7 DEF Next, Step

OwnedFunction == owned = [p \in DOMAIN owned |-> owned[p]]

LEMMA OwnedIsFunction == Spec => []OwnedFunction
<1>1. Init => OwnedFunction
  BY DEF Init, OwnedFunction
<1>2. OwnedFunction /\ [Next]_vars => OwnedFunction'
  <2> SUFFICES ASSUME OwnedFunction, [Next]_vars PROVE OwnedFunction'
    OBVIOUS
  <2>1. CASE owned' = owned
    BY <2>1 DEF OwnedFunction
  <2>2. ASSUME NEW t \in Threads, CallFree(t) \/ CallRealloc(t)
        PROVE  OwnedFunction'
    <3>1. PICK p : owned' = [q \in DOMAIN owned \ {p} |-> owned[q]]
      BY <2>2 DEF CallFree, CallRealloc
    <3> QED BY <3>1 DEF OwnedFunction
  <2>3. ASSUME NEW t \in Threads, Return(t)
        PROVE  OwnedFunction'
    <3>1. \/ owned' = owned
          \/ owned' = [q \in DOMAIN owned \cup {loc[t].res} |->
                         IF q = loc[t].res THEN loc[t].asked ELSE owned[q]]
      BY <2>3 DEF Return
    <3> QED BY <2>1, <3>1 DEF OwnedFunction
  <2> QED BY <2>1, <2>2, <2>3, OwnedSteps
<1> QED BY <1>1, <1>2, PTL DEF Spec

LEMMA StepAllocates ==
  ASSUME TypeOK, HeapInv, OwnedFunction, [Next]_vars
  PROVE  [Alloc!Next]_owned
<1>1. CASE owned' = owned
  BY <1>1
<1>2. ASSUME NEW t \in Threads, CallFree(t) PROVE [Alloc!Next]_owned
  BY <1>2 DEF CallFree, Alloc!Next, Alloc!Take
<1>3. ASSUME NEW t \in Threads, CallRealloc(t) PROVE [Alloc!Next]_owned
  <2>1. PICK p \in DOMAIN owned \cup {0} : owned' = [q \in DOMAIN owned \ {p} |-> owned[q]]
    BY <1>3 DEF CallRealloc
  <2>2. CASE p \in DOMAIN owned
    BY <2>1, <2>2 DEF Alloc!Next, Alloc!Take
  <2>3. CASE p \notin DOMAIN owned
    <3>1. DOMAIN owned \ {p} = DOMAIN owned
      BY <2>3
    <3>2. owned' = [q \in DOMAIN owned |-> owned[q]]
      BY <2>1, <3>1
    <3> QED BY <3>2 DEF OwnedFunction
  <2> QED BY <2>2, <2>3
<1>4. ASSUME NEW t \in Threads, Return(t) PROVE [Alloc!Next]_owned
  BY <1>4, ReturnGives
<1> QED BY <1>1, <1>2, <1>3, <1>4, OwnedSteps

(* malloc, calloc, realloc and free implement the allocator that           *)
(* MemoryManager.hh promises: each block they return is free of every      *)
(* other block and as large as asked, for any threads and any calls.       *)
THEOREM AllocatorImplemented == ASSUME FittingHeap PROVE SoundSpec => ImplementsAllocator
<1>1. Init => Alloc!Init
  BY DEF Init, Alloc!Init
<1>2. TypeOK /\ HeapInv /\ OwnedFunction /\ [Next /\ Sound]_vars => [Alloc!Next]_owned
  BY StepAllocates
<1> QED BY <1>1, <1>2, SoundInvariant, SoundIsSpec, OwnedIsFunction, PTL
        DEF SoundSpec, ImplementsAllocator, Alloc!Spec

-----------------------------------------------------------------------------
(* What clients write stays.                                               *)

BlockData ==
  \A p \in DOMAIN owned \cap DOMAIN owned' :
    \A i \in 0 .. owned[p] - 1 : mem'[p + i] = mem[p + i]

OwnData(t) ==
  loc[t].op = "realloc" /\ loc'[t].op = "realloc" =>
    \A i \in 0 .. Lowest(DataSize(t), DataSize(t)') - 1 :
      mem'[DataAt(t)' + i] = mem[DataAt(t) + i]

DataStep == BlockData /\ \A t \in Threads : OwnData(t)

(* While a realloc has its data in the old block. *)
InOld == {"realloc_lock", "resize", "malloc", "malloc_lock", "search", "overflow",
          "copy", "copy_lock", "memcpy"}

LEMMA DataPlace ==
  ASSUME NEW t
  PROVE  /\ DataAt(t) = IF pc[t] \in InOld THEN loc[t].ptr ELSE loc[t].res
         /\ DataAt(t)' = IF pc'[t] \in InOld THEN loc'[t].ptr ELSE loc'[t].res
  BY DEF DataAt, InOld

(* A number of cells does not grow. *)
LEMMA LowestIs ==
  ASSUME NEW a \in Int, NEW b \in Int
  PROVE  Lowest(a, b) \in Int /\ Lowest(a, b) <= a /\ Lowest(a, b) <= b
  BY DEF Lowest

(* A realloc in progress holds a block, in use, with its data. *)
LEMMA DataHeld ==
  ASSUME TypeOK, HeapInv, NEW t \in Threads, loc[t].op = "realloc"
  PROVE  /\ DataAt(t) \in Held(t) /\ UsedAt(DataAt(t)) /\ DataAt(t) \in Addr /\ DataAt(t) \in Int
         /\ Size(DataAt(t) - 1) \in Int /\ DataSize(t) \in Int
         /\ DataSize(t) <= Size(DataAt(t) - 1)
<1>1. Sane /\ CallOK(t) /\ pc[t] \in Labels
  BY InvSane, LocalsType DEF HeapInv, Calls
<1>2. pc[t] # "idle"
  BY <1>1 DEF CallOK, NoCall
<1>3. ASSUME pc[t] \in InMalloc PROVE UsedAt(DataAt(t))
  <2>1. UsedAt(loc[t].ptr)
    BY <1>3, MallocCall
  <2> QED BY <1>3, <2>1 DEF InMalloc, DataAt
<1>4. ASSUME pc[t] \in InFree PROVE UsedAt(DataAt(t))
  <2>1. UsedAt(loc[t].res)
    BY <1>1, <1>4 DEF CallOK, FreeOK, Got
  <2> QED BY <1>4, <2>1 DEF InFree, DataAt
<1>5. pc[t] # "zero"
  BY <1>1 DEF CallOK
<1>6. ASSUME pc[t] = "return" PROVE UsedAt(DataAt(t))
  <2>1. UsedAt(loc[t].res)
    BY <1>1, <1>6 DEF CallOK, Got
  <2> QED BY <1>6, <2>1 DEF DataAt
<1>7. ASSUME pc[t] \in InRealloc \cup InCopy PROVE UsedAt(DataAt(t))
  <2>1. UsedAt(loc[t].ptr)
    BY <1>1, <1>7 DEF CallOK
  <2> QED BY <1>7, <2>1 DEF InRealloc, InCopy, DataAt
<1>8. ASSUME pc[t] \in InRelock PROVE UsedAt(DataAt(t))
  <2>1. UsedAt(loc[t].res)
    BY <1>1, <1>8 DEF CallOK, Got
  <2> QED BY <1>8, <2>1 DEF InRelock, DataAt
<1>9. UsedAt(DataAt(t))
  BY <1>1, <1>2, <1>3, <1>4, <1>5, <1>6, <1>7, <1>8
     DEF CallOK, Labels, Out, Wait, In, InMalloc, InFree, InRealloc, InCopy, InRelock
<1>10. DataAt(t) \in {loc[t].ptr, loc[t].res}
  BY DataPlace
<1>11. DataAt(t) \in Addr /\ DataAt(t) \in Int /\ DataAt(t) # 0
  BY <1>1, <1>9, <1>10, SaneTypes DEF Sane, UsedAt
<1>12. Size(DataAt(t) - 1) \in Int
  BY <1>1, <1>9, SaneTypes, TilesFacts DEF Sane, UsedAt, Size
<1>13. DataSize(t) \in Int /\ DataSize(t) <= Size(DataAt(t) - 1)
  BY <1>12, LocalsType, LowestIs DEF DataSize
<1> QED BY <1>9, <1>10, <1>11, <1>12, <1>13 DEF Held

LEMMA DataSizeNext ==
  ASSUME TypeOK', NEW t \in Threads, DataAt(t)' \in Int, DataAt(t)' - 1 \in Addr
  PROVE  DataSize(t)' \in Int
<1>1. mem' \in Memory /\ loc'[t].asked \in Int
  <2>1. mem' \in [Addr -> Cell] /\ loc' \in [Threads -> Locals]
    BY DEF TypeOK
  <2> QED BY <2>1 DEF Memory, Locals
<1>2. PICK d : d = DataAt(t)'
  OBVIOUS
<1>3. mem'[d - 1].c.v \in Int
  BY <1>1, <1>2, AddrInt DEF Memory, Cell, Word
<1>4. Lowest(loc'[t].asked, mem'[d - 1].c.v) \in Int
  BY <1>1, <1>3, LowestIs
<1> QED BY <1>2, <1>4 DEF DataSize, Size

(* The cells of a block in use. *)
LEMMA BlockCell ==
  ASSUME TypeOK, HeapInv, NEW p \in Int, UsedAt(p), NEW n \in Int, n <= Size(p - 1),
         NEW i \in 0 .. n - 1
  PROVE  p + i \in Inside(mem, p - 1) /\ p + i \in Addr
<1>1. mem \in Memory /\ Tiles(mem, hdrs) /\ p - 1 \in hdrs
  BY InvSane, SaneTypes DEF Sane, UsedAt
<1>2. EndOf(mem, p - 1) = p + Size(p - 1) /\ Size(p - 1) \in Int
  BY <1>1, TilesFacts DEF EndOf, Size
<1>3. p + i \in p - 1 + 1 .. p + Size(p - 1) - 1
  BY <1>2
<1>4. p + i \in Inside(mem, p - 1)
  BY <1>2, <1>3 DEF Inside
<1> QED BY <1>1, <1>4, InsideApart

LEMMA UsedKept ==
  ASSUME TypeOK, HeapInv, NEW T, BlocksKept(T), NEW p \in Int, UsedAt(p), p - 1 \notin T,
         NEW n \in Int, n <= Size(p - 1), NEW i \in 0 .. n - 1
  PROVE  mem'[p + i] = mem[p + i]
<1>1. p + i \in Inside(mem, p - 1) /\ p - 1 \in hdrs \ T
  BY BlockCell DEF UsedAt
<1> QED BY <1>1 DEF BlocksKept, Keeps

(* Where the data of a realloc does not move. *)
LEMMA DataStays ==
  ASSUME TypeOK, HeapInv, TypeOK', NEW t \in Threads, NEW T, BlocksKept(T),
         DataAt(t)' = DataAt(t), DataAt(t) - 1 \notin T
  PROVE  OwnData(t)
<1> SUFFICES ASSUME loc[t].op = "realloc",
                    NEW i \in 0 .. Lowest(DataSize(t), DataSize(t)') - 1
             PROVE  mem'[DataAt(t)' + i] = mem[DataAt(t) + i]
  BY DEF OwnData
<1>1. /\ UsedAt(DataAt(t)) /\ DataAt(t) \in Int /\ Size(DataAt(t) - 1) \in Int
      /\ DataSize(t) \in Int /\ DataSize(t) <= Size(DataAt(t) - 1)
  BY DataHeld
<1>2. DataAt(t) - 1 \in Addr
  BY <1>1, InvSane, SaneTypes DEF Sane, UsedAt
<1>3. DataSize(t)' \in Int
  BY <1>1, <1>2, DataSizeNext
<1>4. PICK n : n = Lowest(DataSize(t), DataSize(t)')
  OBVIOUS
<1>5. n \in Int /\ n <= Size(DataAt(t) - 1) /\ i \in 0 .. n - 1
  <2>1. n \in Int /\ n <= DataSize(t)
    BY <1>1, <1>3, <1>4, LowestIs
  <2> QED BY <1>1, <1>4, <2>1
<1>6. mem'[DataAt(t) + i] = mem[DataAt(t) + i]
  BY <1>1, <1>5, UsedKept
<1> QED BY <1>6

(* A step that writes at most into free chunks and those in its hands, and *)
(* keeps its own data.                                                     *)
LEMMA DataOfStep ==
  ASSUME TypeOK, HeapInv, TypeOK', NEW t \in Threads, Others(t), NEW T, BlocksKept(T),
         \A g \in T : g \in FreeChunks \/ g + 1 \in Held(t), OwnData(t)
  PROVE  DataStep
<1>1. ASSUME NEW p \in Int, UsedAt(p), p \notin Held(t) PROVE p - 1 \notin T
  <2>1. p - 1 \notin FreeChunks /\ p - 1 + 1 = p
    BY <1>1 DEF UsedAt, FreeChunks
  <2> QED BY <1>1, <2>1
<1>2. BlockData
  <2> SUFFICES ASSUME NEW p \in DOMAIN owned, NEW i \in 0 .. owned[p] - 1
               PROVE  mem'[p + i] = mem[p + i]
    BY DEF BlockData
  <2>1. UsedAt(p) /\ owned[p] <= Size(p - 1) /\ p \in Int /\ owned[p] \in Int
    <3>1. UsedAt(p) /\ Size(p - 1) >= owned[p] /\ p \in Int /\ owned[p] \in Nat
      BY UsedBlocks, TypeOKMemory
    <3>2. Size(p - 1) \in Int
      BY <3>1, InvSane, SaneTypes, TilesFacts DEF UsedAt, Size, Sane
    <3> QED BY <3>1, <3>2
  <2>2. p \notin Held(t)
    BY DEF HeapInv, BlocksAccountedFor
  <2> QED BY <1>1, <2>1, <2>2, UsedKept
<1>3. ASSUME NEW u \in Threads PROVE OwnData(u)
  <2>1. CASE u = t
    BY <2>1
  <2>2. CASE u # t
    <3>1. CASE loc[u].op # "realloc"
      BY <3>1 DEF OwnData
    <3>2. CASE loc[u].op = "realloc"
      <4>1. pc'[u] = pc[u] /\ loc'[u] = loc[u]
        BY <2>2 DEF Others
      <4>2. DataAt(u)' = DataAt(u)
        BY <4>1, DataPlace
      <4>3. UsedAt(DataAt(u)) /\ DataAt(u) \in Int /\ DataAt(u) \in Held(u)
        BY <3>2, DataHeld
      <4>4. DataAt(u) \notin Held(t)
        BY <2>2, <4>3 DEF HeapInv, BlocksAccountedFor
      <4>5. DataAt(u) - 1 \notin T
        BY <1>1, <4>3, <4>4
      <4> QED BY <4>2, <4>5, DataStays
    <3> QED BY <3>1, <3>2
  <2> QED BY <2>1, <2>2
<1> QED BY <1>2, <1>3 DEF DataStep

(* Most steps write nothing. *)
LEMMA DataQuiet ==
  ASSUME TypeOK, HeapInv, TypeOK', NEW t \in Threads, Others(t), mem' = mem,
         loc[t].op = "realloc" /\ loc'[t].op = "realloc" => DataAt(t)' = DataAt(t)
  PROVE  DataStep
<1>1. BlocksKept({})
  BY DEF BlocksKept, Keeps
<1>2. OwnData(t)
  <2>1. CASE loc[t].op = "realloc" /\ loc'[t].op = "realloc"
    BY <1>1, <2>1, DataStays
  <2>2. CASE ~(loc[t].op = "realloc" /\ loc'[t].op = "realloc")
    BY <2>2 DEF OwnData
  <2> QED BY <2>1, <2>2
<1> QED BY <1>1, <1>2, DataOfStep

LEMMA DataCall ==
  ASSUME TypeOK, HeapInv, TypeOK', NEW t \in Threads, Call(t)
  PROVE  DataStep
<1>1. pc[t] = "idle" /\ mem' = mem
  BY DEF Call, CallMalloc, CallCalloc, CallFree, CallRealloc, heap
<1>2. loc[t].op # "realloc"
  BY <1>1, IdleCall DEF NoCall
<1>3. Others(t)
  <2>1. \A u \in Threads \ {t} : pc'[u] = pc[u]
    BY TypeOKMemory DEF Call, CallMalloc, CallCalloc, CallFree, CallRealloc, Goto
  <2>2. \A u \in Threads \ {t} : loc'[u] = loc[u]
    BY TypeOKMemory DEF Call, CallMalloc, CallCalloc, CallFree, CallRealloc
  <2> QED BY <2>1, <2>2 DEF Others
<1> QED BY <1>1, <1>2, <1>3, DataQuiet

LEMMA DataReturn ==
  ASSUME TypeOK, HeapInv, TypeOK', NEW t \in Threads, Return(t)
  PROVE  DataStep
<1>1. mem' = mem /\ Goto(t, "idle") /\ loc' = [loc EXCEPT ![t] = NoCall]
  BY DEF Return, heap
<1>2. Others(t) /\ loc'[t].op # "realloc"
  <2>1. pc'[t] = "idle" /\ \A u \in Threads \ {t} : pc'[u] = pc[u]
    BY <1>1, GotoFacts
  <2>2. loc'[t] = NoCall /\ \A u \in Threads \ {t} : loc'[u] = loc[u]
    BY <1>1, LocalsSet
  <2> QED BY <2>1, <2>2 DEF Others, NoCall
<1> QED BY <1>1, <1>2, DataQuiet

LEMMA DataLock ==
  ASSUME TypeOK, HeapInv, TypeOK', NEW t \in Threads, NEW wait, NEW in, NEW l,
         TakeLock(t, wait, in, l), l.ptr = loc[t].ptr, l.res = loc[t].res,
         wait \in InOld <=> in \in InOld
  PROVE  DataStep
<1>1. mem' = mem /\ pc[t] = wait
  BY DEF TakeLock, heap
<1>2. Others(t) /\ DataAt(t)' = DataAt(t)
  <2>1. CASE lock = 0
    <3>1. pc'[t] = in /\ loc'[t] = l /\ Others(t)
      BY <2>1, GotoFacts, LocalsSet DEF TakeLock, Others
    <3> QED BY <1>1, <3>1, DataPlace
  <2>2. CASE lock # 0
    BY <2>2, DataPlace DEF TakeLock, Others
  <2> QED BY <2>1, <2>2
<1> QED BY <1>1, <1>2, DataQuiet

(* A step with no store, on one side of the copy. *)
LEMMA DataGoto ==
  ASSUME TypeOK, HeapInv, TypeOK', NEW t \in Threads, NEW label, Goto(t, label), UNCHANGED heap,
         \A u \in Threads \ {t} : loc'[u] = loc[u],
         loc'[t].ptr = loc[t].ptr, loc'[t].res = loc[t].res,
         pc[t] \in InOld <=> label \in InOld
  PROVE  DataStep
<1>1. pc'[t] = label /\ Others(t) /\ mem' = mem
  BY GotoFacts DEF Others, heap
<1>2. DataAt(t)' = DataAt(t)
  BY <1>1, DataPlace
<1> QED BY <1>1, <1>2, DataQuiet

LEMMA DataMallocQuiet ==
  ASSUME TypeOK, HeapInv, TypeOK', NEW t \in Threads,
         MallocEnter(t) \/ MallocLock(t) \/ Search(t) \/ MallocFails(t)
  PROVE  DataStep
<1>1. CASE MallocEnter(t)
  <2>1. CASE loc[t].size = 0
    <3>1. pc[t] = "malloc" /\ MallocReturns(t, 0) /\ mem' = mem
      BY <1>1, <2>1 DEF MallocEnter, heap
    <3>2. /\ Others(t) /\ loc'[t].op = loc[t].op /\ loc'[t].ptr = loc[t].ptr
          /\ loc[t].op = "realloc" => pc'[t] = "copy"
      BY <3>1, MallocReturned
    <3>3. loc[t].op = "realloc" => DataAt(t)' = DataAt(t)
      BY <3>1, <3>2, DataPlace DEF InOld
    <3> QED BY <3>1, <3>2, <3>3, DataQuiet
  <2>2. CASE loc[t].size # 0
    BY <1>1, <2>2, DataGoto DEF MallocEnter, InOld
  <2> QED BY <2>1, <2>2
<1>2. CASE MallocLock(t)
  <2>1. PICK f : TakeLock(t, "malloc_lock", "search",
                          [loc[t] EXCEPT !.size = Align(loc[t].size), !.best = 0, !.f = f])
    BY <1>2 DEF MallocLock
  <2> DEFINE l == [loc[t] EXCEPT !.size = Align(loc[t].size), !.best = 0, !.f = f]
  <2>2. l.ptr = loc[t].ptr /\ l.res = loc[t].res
    BY LocalsType DEF Locals
  <2> HIDE DEF l
  <2>3. TakeLock(t, "malloc_lock", "search", l)
    BY <2>1 DEF l
  <2> QED BY <2>2, <2>3, DataLock DEF InOld
<1>3. CASE Search(t)
  <2>1. PICK f, b : loc' = [loc EXCEPT ![t].f = f, ![t].best = b]
    BY <1>3 DEF Search
  <2>2. /\ loc'[t].ptr = loc[t].ptr /\ loc'[t].res = loc[t].res
        /\ \A u \in Threads \ {t} : loc'[u] = loc[u]
    BY <2>1, TypeOKMemory DEF Locals
  <2>3. pc' = pc /\ mem' = mem
    BY <1>3 DEF Search, heap
  <2>4. Others(t) /\ DataAt(t)' = DataAt(t)
    BY <2>2, <2>3, DataPlace DEF Others
  <2> QED BY <2>3, <2>4, DataQuiet
<1>4. CASE MallocFails(t)
  BY <1>4, DataGoto DEF MallocFails, InOld
<1> QED BY <1>1, <1>2, <1>3, <1>4

LEMMA DataFreeQuiet ==
  ASSUME TypeOK, HeapInv, TypeOK', NEW t \in Threads,
         FreeEnter(t) \/ FreeLock(t) \/ AssignWalk(t)
  PROVE  DataStep
<1>1. CASE FreeEnter(t)
  <2>1. pc[t] = "free" /\ UNCHANGED heap
    BY <1>1 DEF FreeEnter
  <2>2. CASE Goto(t, "panic") /\ UNCHANGED loc
    BY <2>1, <2>2, DataGoto DEF InOld
  <2>3. CASE /\ Goto(t, "free_lock")
             /\ loc' = [loc EXCEPT ![t].nxt = NextHeader(mem, Wrap(loc[t].ptr - 1))]
    <3>1. PICK n : loc' = [loc EXCEPT ![t].nxt = n]
      BY <2>3
    <3>2. /\ loc'[t].ptr = loc[t].ptr /\ loc'[t].res = loc[t].res
          /\ \A u \in Threads \ {t} : loc'[u] = loc[u]
      BY <3>1, TypeOKMemory DEF Locals
    <3> QED BY <2>1, <2>3, <3>2, DataGoto DEF InOld
  <2> QED BY <1>1, <2>2, <2>3 DEF FreeEnter
<1>2. CASE FreeLock(t)
  <2>1. TakeLock(t, "free_lock", "merge", loc[t])
    BY <1>2 DEF FreeLock
  <2> QED BY <2>1, DataLock DEF InOld
<1>3. CASE AssignWalk(t)
  <2>1. PICK f : loc' = [loc EXCEPT ![t].f = f]
    BY <1>3 DEF AssignWalk
  <2>2. /\ loc'[t].ptr = loc[t].ptr /\ loc'[t].res = loc[t].res
        /\ \A u \in Threads \ {t} : loc'[u] = loc[u]
    BY <2>1, TypeOKMemory DEF Locals
  <2>3. pc' = pc /\ mem' = mem
    BY <1>3 DEF AssignWalk, heap
  <2>4. Others(t) /\ DataAt(t)' = DataAt(t)
    BY <2>2, <2>3, DataPlace DEF Others
  <2> QED BY <2>3, <2>4, DataQuiet
<1> QED BY <1>1, <1>2, <1>3

LEMMA DataReallocQuiet ==
  ASSUME TypeOK, HeapInv, TypeOK', NEW t \in Threads,
         \/ ReallocLock(t) \/ ReallocKeep(t) \/ ReallocRelocate(t) \/ CopyEnter(t) \/ CopyLock(t)
         \/ RelockEnter(t) \/ Relock(t) \/ ReallocEnd(t)
  PROVE  DataStep
<1>1. CASE ReallocLock(t)
  <2>1. PICK n : TakeLock(t, "realloc_lock", "resize", [loc[t] EXCEPT !.size = n])
    BY <1>1 DEF ReallocLock
  <2>2. PICK l : l = [loc[t] EXCEPT !.size = n]
    OBVIOUS
  <2>3. l.ptr = loc[t].ptr /\ l.res = loc[t].res
    BY <2>2, LocalsType DEF Locals
  <2>4. TakeLock(t, "realloc_lock", "resize", l)
    BY <2>1, <2>2
  <2> QED BY <2>3, <2>4, DataLock DEF InOld
<1>2. CASE ReallocKeep(t)
  <2>1. pc[t] = "resize" /\ ReallocReturns(t, loc[t].ptr) /\ mem' = mem
    BY <1>2 DEF ReallocKeep, heap
  <2>2. Others(t) /\ pc'[t] = "return" /\ loc'[t].res = loc[t].ptr
    BY <2>1, ReallocReturned
  <2>3. DataAt(t)' = DataAt(t)
    BY <2>1, <2>2, DataPlace DEF InOld
  <2> QED BY <2>1, <2>2, <2>3, DataQuiet
<1>3. CASE ReallocRelocate(t) \/ CopyEnter(t) \/ RelockEnter(t)
  BY <1>3, DataGoto DEF ReallocRelocate, CopyEnter, RelockEnter, InOld
<1>4. CASE CopyLock(t) \/ Relock(t)
  BY <1>4, DataLock DEF CopyLock, Relock, InOld
<1>5. CASE ReallocEnd(t)
  <2>1. pc[t] = "realloc_end" /\ ReallocReturns(t, loc[t].res) /\ mem' = mem
    BY <1>5 DEF ReallocEnd, heap
  <2>2. Others(t) /\ pc'[t] = "return" /\ loc'[t].res = loc[t].res
    BY <2>1, ReallocReturned
  <2>3. DataAt(t)' = DataAt(t)
    BY <2>1, <2>2, DataPlace DEF InOld
  <2> QED BY <2>1, <2>2, <2>3, DataQuiet
<1> QED BY <1>1, <1>2, <1>3, <1>4, <1>5

(* The stores of calloc, memcpy and the clients, all in one block. *)
LEMMA BlockOnly ==
  ASSUME TypeOK, HeapInv, NEW p \in Addr, UsedAt(p), NEW n \in Int, n <= Size(p - 1),
         WritesBlock(p, n)
  PROVE  BlocksKept({p - 1})
<1>1. mem \in Memory /\ Tiles(mem, hdrs)
  BY InvSane, SaneTypes DEF Sane
<1> SUFFICES ASSUME NEW g \in hdrs \ {p - 1}, NEW a \in Inside(mem, g) PROVE mem'[a] = mem[a]
  BY DEF BlocksKept, Keeps
<1>2. a \in Addr /\ \A k \in hdrs : k # g => a \notin Inside(mem, k)
  BY <1>1, InsideApart
<1>3. ~(Wrap(a - p) < n)
  <2>1. a \notin Inside(mem, p - 1)
    BY <1>2 DEF UsedAt
  <2> QED BY <1>2, <2>1, InBlock
<1> QED BY <1>2, <1>3 DEF WritesBlock

LEMMA DataZero ==
  ASSUME TypeOK, HeapInv, TypeOK', NEW t \in Threads, CallocZero(t)
  PROVE  DataStep
<1> DEFINE r == loc[t].res
           n == loc[t].size
<1>1. /\ pc[t] = "zero" /\ dibbs' = dibbs /\ hdrs' = hdrs /\ loc' = loc
      /\ \A a \in Addr : Wrap(a - r) < n \/ mem'[a] = mem[a]
  BY DEF CallocZero
<1>2. loc[t].op # "realloc" /\ IF r = 0 THEN n = 0 ELSE UsedAt(r) /\ n <= Size(r - 1)
  BY <1>1 DEF HeapInv, Calls, CallOK
<1>3. r \in Addr /\ r \in Int /\ n \in Int
  BY LocalsType
<1>4. Others(t) /\ OwnData(t)
  BY <1>1, <1>2, GotoFacts DEF CallocZero, Others, OwnData
<1>5. CASE r = 0
  <2>1. \A a \in Addr : mem'[a] = mem[a]
    BY <1>1, <1>2, <1>3, <1>5, Geometry DEF Wrap, Addr
  <2>2. mem \in Memory /\ Tiles(mem, hdrs)
    BY InvSane, SaneTypes DEF Sane
  <2>3. BlocksKept({})
    BY <2>1, <2>2, InsideApart DEF BlocksKept, Keeps
  <2> QED BY <1>4, <2>3, DataOfStep
<1>6. CASE r # 0
  <2>1. WritesBlock(r, n)
    BY <1>1 DEF WritesBlock
  <2>2. BlocksKept({r - 1})
    BY <1>2, <1>3, <1>6, <2>1, BlockOnly
  <2>3. r \in Held(t) /\ r - 1 + 1 = r
    BY <1>3, <1>6 DEF Held
  <2> HIDE DEF r
  <2>4. \A g \in {r - 1} : g + 1 \in Held(t)
    BY <2>3
  <2> QED BY <1>4, <2>2, <2>4, DataOfStep
<1> QED BY <1>5, <1>6

(* memcpy brings the data to the new block. *)
LEMMA DataCopy ==
  ASSUME TypeOK, HeapInv, TypeOK', NEW t \in Threads, Copy(t)
  PROVE  DataStep
<1>1. PICK to, from, n : to = loc[t].res /\ from = loc[t].ptr /\ n = Current(t)
  OBVIOUS
<1>2. /\ pc[t] = "memcpy" /\ dibbs' = dibbs /\ hdrs' = hdrs /\ loc' = loc /\ Goto(t, "free")
      /\ mem' = [a \in Addr |-> IF Wrap(a - to) < n THEN mem[Wrap(from + Wrap(a - to))] ELSE mem[a]]
  BY <1>1 DEF Copy
<1>3. /\ loc[t].op = "realloc" /\ UsedAt(from) /\ UsedAt(to) /\ to # from
      /\ Size(from - 1) < loc[t].size /\ loc[t].size <= Size(to - 1)
  BY <1>1, <1>2 DEF HeapInv, Calls, CallOK, InCopy, Got
<1>4. /\ to \in Addr /\ to \in Int /\ from \in Addr /\ from \in Int
      /\ n = Size(from - 1) /\ n \in Int /\ Size(to - 1) \in Int /\ loc[t].size \in Int
  <2>1. Size(to - 1) \in Int
    BY <1>3, InvSane, SaneTypes, TilesFacts DEF UsedAt, Size, Sane
  <2> QED BY <1>1, <1>3, <2>1, ReallocCall, LocalsType
<1>5. n <= Size(to - 1)
  BY <1>3, <1>4
<1>6. BlocksKept({to - 1})
  <2>1. WritesBlock(to, n)
    BY <1>2 DEF WritesBlock
  <2> QED BY <1>3, <1>4, <1>5, <2>1, BlockOnly
<1>7. pc'[t] = "free" /\ Others(t)
  BY <1>2, GotoFacts DEF Others
<1>8. DataAt(t) = from /\ DataAt(t)' = to
  BY <1>1, <1>2, <1>7, DataPlace DEF InOld
<1>9. ASSUME NEW i \in 0 .. n - 1 PROVE mem'[to + i] = mem[from + i]
  <2>1. to + i \in Addr /\ from + i \in Addr
    BY <1>3, <1>4, <1>5, <1>9, BlockCell
  <2>2. i \in Addr
    BY <1>4, <1>9, <2>1, Geometry DEF Addr
  <2>3. PICK a : a = to + i
    OBVIOUS
  <2>4. a - to = i /\ a \in Addr
    BY <1>4, <2>1, <2>3
  <2>5. Wrap(a - to) = i /\ Wrap(from + i) = from + i /\ i < n
    BY <1>4, <1>9, <2>1, <2>2, <2>4, WrapIn
  <2>6. mem'[a] = mem[from + i]
    BY <1>2, <2>4, <2>5
  <2> QED BY <2>3, <2>6
<1>10. OwnData(t)
  <2> SUFFICES ASSUME NEW i \in 0 .. Lowest(DataSize(t), DataSize(t)') - 1
               PROVE  mem'[DataAt(t)' + i] = mem[DataAt(t) + i]
    BY DEF OwnData
  <2>1. DataSize(t) \in Int /\ DataSize(t) <= n
    BY <1>3, <1>4, <1>8, DataHeld
  <2>2. DataSize(t)' \in Int
    <3>1. DataAt(t)' - 1 \in Addr
      BY <1>3, <1>8, InvSane, SaneTypes DEF UsedAt, Sane
    <3> QED BY <1>4, <1>8, <3>1, DataSizeNext
  <2>3. PICK k : k = Lowest(DataSize(t), DataSize(t)')
    OBVIOUS
  <2>4. k \in Int /\ k <= n
    <3>1. k \in Int /\ k <= DataSize(t)
      BY <2>1, <2>2, <2>3, LowestIs
    <3> QED BY <1>4, <2>1, <3>1
  <2>5. i \in 0 .. n - 1
    BY <1>4, <2>3, <2>4
  <2> QED BY <1>8, <1>9, <2>5
<1>11. to \in Held(t) /\ to - 1 + 1 = to
  <2>1. to # 0
    BY <1>3, InvSane, SaneTypes DEF UsedAt, Sane
  <2> QED BY <1>1, <1>4, <2>1 DEF Held
<1>12. \A g \in {to - 1} : g + 1 \in Held(t)
  BY <1>11
<1> QED BY <1>6, <1>7, <1>10, <1>12, DataOfStep

LEMMA ListedFree == \A g \in Listed : g \in FreeChunks
  BY DEF Listed

LEMMA DataMallocTakes ==
  ASSUME TypeOK, HeapInv, Alone, TypeOK', NEW t \in Threads, MallocPerfect(t) \/ MallocSplit(t)
  PROVE  DataStep
<1>1. PICK r : MallocReturns(t, r) /\ pc[t] = "search"
  BY DEF MallocPerfect, MallocSplit
<1>2. BlocksKept(Listed)
  BY MallocPerfectInv, MallocSplitInv
<1>3. /\ Others(t) /\ loc'[t].ptr = loc[t].ptr
      /\ loc[t].op = "realloc" => pc'[t] = "copy"
  BY <1>1, MallocReturned
<1>4. OwnData(t)
  <2>1. CASE loc[t].op = "realloc"
    <3>1. DataAt(t)' = DataAt(t)
      BY <1>1, <1>3, <2>1, DataPlace DEF InOld
    <3>2. DataAt(t) - 1 \notin Listed
      BY <2>1, DataHeld, ListedFree DEF UsedAt, FreeChunks
    <3> QED BY <1>2, <3>1, <3>2, DataStays
  <2>2. CASE loc[t].op # "realloc"
    BY <2>2 DEF OwnData
  <2> QED BY <2>1, <2>2
<1> QED BY <1>2, <1>3, <1>4, ListedFree, DataOfStep

(* free writes into the chunk it is given, never into what realloc moved   *)
(* the data to.                                                            *)
LEMMA DataFrees ==
  ASSUME TypeOK, HeapInv, Alone, TypeOK', NEW t \in Threads,
         AssignFirst(t) \/ AssignInsert(t) \/ (FreeMerge(t) /\ ~MergesLoose(t))
  PROVE  DataStep
<1>1. PICK h : h = loc[t].ptr - 1
  OBVIOUS
<1>2. BlocksKept(Listed \cup {h})
  BY <1>1, AssignFirstInv, AssignInsertInv, FreeMergeInv
<1>3. pc[t] \in {"merge", "assign_ptr"} /\ pc[t] \in InFree
  BY DEF AssignFirst, AssignInsert, Between, FreeMerge, InFree
<1>4. Others(t) /\ loc'[t].res = loc[t].res /\ pc'[t] \notin InOld
  <2>1. CASE FreeReturns(t)
    BY <2>1, FreeReturned DEF InOld
  <2>2. CASE /\ Goto(t, "assign_ptr")
             /\ loc' = [loc EXCEPT ![t].f = Wrap(dibbs + 1), ![t].nxt = 0]
    <3>1. loc'[t].res = loc[t].res /\ \A u \in Threads \ {t} : loc'[u] = loc[u]
      BY <2>2, TypeOKMemory DEF Locals
    <3>2. pc'[t] = "assign_ptr" /\ \A u \in Threads \ {t} : pc'[u] = pc[u]
      BY <2>2, GotoFacts
    <3> QED BY <3>1, <3>2 DEF Others, InOld
  <2> QED BY <2>1, <2>2 DEF AssignFirst, AssignInsert, FreeMerge
<1>5. FreeOK(t) /\ loc[t].ptr \in Int /\ loc[t].ptr = h + 1 /\ loc[t].ptr # 0 /\ loc[t].res \in Int
  BY <1>1, <1>3, FreeCall, LocalsType
<1>6. h + 1 \in Held(t)
  BY <1>5 DEF Held
<1>7. OwnData(t)
  <2>1. CASE loc[t].op = "realloc"
    <3>1. DataAt(t) = loc[t].res /\ DataAt(t)' = loc[t].res
      BY <1>3, <1>4, DataPlace DEF InOld
    <3>2. loc[t].res - 1 \notin Listed
      BY <2>1, <3>1, DataHeld, ListedFree DEF UsedAt, FreeChunks
    <3>3. loc[t].res - 1 # h
      <4>1. loc[t].res # loc[t].ptr
        BY <1>5, <2>1 DEF FreeOK
      <4> QED BY <1>1, <1>5, <4>1
    <3> QED BY <1>2, <3>1, <3>2, <3>3, DataStays
  <2>2. CASE loc[t].op # "realloc"
    BY <2>2 DEF OwnData
  <2> QED BY <2>1, <2>2
<1>8. \A g \in Listed \cup {h} : g \in FreeChunks \/ g + 1 \in Held(t)
  BY <1>6, ListedFree
<1> QED BY <1>2, <1>4, <1>7, <1>8, DataOfStep

(* realloc in place: the block keeps its address.                          *)
LEMMA DataInPlace ==
  ASSUME TypeOK, HeapInv, TypeOK', NEW t \in Threads, pc[t] = "resize", NEW n \in Int,
         n <= Size(loc[t].ptr - 1), StartKept(loc[t].ptr, n), DataAt(t)' = loc[t].ptr,
         Lowest(DataSize(t), DataSize(t)') <= n
  PROVE  OwnData(t)
<1> SUFFICES ASSUME NEW i \in 0 .. Lowest(DataSize(t), DataSize(t)') - 1
             PROVE  mem'[DataAt(t)' + i] = mem[DataAt(t) + i]
  BY DEF OwnData
<1>1. PICK p, k : p = loc[t].ptr /\ k = Lowest(DataSize(t), DataSize(t)')
  OBVIOUS
<1>2. UsedAt(p) /\ p \in Int /\ p - 1 \in Addr /\ loc[t].op = "realloc"
  BY <1>1, ResizeCall, LocalsType, InvSane, SaneTypes DEF UsedAt, Sane
<1>3. DataAt(t) = p
  BY <1>1, DataPlace DEF InOld
<1>4. k \in Int
  BY <1>1, <1>2, <1>3, DataHeld, DataSizeNext, LowestIs
<1>5. i \in 0 .. n - 1
  BY <1>1, <1>4
<1>6. p + i \in Addr
  BY <1>1, <1>2, <1>5, BlockCell
<1>7. p <= p + i /\ p + i < p + n
  BY <1>2, <1>5
<1>8. mem'[p + i] = mem[p + i]
  BY <1>1, <1>6, <1>7 DEF StartKept
<1> QED BY <1>1, <1>3, <1>8

LEMMA DataResizes ==
  ASSUME TypeOK, HeapInv, Alone, TypeOK', NEW t \in Threads, ~GrowsIntoFirst(t),
         ReallocAbsorb(t) \/ ReallocUpgrade(t) \/ ReallocReduce(t)
  PROVE  DataStep
<1>1. pc[t] = "resize"
  BY DEF ReallocAbsorb, ReallocUpgrade, ReallocReduce
<1>2. PICK p, h : p = loc[t].ptr /\ h = p - 1
  OBVIOUS
<1>3. /\ UsedAt(p) /\ p \in Int /\ p # 0 /\ h \in Addr /\ h + 1 = p /\ loc[t].op = "realloc"
      /\ DataAt(t) = p /\ Size(h) \in Int /\ DataSize(t) \in Int /\ DataSize(t) <= Size(h)
  <2>1. UsedAt(p) /\ p # 0 /\ loc[t].op = "realloc"
    BY <1>1, <1>2, ResizeCall
  <2>2. DataAt(t) = p
    BY <1>1, <1>2, DataPlace DEF InOld
  <2>3. p \in Int /\ Size(h) \in Int /\ DataSize(t) \in Int /\ DataSize(t) <= Size(h)
    BY <1>2, <2>1, <2>2, DataHeld
  <2>4. h \in Addr
    BY <1>2, <2>1, InvSane, SaneTypes DEF UsedAt, Sane
  <2> QED BY <1>2, <2>1, <2>2, <2>3, <2>4
<1>4. h + 1 \in Held(t) /\ h \notin Listed
  BY <1>2, <1>3, ListedFree DEF Held, UsedAt, FreeChunks
<1>5. \A g \in Listed \cup {h} : g \in FreeChunks \/ g + 1 \in Held(t)
  BY <1>4, ListedFree
<1>6. Others(t) /\ loc'[t].res = p /\ pc'[t] \notin InOld
  <2>1. CASE ReallocAbsorb(t) \/ ReallocUpgrade(t)
    <3>1. ReallocReturns(t, loc[t].ptr)
      BY <2>1 DEF ReallocAbsorb, ReallocUpgrade
    <3> QED BY <1>2, <3>1, ReallocReturned DEF InOld
  <2>2. CASE ReallocReduce(t)
    <3>1. PICK n : loc' = [loc EXCEPT ![t].res = loc[t].ptr, ![t].ptr = n]
      BY <2>2 DEF ReallocReduce
    <3>2. loc'[t].res = p /\ \A u \in Threads \ {t} : loc'[u] = loc[u]
      BY <1>2, <3>1, TypeOKMemory DEF Locals
    <3>3. Goto(t, "free")
      BY <2>2 DEF ReallocReduce
    <3>4. pc'[t] = "free" /\ \A u \in Threads \ {t} : pc'[u] = pc[u]
      BY <3>3, GotoFacts
    <3> QED BY <3>2, <3>4 DEF Others, InOld
  <2> QED BY <2>1, <2>2
<1>7. DataAt(t)' = p
  BY <1>6, DataPlace
<1>8. DataSize(t)' \in Int
  BY <1>2, <1>3, <1>7, DataSizeNext
<1>9. CASE ReallocAbsorb(t)
  <2>1. BlocksKept(Listed)
    BY <1>9, ReallocAbsorbInv
  <2>2. OwnData(t)
    BY <1>2, <1>3, <1>4, <1>7, <2>1, DataStays
  <2> QED BY <1>6, <2>1, <2>2, ListedFree, DataOfStep
<1>10. CASE ReallocUpgrade(t)
  <2>1. BlocksKept(Listed \cup {h}) /\ StartKept(p, Size(h))
    BY <1>2, <1>10, ReallocUpgradeInv
  <2>2. Lowest(DataSize(t), DataSize(t)') <= Size(h)
    <3>1. PICK k : k = Lowest(DataSize(t), DataSize(t)')
      OBVIOUS
    <3>2. k \in Int /\ k <= DataSize(t)
      BY <1>3, <1>8, <3>1, LowestIs
    <3>3. k <= Size(h)
      BY <1>3, <3>2
    <3> QED BY <3>1, <3>3
  <2>3. OwnData(t)
    BY <1>1, <1>2, <1>3, <1>7, <2>1, <2>2, DataInPlace
  <2> QED BY <1>5, <1>6, <2>1, <2>3, DataOfStep
<1>11. CASE ReallocReduce(t)
  <2>1. PICK n : n = loc[t].size
    OBVIOUS
  <2>2. BlocksKept({h}) /\ StartKept(p, n) /\ mem'[h].c.v = n
    BY <1>2, <1>11, <2>1, ReallocReduceInv
  <2>3. n \in Int /\ n <= Size(h)
    BY <1>2, <1>3, <1>11, <2>1, ReallocCall, LocalsType DEF ReallocReduce
  <2>4. DataSize(t)' <= n
    <3>1. loc'[t].asked \in Int
      BY DEF TypeOK, Locals
    <3>2. DataSize(t)' = Lowest(loc'[t].asked, mem'[h].c.v)
      BY <1>2, <1>7 DEF DataSize, Size
    <3> QED BY <2>2, <2>3, <3>1, <3>2, LowestIs
  <2>5. Lowest(DataSize(t), DataSize(t)') <= n
    <3>1. PICK k, m : k = Lowest(DataSize(t), DataSize(t)') /\ m = DataSize(t)'
      OBVIOUS
    <3>2. m \in Int /\ m <= n /\ k = Lowest(DataSize(t), m)
      BY <1>8, <2>4, <3>1
    <3>3. k \in Int /\ k <= m
      BY <1>3, <3>2, LowestIs
    <3>4. k <= n
      BY <2>3, <3>2, <3>3
    <3> QED BY <3>1, <3>4
  <2>6. OwnData(t)
    BY <1>1, <1>2, <1>7, <2>2, <2>3, <2>5, DataInPlace
  <2>7. \A g \in {h} : g + 1 \in Held(t)
    BY <1>4
  <2> QED BY <1>6, <2>2, <2>6, <2>7, DataOfStep
<1> QED BY <1>9, <1>10, <1>11

LEMMA NextData ==
  ASSUME TypeOK, HeapInv, Alone, TypeOK', [Next /\ Sound]_vars
  PROVE  [Write \/ DataStep]_vars
<1>1. ASSUME NEW t \in Threads, Call(t) PROVE DataStep
  BY <1>1, DataCall
<1>2. ASSUME NEW t \in Threads, Step(t), Sound PROVE DataStep
  <2>1. ~GrowsIntoFirst(t) /\ ~MergesLoose(t)
    BY <1>2 DEF Sound
  <2>2. CASE Malloc(t)
    BY <2>2, DataMallocQuiet, DataMallocTakes, DataZero DEF Malloc
  <2>3. CASE Free(t)
    BY <2>1, <2>3, DataFreeQuiet, DataFrees DEF Free
  <2>4. CASE Realloc(t)
    BY <2>1, <2>4, DataReallocQuiet, DataResizes, DataCopy DEF Realloc
  <2>5. CASE Return(t)
    BY <2>5, DataReturn
  <2> QED BY <1>2, <2>2, <2>3, <2>4, <2>5 DEF Step
<1>3. ASSUME NEW t \in Threads, Halt(t) PROVE UNCHANGED vars
  BY <1>3 DEF Halt
<1> QED BY <1>1, <1>2, <1>3 DEF Next

(* The allocator never writes into a block that a client holds, whoever    *)
(* splits, merges, moves or zeroes what beside it; and the data of a       *)
(* realloc comes with it, through every step between its call and its      *)
(* return, for any threads and any requests.                               *)
THEOREM DataSound == ASSUME FittingHeap PROVE SoundSpec => DataKept
<1>1. TypeOK /\ TypeOK' /\ Alone /\ HeapInv /\ [Next /\ Sound]_vars => [Write \/ DataStep]_vars
  BY NextData
<1>2. [Write \/ DataStep]_vars =>
        [Write \/
          /\ \A p \in DOMAIN owned \cap DOMAIN owned' :
               \A i \in 0 .. owned[p] - 1 : mem'[p + i] = mem[p + i]
          /\ \A t \in Threads :
               loc[t].op = "realloc" /\ loc'[t].op = "realloc" =>
                 \A i \in 0 .. Lowest(DataSize(t), DataSize(t)') - 1 :
                   mem'[DataAt(t)' + i] = mem[DataAt(t) + i]]_vars
  BY DEF DataStep, BlockData, OwnData
<1> QED BY <1>1, <1>2, HeapSound, SoundIsSpec, TypeCorrect, OneThreadInside, ExclusionAlone, PTL
        DEF SoundSpec, DataKept

-----------------------------------------------------------------------------
(* A kernel that does not call realloc but to free.                        *)

Plain == \A t \in Threads : loc[t].op # "realloc"

LEMMA PlainIsSound ==
  ASSUME TypeOK, HeapInv, Alone, Plain
  PROVE  Sound
<1> SUFFICES ASSUME NEW t \in Threads PROVE ~GrowsIntoFirst(t) /\ ~MergesLoose(t)
  BY DEF Sound
<1>1. pc[t] # "resize"
  BY ResizeCall DEF Plain
<1>2. ASSUME pc[t] = "merge", NEW h \in Loose
      PROVE  FALSE
  <2>1. PICK u \in Threads : Leaving(u) /\ h = Wrap(loc[u].ptr - 1)
    BY DEF Loose, InTransit
  <2>2. h = loc[u].ptr - 1 /\ FreeOK(u)
    BY <2>1, FreeCall DEF Leaving, InFree
  <2>3. pc[u] # "assign_ptr" => UsedAt(loc[u].ptr)
    BY <2>2 DEF FreeOK, Plain
  <2>4. mem[h].c.f
    BY DEF Loose, FreeChunks
  <2>5. pc[u] = "assign_ptr"
    BY <2>2, <2>3, <2>4 DEF UsedAt
  <2> QED BY <1>2, <2>5 DEF Alone, In
<1> QED BY <1>1, <1>2 DEF GrowsIntoFirst, MergesLoose

LEMMA PlainKept ==
  ASSUME TypeOK, Plain, ReallocSizes \subseteq {0}, [Next]_vars
  PROVE  Plain'
<1>1. loc \in [Threads -> Locals] /\ \A u \in Threads : loc[u] \in Locals
  BY TypeOKMemory
<1>2. ASSUME NEW t \in Threads, NEW l, l.op # "realloc", loc' = [loc EXCEPT ![t] = l]
      PROVE  Plain'
  BY <1>1, <1>2 DEF Plain
<1>3. CASE loc' = loc
  BY <1>3 DEF Plain
<1>4. ASSUME NEW t \in Threads, Call(t) PROVE Plain'
  <2>1. CASE CallMalloc(t)
    <3>1. PICK n \in MallocSizes : loc' = [loc EXCEPT ![t].op = "malloc", ![t].asked = n, ![t].size = n]
      BY <2>1 DEF CallMalloc
    <3> QED BY <1>1, <3>1 DEF Locals, Plain
  <2>2. CASE CallCalloc(t)
    <3>1. PICK c \in CallocCounts : loc' = [loc EXCEPT ![t].op = "calloc", ![t].asked = c[1] * c[2],
                                                       ![t].size = (c[1] * c[2]) % W]
      BY <2>2 DEF CallCalloc
    <3> QED BY <1>1, <3>1 DEF Locals, Plain
  <2>3. CASE CallFree(t)
    BY <1>1, <2>3 DEF CallFree, Locals, Plain
  <2>4. CASE CallRealloc(t)
    <3>1. PICK p \in DOMAIN owned \cup {0}, n \in ReallocSizes :
            loc' = [loc EXCEPT ![t] = [NoCall EXCEPT
                      !.op = IF p = 0 THEN "malloc" ELSE IF n = 0 THEN "free" ELSE "realloc",
                      !.asked = n, !.size = n, !.ptr = p]]
      BY <2>4 DEF CallRealloc
    <3>2. n = 0
      OBVIOUS
    <3>3. PICK l : l = [NoCall EXCEPT !.op = IF p = 0 THEN "malloc" ELSE IF n = 0 THEN "free" ELSE "realloc",
                                      !.asked = n, !.size = n, !.ptr = p]
      OBVIOUS
    <3>4. l.op # "realloc"
      BY <3>2, <3>3 DEF NoCall
    <3> QED BY <1>2, <3>1, <3>3, <3>4
  <2> QED BY <1>4, <2>1, <2>2, <2>3, <2>4 DEF Call
<1>5. ASSUME NEW t \in Threads, NEW r, MallocReturns(t, r) PROVE Plain'
  BY <1>1, <1>5 DEF MallocReturns, Locals, Plain
<1>6. ASSUME NEW t \in Threads, FreeReturns(t) PROVE Plain'
  BY <1>1, <1>6 DEF FreeReturns, Locals, Plain
<1>7. ASSUME NEW t \in Threads, NEW r, ReallocReturns(t, r) PROVE Plain'
  BY <1>1, <1>7 DEF ReallocReturns, Locals, Plain
<1>8. ASSUME NEW t \in Threads, NEW wait, NEW in, NEW l, TakeLock(t, wait, in, l),
             l.op = loc[t].op
      PROVE  Plain'
  BY <1>1, <1>2, <1>3, <1>8 DEF TakeLock, Plain
<1>9. ASSUME NEW t \in Threads, Malloc(t) PROVE Plain'
  <2>1. CASE MallocLock(t)
    <3>1. ([loc[t] EXCEPT !.size = Align(loc[t].size), !.best = 0,
                          !.f = IF mem[dibbs].c # Used(0) THEN Wrap(dibbs + 1) ELSE 0]).op = loc[t].op
      BY <1>1 DEF Locals
    <3> QED BY <1>8, <2>1, <3>1 DEF MallocLock
  <2>2. CASE Search(t)
    BY <1>1, <2>2 DEF Search, Locals, Plain
  <2>3. CASE MallocEnter(t) \/ MallocPerfect(t) \/ MallocSplit(t) \/ MallocFails(t) \/ CallocZero(t)
    BY <1>3, <1>5, <2>3 DEF MallocEnter, MallocPerfect, MallocSplit, MallocFails, CallocZero
  <2> QED BY <1>9, <2>1, <2>2, <2>3 DEF Malloc
<1>10. ASSUME NEW t \in Threads, Free(t) PROVE Plain'
  <2>1. CASE FreeEnter(t)
    BY <1>1, <2>1 DEF FreeEnter, Locals, Plain
  <2>2. CASE FreeLock(t)
    BY <1>8, <2>2 DEF FreeLock
  <2>3. CASE FreeMerge(t)
    <3>1. FreeReturns(t) \/ loc' = [loc EXCEPT ![t].f = Wrap(dibbs + 1), ![t].nxt = 0]
      BY <2>3 DEF FreeMerge
    <3>2. CASE loc' = [loc EXCEPT ![t].f = Wrap(dibbs + 1), ![t].nxt = 0]
      BY <1>1, <3>2 DEF Locals, Plain
    <3> QED BY <1>6, <3>1, <3>2
  <2>4. CASE AssignFirst(t) \/ AssignInsert(t)
    BY <1>6, <2>4 DEF AssignFirst, AssignInsert
  <2>5. CASE AssignWalk(t)
    BY <1>1, <2>5 DEF AssignWalk, Locals, Plain
  <2> QED BY <1>10, <2>1, <2>2, <2>3, <2>4, <2>5 DEF Free
<1>11. ASSUME NEW t \in Threads, Realloc(t) PROVE Plain'
  <2>1. CASE ReallocLock(t)
    <3>1. [loc[t] EXCEPT !.size = Align(@)].op = loc[t].op
      BY <1>1 DEF Locals
    <3> QED BY <1>8, <2>1, <3>1 DEF ReallocLock
  <2>2. CASE ReallocKeep(t) \/ ReallocAbsorb(t) \/ ReallocUpgrade(t) \/ ReallocEnd(t)
    BY <1>7, <2>2 DEF ReallocKeep, ReallocAbsorb, ReallocUpgrade, ReallocEnd
  <2>3. CASE ReallocReduce(t)
    <3>1. loc' = [loc EXCEPT ![t].res = loc[t].ptr, ![t].ptr = Wrap(Wrap(loc[t].ptr + loc[t].size) + 1)]
      BY <2>3 DEF ReallocReduce
    <3> QED BY <1>1, <3>1 DEF Locals, Plain
  <2>4. CASE ReallocRelocate(t) \/ CopyEnter(t) \/ Copy(t) \/ RelockEnter(t)
    BY <1>3, <2>4 DEF ReallocRelocate, CopyEnter, Copy, RelockEnter
  <2>5. CASE CopyLock(t) \/ Relock(t)
    BY <1>8, <2>5 DEF CopyLock, Relock
  <2> QED BY <1>11, <2>1, <2>2, <2>3, <2>4, <2>5 DEF Realloc
<1>12. ASSUME NEW t \in Threads, Return(t) PROVE Plain'
  BY <1>2, <1>12 DEF Return, NoCall
<1>13. CASE UNCHANGED vars
  BY <1>3, <1>13 DEF vars
<1>14. CASE Write
  BY <1>3, <1>14 DEF Write
<1>15. ASSUME NEW t \in Threads, Halt(t) PROVE Plain'
  BY <1>13, <1>15 DEF Halt
<1> QED BY <1>4, <1>9, <1>10, <1>11, <1>12, <1>13, <1>14, <1>15 DEF Next, Step

(* The two steps are realloc's alone: in a heap whose first chunk fits,    *)
(* and where realloc only frees, every step of the code is a sound one.    *)
THEOREM WithoutRealloc ==
  ASSUME FittingHeap, ReallocSizes \subseteq {0}
  PROVE  Spec => SoundSpec
<1>1. Init => HeapInv /\ Plain
  BY InitHeapInv DEF Init, Plain, NoCall
<1>2. TypeOK /\ Alone /\ HeapInv /\ Plain => Sound
  BY PlainIsSound
<1>3. TypeOK /\ TypeOK' /\ Alone /\ HeapInv /\ [Next /\ Sound]_vars => HeapInv'
  BY NextHeapInv DEF FittingHeap
<1>4. TypeOK /\ Plain /\ [Next]_vars => Plain'
  BY PlainKept
<1> QED BY <1>1, <1>2, <1>3, <1>4, TypeCorrect, OneThreadInside, ExclusionAlone, PTL
        DEF Spec, SoundSpec

(* In a heap whose first chunk fits, clients of malloc, calloc and free,   *)
(* as operator new and delete are, get the allocator that was promised,    *)
(* the heap stays exact, and they find in their blocks what they left      *)
(* there.  No step of the code is excluded, but the heap of HEAP_SIZE      *)
(* (BLMalloc.cpp:56) with the kernel's own bounds is: FirstChunkFits is    *)
(* false of it.                                                            *)
THEOREM PlainAllocator ==
  ASSUME FittingHeap, ReallocSizes \subseteq {0}
  PROVE  Spec => /\ ImplementsAllocator
                 /\ [](TagsAgree /\ FreeListExact /\ BlocksAccountedFor /\ LinksMatch)
                 /\ DataKept
  BY WithoutRealloc, AllocatorImplemented, TagsSound, ListSound, BlocksSound, ChecksSound,
     DataSound, PTL
=============================================================================
