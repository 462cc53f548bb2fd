------------------------------ MODULE BLMalloc ------------------------------
(***************************************************************************)
(* The kernel's allocator, src/BLMalloc.cpp, called by several threads.    *)
(* The functions that change the heap under the lock are one step per list *)
(* element they walk and one step for the stores that follow; what a       *)
(* function reads or writes before lock() and after unlock() is a step of  *)
(* its own.  The stores that no thread can see half done are one step.     *)
(***************************************************************************)
EXTENDS BoundaryTags

CONSTANTS
  Threads,
  MallocSizes,    \* sizes clients ask malloc for, in units
  CallocCounts,   \* the pairs <<nmemb, size>> they ask calloc for
  ReallocSizes,   \* sizes they ask realloc for
  Payload         \* what they write into their blocks

ASSUME Clients ==
  /\ MallocSizes \subseteq Addr
  /\ CallocCounts \subseteq Addr \X Addr
  /\ ReallocSizes \subseteq Addr
  /\ Payload \subseteq Cell

VARIABLES
  mem,      \* the contents of memory, Bottom to Top and the rest
  dibbs,    \* minfos.dibbs: the first free chunk, End when there is none
  lock,     \* the allocator's lock word
  pc,       \* where a thread is in the code
  loc,      \* its arguments and local variables
  owned,    \* the blocks clients hold: pointer -> size they asked for
  hdrs      \* auxiliary, never read: where the chunks' headers are

vars == <<mem, dibbs, lock, pc, loc, owned, hdrs>>
heap == <<mem, dibbs, hdrs>>

(* Labels outside the lock, spinning in lock(), and holding the lock.      *)
Out  == {"idle", "malloc", "free", "zero", "copy", "relock", "return", "panic"}
Wait == {"malloc_lock", "free_lock", "realloc_lock", "copy_lock", "relock_wait"}
In   == {"search", "merge", "assign_ptr", "resize", "memcpy", "realloc_end",
         "overflow"}

Ops == {"none", "malloc", "calloc", "realloc", "free"}

(* op: the client's call; asked: the size it wants; size, ptr: arguments;  *)
(* f, best: the walked link and s_h of get_usable_chunk, or d_free;        *)
(* nxt: next_h of free; res: the pointer to return.                        *)
Locals == [op : Ops, asked : Nat, size : Addr, ptr : Addr, f : Addr,
           best : Addr, nxt : Addr, res : Addr]

NoCall == [op |-> "none", asked |-> 0, size |-> 0, ptr |-> 0, f |-> 0,
           best |-> 0, nxt |-> 0, res |-> 0]

(* The thread as a caller of lock() and unlock().                          *)
Side(label) == IF label \in In THEN "in" ELSE IF label \in Wait THEN "spin" ELSE "out"
Where(t) == Side(pc[t])

Init ==
  /\ mem = Constructed
  /\ dibbs = Bottom
  /\ lock = 0
  /\ pc = [t \in Threads |-> "idle"]
  /\ loc = [t \in Threads |-> NoCall]
  /\ owned = [p \in {} |-> 0]
  /\ hdrs = {Bottom}

-----------------------------------------------------------------------------
(* Control.                                                                *)

Goto(t, label) == pc' = [pc EXCEPT ![t] = label]

(* lock() with an if in place of the loop. *)
TakeLockOnce(t, wait, in, l) ==
  /\ pc[t] = wait
  /\ lock' = 1
  /\ Goto(t, in) /\ loc' = [loc EXCEPT ![t] = l]
  /\ UNCHANGED <<heap, owned>>

(* A turn of lock()'s loop at label wait; the winner goes to label in with *)
(* the locals l.                                                           *)
TakeLock(t, wait, in, l) ==
  /\ pc[t] = wait
  /\ lock' = 1
  /\ IF lock = 0 THEN Goto(t, in) /\ loc' = [loc EXCEPT ![t] = l]
                 ELSE UNCHANGED <<pc, loc>>
  /\ UNCHANGED <<heap, owned>>

(* malloc returns r to its caller: a client, calloc or realloc_relocate.   *)
MallocReturns(t, r) ==
  /\ Goto(t, CASE loc[t].op = "calloc"  -> "zero"
               [] loc[t].op = "realloc" -> "copy"
               [] OTHER                 -> "return")
  /\ loc' = [loc EXCEPT ![t].res = r, ![t].f = 0, ![t].best = 0]

(* free returns to a client, or to realloc_relocate and realloc_reduce,    *)
(* which take the lock again for realloc.                                  *)
FreeReturns(t) ==
  /\ Goto(t, IF loc[t].op = "realloc" THEN "relock" ELSE "return")
  /\ loc' = [loc EXCEPT ![t].ptr = 0, ![t].f = 0, ![t].nxt = 0]

(* realloc returns r after its last unlock.                                *)
ReallocReturns(t, r) ==
  /\ Goto(t, "return")
  /\ loc' = [loc EXCEPT ![t].res = r, ![t].ptr = 0]

-----------------------------------------------------------------------------
(* Clients.                                                                *)

CallMalloc(t) ==
  /\ pc[t] = "idle"
  /\ \E n \in MallocSizes :
       loc' = [loc EXCEPT ![t].op = "malloc", ![t].asked = n, ![t].size = n]
  /\ Goto(t, "malloc")
  /\ UNCHANGED <<heap, lock, owned>>

(* calloc multiplies in size_t. *)
CallCalloc(t) ==
  /\ pc[t] = "idle"
  /\ \E c \in CallocCounts :
       loc' = [loc EXCEPT ![t].op = "calloc", ![t].asked = c[1] * c[2],
                          ![t].size = (c[1] * c[2]) % W]
  /\ Goto(t, "malloc")
  /\ UNCHANGED <<heap, lock, owned>>

(* Any thread may free any block; a block given to free or realloc is no   *)
(* longer the client's.                                                    *)
CallFree(t) ==
  /\ pc[t] = "idle"
  /\ \E p \in DOMAIN owned :
       /\ loc' = [loc EXCEPT ![t].op = "free", ![t].ptr = p]
       /\ owned' = [q \in DOMAIN owned \ {p} |-> owned[q]]
  /\ Goto(t, "free")
  /\ UNCHANGED <<heap, lock>>

(* realloc(0, n) is malloc(n), realloc(p, 0) is free(p), and any other     *)
(* call goes for the lock.                                                 *)
CallRealloc(t) ==
  /\ pc[t] = "idle"
  /\ \E p \in DOMAIN owned \cup {0}, n \in ReallocSizes :
       /\ loc' = [loc EXCEPT
            ![t] = [NoCall EXCEPT !.op = IF p = 0 THEN "malloc"
                                         ELSE IF n = 0 THEN "free" ELSE "realloc",
                                  !.asked = n, !.size = n, !.ptr = p]]
       /\ owned' = [q \in DOMAIN owned \ {p} |-> owned[q]]
       /\ Goto(t, IF p = 0 THEN "malloc" ELSE IF n = 0 THEN "free" ELSE "realloc_lock")
  /\ UNCHANGED <<heap, lock>>

(* A client writes all over a block it holds. *)
Write ==
  /\ \E p \in DOMAIN owned, c \in Payload :
       mem' = [a \in Addr |-> IF Wrap(a - p) < owned[p] THEN c ELSE mem[a]]
  /\ UNCHANGED <<dibbs, lock, pc, loc, owned, hdrs>>

(* The call is over: the client has its block. *)
Return(t) ==
  /\ pc[t] = "return"
  /\ LET r == loc[t].res
     IN  owned' = IF r = 0 THEN owned
                  ELSE [q \in DOMAIN owned \cup {r} |->
                          IF q = r THEN loc[t].asked ELSE owned[q]]
  /\ Goto(t, "idle")
  /\ loc' = [loc EXCEPT ![t] = NoCall]
  /\ UNCHANGED <<heap, lock>>

-----------------------------------------------------------------------------
(* malloc.                                                                 *)

(* The test before the lock: malloc(0) is 0. *)
MallocEnter(t) ==
  /\ pc[t] = "malloc"
  /\ IF loc[t].size = 0 THEN MallocReturns(t, 0)
                        ELSE Goto(t, "malloc_lock") /\ UNCHANGED loc
  /\ UNCHANGED <<heap, lock, owned>>

(* The lock, ALIGN, and the first link to look at: that of dibbs, or none  *)
(* when dibbs heads no chunk.                                              *)
MallocLock(t) ==
  TakeLock(t, "malloc_lock", "search",
           [loc[t] EXCEPT !.size = Align(loc[t].size), !.best = 0,
                          !.f = IF mem[dibbs].c # Used(0) THEN Wrap(dibbs + 1) ELSE 0])

(* get_usable_chunk: the chunk of the walked link, the two tests on it. *)
Candidate(t) == Wrap(loc[t].f - 1)
Exact(t) == mem[Candidate(t)].c.v = loc[t].size
LargeEnough(t) == mem[Candidate(t)].c.v >= Wrap(loc[t].size + 2)

(* One turn of its loop: keep the smallest chunk that can be split. *)
Search(t) ==
  /\ pc[t] = "search"
  /\ loc[t].f # 0 /\ ~Exact(t)
  /\ LET best == loc[t].best
         keep == /\ LargeEnough(t)
                 /\ best = 0 \/ Above(mem[best].c, mem[Candidate(t)].c)
     IN  loc' = [loc EXCEPT ![t].f = mem[@].c.v,
                            ![t].best = IF keep THEN Candidate(t) ELSE @]
  /\ UNCHANGED <<heap, lock, pc, owned>>

(* One of the two neighbours still points at f. *)
RelinkNext(m, f) == SetNext(m, m[f].p, m[f].c)

(* relink_pointer: take the link at f out of the list. *)
Relink(m, f) == SetPrev(SetNext(m, m[f].p, m[f].c), m[f].c, m[f].p)

(* perfect_match: the chunk found has the size: take it whole. *)
MallocPerfect(t) ==
  /\ pc[t] = "search"
  /\ loc[t].f # 0 /\ Exact(t)
  /\ LET h    == Candidate(t)
         next == mem[Wrap(dibbs + 1)].c
         size == Used(mem[h].c.v)
     IN  /\ mem' = Relink([mem EXCEPT ![h].c = size, ![NextHeader(mem, h)].p = size],
                          loc[t].f)
         /\ dibbs' = IF h # dibbs THEN dibbs
                     ELSE IF Null(next) THEN End ELSE Wrap(next.v - 1)
  /\ MallocReturns(t, loc[t].f)
  /\ lock' = 0
  /\ UNCHANGED <<owned, hdrs>>

(* set_used_space: cut the block off the high end of the chunk found. *)
MallocSplit(t) ==
  /\ pc[t] = "search"
  /\ loc[t].f = 0 /\ loc[t].best # 0
  /\ LET h    == loc[t].best
         size == loc[t].size
         n_h  == Wrap(h + Wrap(mem[h].c.v - size))
         rest == Freed(Wrap(mem[h].c.v - Wrap(size + 1)))
     IN  /\ mem' = [mem EXCEPT ![n_h] = [p |-> rest, c |-> Used(size)],
                                ![h].c = rest,
                                ![Wrap(Wrap(n_h + 1) + size)].p = Used(size)]
         /\ hdrs' = hdrs \cup {n_h}
         /\ MallocReturns(t, Wrap(n_h + 1))
  /\ lock' = 0
  /\ UNCHANGED <<dibbs, owned>>

(* A failed call that returns 0 and forgets the lock. *)
MallocFailsLocked(t) ==
  /\ pc[t] = "search"
  /\ loc[t].f = 0 /\ loc[t].best = 0
  /\ MallocReturns(t, 0)
  /\ UNCHANGED <<heap, lock, owned>>

(* add_allocable_mem: the kernel stops, with the lock held. *)
MallocFails(t) ==
  /\ pc[t] = "search"
  /\ loc[t].f = 0 /\ loc[t].best = 0
  /\ Goto(t, "overflow")
  /\ UNCHANGED <<heap, lock, loc, owned>>

(* failure's endless loop. *)
Halt(t) ==
  /\ pc[t] \in {"overflow", "panic"}
  /\ UNCHANGED vars

(* calloc's loop, without the lock. *)
CallocZero(t) ==
  /\ pc[t] = "zero"
  /\ mem' = [a \in Addr |-> IF Wrap(a - loc[t].res) < loc[t].size
                            THEN [p |-> Used(0), c |-> Used(0)] ELSE mem[a]]
  /\ Goto(t, "return")
  /\ UNCHANGED <<dibbs, hdrs, lock, loc, owned>>

-----------------------------------------------------------------------------
(* free.                                                                   *)

(* The range check and next_h, both before the lock. *)
FreeEnter(t) ==
  /\ pc[t] = "free"
  /\ LET ptr == loc[t].ptr
     IN  IF Bottom < ptr /\ ptr < End
         THEN /\ Goto(t, "free_lock")
              /\ loc' = [loc EXCEPT ![t].nxt = NextHeader(mem, Wrap(ptr - 1))]
         ELSE Goto(t, "panic") /\ UNCHANGED loc
  /\ UNCHANGED <<heap, lock, owned>>

FreeLock(t) == TakeLock(t, "free_lock", "merge", loc[t])

(* What free stores first: no links, and both tags flagged. *)
Flagged(m, ptr, nxt) ==
  LET curr == Wrap(ptr - 1)
      m1   == [m EXCEPT ![ptr] = [p |-> Link(0), c |-> Link(0)]]
      m2   == [m1 EXCEPT ![nxt].p = Freed(m1[nxt].p.v)]
  IN  [m2 EXCEPT ![curr].c = Freed(m2[curr].c.v)]

(* The header in the middle is not counted. *)
JoinedShort(m, top, bot) == Freed(Wrap(m[top].c.v + m[bot].c.v))

(* Size of two adjacent chunks made one. *)
Joined(m, top, bot) == Freed(Wrap(Wrap(m[top].c.v + m[bot].c.v) + 1))

(* The two tests of the merges, and two that forget the flag.              *)
MergeAnyBelow(m, bot) == m[bot].p.v # 0
MergeNoneAbove(m, top) == FALSE

FreeBelow(m, bot) == m[bot].p.f /\ m[bot].p.v # 0
FreeAbove(m, top) ==
  LET bot == NextHeader(m, top) IN m[bot].c.f /\ m[bot].c.v # 0

(* The footer keeps the size of the second chunk. *)
MergePrevHeaderOnly(m, bot) ==
  LET top == PrevHeader(m, bot)
  IN  [m EXCEPT ![top].c = Joined(m, top, bot),
                ![bot] = [p |-> Used(0), c |-> Used(0)]]

(* merge_prev_area: the chunk before bot is free, bot becomes part of it. *)
MergePrev(m, bot) ==
  LET top  == PrevHeader(m, bot)
      size == Joined(m, top, bot)
  IN  [m EXCEPT ![top].c = size,
                ![NextHeader(m, bot)].p = size,
                ![bot] = [p |-> Used(0), c |-> Used(0)]]

(* merge_next_area: the chunk after top is free, top takes it over and, if *)
(* it is not listed itself, its place in the list; d is dibbs by then.     *)
MergeNext(m, top, d) ==
  LET bot    == NextHeader(m, top)
      t_f    == Wrap(top + 1)
      prev   == m[Wrap(bot + 1)].p
      next   == m[Wrap(bot + 1)].c
      size   == Joined(m, top, bot)
      listed == ~Null(m[t_f].p) \/ top = d
      m1     == [m EXCEPT ![top].c = size,
                          ![NextHeader(m, bot)].p = size,
                          ![t_f].c = next]
      m2     == SetPrev(m1, next, Link(t_f))
  IN  IF listed THEN m2
      ELSE [m2 EXCEPT ![t_f].p = prev, ![prev.v].c = Link(t_f)]

Lowest(a, b) == IF a > b THEN b ELSE a

(* free under the lock, up to assign_ptr: flag the chunk, merge it with    *)
(* the free chunks around it; it needs a place in the list if there are    *)
(* none.                                                                   *)
FreeMerge(t) ==
  /\ pc[t] = "merge"
  /\ LET ptr   == loc[t].ptr
         curr  == Wrap(ptr - 1)
         m0    == Flagged(mem, ptr, loc[t].nxt)
         below == FreeBelow(m0, curr)
         top   == IF below THEN PrevHeader(m0, curr) ELSE curr
         m1    == IF below THEN MergePrev(m0, curr) ELSE m0
         d1    == IF below THEN Lowest(dibbs, top) ELSE dibbs
         above == FreeAbove(m1, top)
         d2    == IF above THEN Lowest(d1, top) ELSE d1
     IN  /\ mem' = IF above THEN MergeNext(m1, top, d2) ELSE m1
         /\ dibbs' = d2
         /\ hdrs' = hdrs \ ((IF below THEN {curr} ELSE {}) \cup
                            (IF above THEN {NextHeader(m1, top)} ELSE {}))
         /\ IF below \/ above
            THEN FreeReturns(t) /\ lock' = 0
            ELSE /\ Goto(t, "assign_ptr")
                 /\ loc' = [loc EXCEPT ![t].f = Wrap(dibbs + 1), ![t].nxt = 0]
                 /\ UNCHANGED lock
  /\ UNCHANGED owned

(* assign_ptr with an empty list, or with a list that starts after curr. *)
AssignFirst(t) ==
  /\ pc[t] = "assign_ptr"
  /\ LET curr == loc[t].ptr
         d_free == Wrap(dibbs + 1)
     IN  /\ dibbs = End \/ (loc[t].f = d_free /\ d_free > curr)
         /\ dibbs' = Wrap(curr - 1)
         /\ mem' = IF dibbs = End THEN mem
                   ELSE [mem EXCEPT ![curr] = [p |-> Link(0), c |-> Link(d_free)],
                                    ![d_free].p = Link(curr)]
  /\ FreeReturns(t)
  /\ lock' = 0
  /\ UNCHANGED <<owned, hdrs>>

(* Its walk goes on while the next link is before curr. *)
Between(t) ==
  /\ pc[t] = "assign_ptr"
  /\ dibbs # End /\ ~(loc[t].f = Wrap(dibbs + 1) /\ loc[t].f > loc[t].ptr)

Before(t) == LET next == mem[loc[t].f].c IN ~Null(next) /\ next.v < loc[t].ptr

AssignWalk(t) ==
  /\ Between(t) /\ Before(t)
  /\ loc' = [loc EXCEPT ![t].f = mem[@].c.v]
  /\ UNCHANGED <<heap, lock, pc, owned>>

(* The stores the other way round: d_free's next is curr when it is read   *)
(* for curr.                                                               *)
AssignInsertSwapped(t) ==
  /\ Between(t) /\ ~Before(t)
  /\ LET curr == loc[t].ptr
         d_free == loc[t].f
     IN  mem' = [SetPrev(mem, mem[d_free].c, Link(curr))
                   EXCEPT ![curr] = [p |-> Link(d_free), c |-> Link(curr)],
                          ![d_free].c = Link(curr)]
  /\ FreeReturns(t)
  /\ lock' = 0
  /\ UNCHANGED <<dibbs, owned, hdrs>>

(* Insert curr after the link where the walk stopped. *)
AssignInsert(t) ==
  /\ Between(t) /\ ~Before(t)
  /\ LET curr == loc[t].ptr
         d_free == loc[t].f
         next == mem[d_free].c
     IN  mem' = [SetPrev(mem, next, Link(curr))
                   EXCEPT ![curr] = [p |-> Link(d_free), c |-> next],
                          ![d_free].c = Link(curr)]
  /\ FreeReturns(t)
  /\ lock' = 0
  /\ UNCHANGED <<dibbs, owned, hdrs>>

-----------------------------------------------------------------------------
(* realloc.                                                                *)

ReallocLock(t) ==
  TakeLock(t, "realloc_lock", "resize", [loc[t] EXCEPT !.size = Align(@)])

(* c_h, its size, n_h and what upgrading into n_h would give. *)
Header(t) == Wrap(loc[t].ptr - 1)
Current(t) == mem[Header(t)].c.v
NextHdr(t) == Wrap(loc[t].ptr + Current(t))
Both(t) == Wrap(Current(t) + mem[NextHdr(t)].c.v)
NextTaken(t) == TRUE
NextIsFree(t) == mem[NextHdr(t)].c.f

(* The size is the block's own, or not worth a chunk less. *)
ReallocKeep(t) ==
  /\ pc[t] = "resize"
  /\ loc[t].size <= Current(t) /\ Current(t) - loc[t].size < MinimumBlockSize
  /\ ReallocReturns(t, loc[t].ptr)
  /\ lock' = 0
  /\ UNCHANGED <<heap, owned>>

(* realloc_reduce: the end of the block becomes a chunk, flagged free but  *)
(* not listed, and is given to free after the lock is released.            *)
ReallocReduce(t) ==
  /\ pc[t] = "resize"
  /\ loc[t].size <= Current(t) /\ Current(t) - loc[t].size >= MinimumBlockSize
  /\ LET size  == loc[t].size
         new_h == Wrap(loc[t].ptr + size)
         rest  == Freed(Wrap(Current(t) - Wrap(size + 1)))
     IN  /\ mem' = [mem EXCEPT ![new_h] = [p |-> Used(size), c |-> rest],
                                ![Header(t)].c = Used(size),
                                ![NextHdr(t)].p = rest]
         /\ hdrs' = hdrs \cup {new_h}
         /\ loc' = [loc EXCEPT ![t].res = loc[t].ptr, ![t].ptr = Wrap(new_h + 1)]
  /\ Goto(t, "free")
  /\ lock' = 0
  /\ UNCHANGED <<dibbs, owned>>

(* merge_perfect_size: the next chunk is free and is taken whole. *)
ReallocAbsorb(t) ==
  /\ pc[t] = "resize"
  /\ loc[t].size > Current(t) /\ NextIsFree(t)
  /\ loc[t].size >= Wrap(Both(t) - 1) /\ loc[t].size <= Wrap(Both(t) + 1)
  /\ LET n_h   == NextHdr(t)
         size  == Used(Wrap(Both(t) + 1))
     IN  /\ mem' = Relink([mem EXCEPT ![Header(t)].c = size,
                                      ![NextHeader(mem, n_h)].p = size],
                          Wrap(n_h + 1))
         /\ hdrs' = hdrs \ {n_h}
  /\ ReallocReturns(t, loc[t].ptr)
  /\ lock' = 0
  /\ UNCHANGED <<dibbs, owned>>

(* realloc_upgrade: the next chunk is free and large enough: its header    *)
(* and its links move up.                                                  *)
ReallocUpgrade(t) ==
  /\ pc[t] = "resize"
  /\ loc[t].size > Current(t) /\ NextIsFree(t)
  /\ loc[t].size < Wrap(Both(t) - 1) /\ loc[t].size <= Wrap(Both(t) + 1)
  /\ LET size  == loc[t].size
         n_h   == NextHdr(t)
         n_f   == mem[Wrap(n_h + 1)]
         new_h == Wrap(loc[t].ptr + size)
         new_f == Wrap(new_h + 1)
         rest  == Freed(Wrap(Wrap(mem[n_h].c.v + mem[n_h].p.v) - size))
         m1    == [mem EXCEPT ![Header(t)].c = Used(size),
                              ![new_f] = n_f,
                              ![new_h] = [p |-> Used(size), c |-> rest],
                              ![NextHeader(mem, n_h)].p = rest]
     IN  /\ mem' = SetPrev(SetNext(m1, n_f.p, Link(new_f)), n_f.c, Link(new_f))
         /\ hdrs' = (hdrs \ {n_h}) \cup {new_h}
  /\ ReallocReturns(t, loc[t].ptr)
  /\ lock' = 0
  /\ UNCHANGED <<dibbs, owned>>

(* realloc_relocate up to its malloc: the lock is released first. *)
ReallocRelocate(t) ==
  /\ pc[t] = "resize"
  /\ loc[t].size > Current(t)
  /\ NextIsFree(t) => loc[t].size > Wrap(Both(t) + 1)
  /\ Goto(t, "malloc")
  /\ lock' = 0
  /\ UNCHANGED <<heap, loc, owned>>

(* The lock again, the copy of the old block, and free of it. *)
CopyEnter(t) ==
  /\ pc[t] = "copy"
  /\ Goto(t, "copy_lock")
  /\ UNCHANGED <<heap, lock, loc, owned>>

CopyLock(t) == TakeLock(t, "copy_lock", "memcpy", loc[t])

(* The copy, and the old block forgotten. *)
CopyAndLose(t) ==
  /\ pc[t] = "memcpy"
  /\ Goto(t, "relock")
  /\ lock' = 0
  /\ UNCHANGED <<heap, loc, owned>>

CopyFromHeader(t) ==
  /\ pc[t] = "memcpy"
  /\ LET to == loc[t].res
         from == Wrap(loc[t].ptr - 1)
     IN  mem' = [a \in Addr |-> IF Wrap(a - to) < Current(t)
                                THEN mem[Wrap(from + Wrap(a - to))] ELSE mem[a]]
  /\ Goto(t, "free")
  /\ lock' = 0
  /\ UNCHANGED <<dibbs, hdrs, loc, owned>>

Copy(t) ==
  /\ pc[t] = "memcpy"
  /\ LET to == loc[t].res
         from == loc[t].ptr
     IN  mem' = [a \in Addr |-> IF Wrap(a - to) < Current(t)
                                THEN mem[Wrap(from + Wrap(a - to))] ELSE mem[a]]
  /\ Goto(t, "free")
  /\ lock' = 0
  /\ UNCHANGED <<dibbs, hdrs, loc, owned>>

(* realloc_relocate and realloc_reduce leave with the lock taken again,    *)
(* for realloc to release.                                                 *)
RelockEnter(t) ==
  /\ pc[t] = "relock"
  /\ Goto(t, "relock_wait")
  /\ UNCHANGED <<heap, lock, loc, owned>>

Relock(t) == TakeLock(t, "relock_wait", "realloc_end", loc[t])

ReallocEnd(t) ==
  /\ pc[t] = "realloc_end"
  /\ ReallocReturns(t, loc[t].res)
  /\ lock' = 0
  /\ UNCHANGED <<heap, owned>>

-----------------------------------------------------------------------------
Call(t) == CallMalloc(t) \/ CallCalloc(t) \/ CallFree(t) \/ CallRealloc(t)

Malloc(t) == \/ MallocEnter(t) \/ MallocLock(t) \/ Search(t) \/ MallocPerfect(t)
             \/ MallocSplit(t) \/ MallocFails(t) \/ CallocZero(t)

Free(t) == \/ FreeEnter(t) \/ FreeLock(t) \/ FreeMerge(t)
           \/ AssignFirst(t) \/ AssignWalk(t) \/ AssignInsert(t)

Realloc(t) == \/ ReallocLock(t) \/ ReallocKeep(t) \/ ReallocReduce(t)
              \/ ReallocAbsorb(t) \/ ReallocUpgrade(t) \/ ReallocRelocate(t)
              \/ CopyEnter(t) \/ CopyLock(t) \/ Copy(t)
              \/ RelockEnter(t) \/ Relock(t) \/ ReallocEnd(t)

(* The allocator's own steps; calls and writes are the clients'. *)
Step(t) == Malloc(t) \/ Free(t) \/ Realloc(t) \/ Return(t)

Next == Write \/ \E t \in Threads : Call(t) \/ Step(t) \/ Halt(t)

Spec == Init /\ [][Next]_vars

(* A walk that has come to a link to itself: its turns change nothing.     *)
Circling(t) ==
  /\ mem[loc[t].f].c = Link(loc[t].f)
  /\ \/ pc[t] = "search" /\ loc[t].f # 0 /\ ~Exact(t)
     \/ Between(t) /\ Before(t)

(* A core inside the allocator keeps executing.  This is                   *)
(* WF_vars(Step(t)) with its ENABLED written out: a thread has a step that *)
(* changes something unless it is idle, stopped, waiting for a taken lock  *)
(* or walking in place, and every change of its pc or loc after the call   *)
(* is such a step.                                                         *)
CanStep(t) ==
  /\ pc[t] \notin {"idle", "overflow", "panic"}
  /\ pc[t] \in Wait => lock = 0
  /\ ~Circling(t)
Moves(t) == pc'[t] # pc[t] \/ loc'[t] # loc[t]

Fairness == \A t \in Threads : []<>~CanStep(t) \/ []<><<Moves(t)>>_vars

FairSpec == Spec /\ Fairness

-----------------------------------------------------------------------------
TypeOK ==
  /\ mem \in [Addr -> Cell]
  /\ dibbs \in Addr
  /\ lock \in {0, 1}
  /\ pc \in [Threads -> Out \cup Wait \cup In]
  /\ loc \in [Threads -> Locals]
  /\ DOMAIN owned \subseteq Addr /\ \A p \in DOMAIN owned : owned[p] \in Nat
  /\ hdrs \subseteq Addr
=============================================================================
