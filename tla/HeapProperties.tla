--------------------------- MODULE HeapProperties ---------------------------
(***************************************************************************)
(* What makes the heap of BLMalloc correct.  The state properties are      *)
(* about heaps whose first chunk, as the constructor computes it, ends at  *)
(* minfos.end (FirstChunkFits): see README.md for which heaps do.          *)
(***************************************************************************)
EXTENDS BLMalloc

FirstChunkFits == Bottom + HeapSize + 1 = End

Size(h) == mem[h].c.v

(* The header after h, without leaving the address space. *)
After(h) == h + 1 + Size(h)

FreeChunks == {h \in hdrs : mem[h].c.f}

(* The chunk a thread is about to put into the list, or has in its hands   *)
(* on its way there.                                                       *)
Leaving(t) == pc[t] \in {"free", "free_lock", "merge", "assign_ptr"}
InTransit == {Wrap(loc[t].ptr - 1) : t \in {u \in Threads : Leaving(u)}}

Listed == FreeChunks \ InTransit

(* The pointers a call has in its hands. *)
Held(t) == {loc[t].ptr, loc[t].res} \ {0}

-----------------------------------------------------------------------------
(* The boundary tags tile the heap: from Bottom each header gives the      *)
(* place of the next, up to end, and the footer of every chunk says what   *)
(* its header says (BLMalloc::check_header).  The one exception is the     *)
(* footer of the first chunk, which the constructor writes one header too  *)
(* low; the first split or merge puts it in its place.                     *)
TagsAgree ==
  /\ Bottom \in hdrs /\ \A h \in hdrs : Bottom <= h /\ h < End
  /\ \A h \in hdrs :
       /\ After(h) \in hdrs \cup {End}
       /\ \A g \in hdrs : g <= h \/ After(h) <= g
       /\ mem[After(h)].p = mem[h].c \/ hdrs = {Bottom}

(* The free list is the free chunks, each once, in the order of their      *)
(* addresses, both ways, and dibbs heads it (BLMalloc::check_linked_list,  *)
(* the comment "Dibbs is ALWAYS on the first item").                       *)
FreeListExact ==
  /\ Listed = {} => dibbs = End
  /\ \A h \in Listed :
       /\ (\A g \in Listed : h <= g) => dibbs = h /\ mem[h + 1].p = Link(0)
       /\ (\A g \in Listed : g <= h) => mem[h + 1].c = Link(0)
       /\ \A g \in Listed :
            h < g /\ (\A k \in Listed : k <= h \/ g <= k)
              => mem[h + 1].c = Link(g + 1) /\ mem[g + 1].p = Link(h + 1)

(* "Dibbs is ALWAYS on the first item. So prev = 0" (BLMalloc.cpp, above   *)
(* assign_ptr), while nobody is changing the heap.                         *)
DibbsIsFirst ==
  lock = 0 /\ dibbs # End =>
    dibbs \in FreeChunks /\ mem[dibbs + 1].p = Link(0)

(* What BLMalloc::check_linked_list finds no error in, once every call is  *)
(* over: "isn't freed!", "prev is ..., expected ...".                      *)
LinksMatch ==
  (\A t \in Threads : pc[t] = "idle") =>
    /\ dibbs # End => mem[dibbs + 1].p = Link(0)
    /\ \A h \in FreeChunks :
         LET next == mem[h + 1].c
         IN  ~Null(next) => next.v - 1 \in FreeChunks /\ mem[next.v].p = Link(h + 1)

(* Free space is never in two chunks side by side, except for one on its   *)
(* way to free (the two merges of free).                                   *)
Coalesced ==
  \A h \in Listed : After(h) \notin Listed

(* Every chunk in use is one pointer's that one client or one call holds,  *)
(* and is as large as the client asked: no block is handed out twice, none *)
(* is lost to the heap, a free of one never frees another.                 *)
BlocksAccountedFor ==
  /\ \A p \in DOMAIN owned : p - 1 \in hdrs \ FreeChunks /\ Size(p - 1) >= owned[p]
  /\ \A h \in hdrs \ FreeChunks :
       h + 1 \in DOMAIN owned \cup UNION {Held(t) : t \in Threads}
  /\ \A t \in Threads : \A p \in Held(t) :
       /\ p - 1 \in hdrs /\ p \notin DOMAIN owned
       /\ \A u \in Threads \ {t} : p \notin Held(u)

(* While get_usable_chunk walks the list, what it has passed holds no      *)
(* chunk of the size, and best is the smallest one that could be split, or *)
(* 0 when none could.  At the end of the list this is the whole list: the  *)
(* kernel is stopped for a heap overflow only when nothing fits.           *)
Fits(h, n) == Size(h) = n \/ Size(h) >= n + 2

SearchSoFar ==
  \A t \in Threads : pc[t] \in {"search", "overflow"} =>
    LET f == loc[t].f
        best == loc[t].best
        passed == {h \in Listed : f = 0 \/ h + 1 < f}
    IN  /\ f = 0 \/ f - 1 \in Listed
        /\ \A h \in passed :
             /\ Size(h) # loc[t].size
             /\ Fits(h, loc[t].size) => best # 0 /\ Size(best) <= Size(h)
        /\ best # 0 => best \in passed /\ Fits(best, loc[t].size)

(* next_h, which free reads before it takes the lock, is still the header  *)
(* after the block when free flags it, whatever the other threads did to   *)
(* the neighbours in between.                                              *)
NextStillNext ==
  \A t \in Threads : pc[t] \in {"free_lock", "merge"} =>
    loc[t].nxt = NextHeader(mem, Wrap(loc[t].ptr - 1))

(* When nobody holds a block and no call is under way, the heap is the one *)
(* chunk the constructor made.                                             *)
HeapRecovers ==
  DOMAIN owned = {} /\ (\A t \in Threads : pc[t] = "idle") =>
    /\ hdrs = {Bottom} /\ dibbs = Bottom
    /\ mem[Bottom].c = Freed(HeapSize)
    /\ mem[Bottom + 1] = [p |-> Link(0), c |-> Link(0)]

(* "Pointers must be 0x1000000 - 0x2000000" (BLMalloc.cpp, in              *)
(* showAllocatedMemory): what clients get is in the heap.                  *)
BlocksInHeap == \A p \in DOMAIN owned : Bottom <= p /\ p < Top

(* realloc_relocate copies the whole old block, which it reads the size of *)
(* after it released and took the lock again: it fits into the new one.    *)
CopyFits ==
  \A t \in Threads : pc[t] = "memcpy" => Current(t) <= Size(loc[t].res - 1)

(* Where the data of a realloc in progress is, and how much of it is the   *)
(* client's.                                                               *)
DataAt(t) ==
  IF pc[t] \in {"realloc_lock", "resize", "malloc", "malloc_lock", "search",
                "overflow", "copy", "copy_lock", "memcpy"}
  THEN loc[t].ptr ELSE loc[t].res
DataSize(t) == Lowest(loc[t].asked, Size(DataAt(t) - 1))

(* The allocator never writes into a block a client holds, whoever splits, *)
(* merges, moves or zeroes what beside it; and a realloc has its client's  *)
(* data in one place or the other all the way from the call to the return, *)
(* however often it gives up the lock.  Only the holder changes a block.   *)
DataKept ==
  [][Write \/
       /\ \A p \in DOMAIN owned \cap DOMAIN owned' :
            \A i \in 0 .. owned[p] - 1 : mem'[p + i] = mem[p + i]
       /\ \A t \in Threads :
            loc[t].op = "realloc" /\ loc'[t].op = "realloc" =>
              \A i \in 0 .. Lowest(DataSize(t), DataSize(t)') - 1 :
                mem'[DataAt(t)' + i] = mem[DataAt(t) + i]]_vars

-----------------------------------------------------------------------------
(* The two ways in which realloc spoils the heap, see README.md: it grows  *)
(* into the first free chunk, or the chunk it has cut off, flagged but not *)
(* listed yet, is merged into another call's.                              *)
Loose == FreeChunks \cap InTransit

GrowsIntoFirst(t) ==
  /\ pc[t] = "resize" /\ pc'[t] = "return" /\ hdrs' # hdrs
  /\ NextHdr(t) \in Loose \cup {dibbs}

MergesLoose(t) ==
  /\ pc[t] = "merge" /\ pc'[t] # "merge"
  /\ LET own == loc[t].ptr - 1
     IN  \E h \in Loose : After(h) = own \/ After(own) = h

Sound == \A t \in Threads : ~GrowsIntoFirst(t) /\ ~MergesLoose(t)

SoundSpec == Init /\ [][Next /\ Sound]_vars

-----------------------------------------------------------------------------
(* The lock is used as a lock: malloc, free, calloc and realloc never      *)
(* release it without holding it nor touch the heap's links and tags       *)
(* without it.                                                             *)
Spin == INSTANCE Spinlock WITH l <- lock, at <- [t \in Threads |-> Where(t)]

LockDiscipline == Spin!Spec

(* Clients see an allocator. *)
Alloc == INSTANCE Allocator WITH First <- Bottom + 1, Last <- End - 1, live <- owned

ImplementsAllocator == Alloc!Spec

(* The lock never stays taken: its holder releases it, or has stopped the  *)
(* kernel.                                                                 *)
LockComesBack ==
  lock = 1 ~> (lock = 0 \/ \E t \in Threads : pc[t] = "overflow")

(* A call goes on until it is over or needs the lock: the walk over the    *)
(* list, which the code ends only by the links it reads, always ends.      *)
Busy == (Out \cup In) \ {"idle", "overflow", "panic"}

WalksEnd ==
  \A t \in Threads : pc[t] \in Busy ~> pc[t] \notin Busy
=============================================================================
