# RouxOS in TLA+

A verification project for RouxOS, a small multi-threaded 32-bit kernel in
C++11. It models the kernel's allocator and its spinlock, the text screen,
the containers with their one user, strings, and the messages with
numbers that everything the kernel says is made of; it model-checks them with
TLC on small instances and proves with TLAPS, for every instance, how the lock
excludes and is used, that a heap whose first chunk fits stays exact and implements
an allocator, that a print is a terminal's, that the containers are a sequence and a
function, and that strings are values whose blocks have one owner.

## 1. Inventory

| Component | State | Operations | Called by / calls | What is hard |
|---|---|---|---|---|
| Spinlock (`src/Spinlock.cpp`) | one `int` per lock | `lock`, `unlock` | the allocator | any interleaving of callers; `unlock` does not check who calls it; no queue |
| BLMalloc (`src/BLMalloc.cpp`) | boundary tags and free-list links in memory, `minfos` (start, dibbs, end), its lock | `malloc`, `calloc`, `realloc`, `free`, checkers | `memAlloc`, `operator new`, strings, containers; calls `lock`, `failure` | merging, splitting, moving list elements; `realloc` releases the lock and calls `malloc` and `free`; `free` reads a header before it locks |
| MemoryManager (`includes/MemoryManager.hh`) | none | forwards to `memAlloc` | everybody | nothing: it is the allocator's contract |
| Deque, Pair (`includes/Containers.hh`) | nodes, `_first`, `_mid`, `_last`, `_size` | insert, delete, append, `atIndex`, iterators | Map | `_mid` and `_size` must follow every insertion and deletion |
| Map, iterators (`includes/Map.hh`, `Iterators.hh`) | a Deque of pairs | `insert`, `operator[]`, iteration | `String::multiArg` | keys sorted and unique through iterator updates |
| PrintEngine (`src/PrintEngine.cpp`) | cursor `kX`, `kY`, attribute, video RAM | `operator()`, `scroll`, `setAttr` | everybody, interrupt handlers | tab, newline and escapes at the edges, in any mix |
| String (`src/String.cpp`) | `data`, a block of the allocator, and `len` | construct, copy, move, assign, append, `+`, `from`, `cstr`, `arg` | nobody at this commit (`kmain`'s use is commented out); calls the allocator, Map | who owns the block; there is no byte for a terminator |
| StaticString (`src/StaticString.cpp`) | 512 bytes in the stack, `len` | construct, append, `number` | every message: `kmain`, boot, `assert_failed`, the checkers; printed by PrintEngine | no terminator, a stack that is not cleared, the 512 and 32 bytes |
| CString, Maths | none | copies, number conversion, `pow` | String, StaticString | machine arithmetic at the largest and smallest numbers |
| Boot (`Boot.asm`, `BootProcess.cpp`, `Main.cpp`) | GDT, constructor table | boot once | calls everything | nothing: the allocator and `kprint` are constructed objects, but neither constructor uses the other, unless an `assert` fails |
| Interrupts | none | three handlers that print | nobody yet: no IDT is loaded, nothing turns interrupts on, and the vectors save no registers | nothing at this commit |
| C++ runtime (`CXXABI/`) | guards of local statics | acquire, release | `PrintEngine::inst` | acquire is not atomic |
| Debug | none | `assert_failed` | all | it stops the thread for good, with whatever locks it holds |
| List, Keyboard, EventLoop, `future/`, linker scripts | – | – | – | commented out, empty, not built, or without behaviour |

What makes each correct, in short: the lock excludes; the allocator hands out
disjoint blocks of the right size inside the heap, loses none, and keeps tags
and list exact through every interleaving; the Deque is the sequence it stands
for, its iterator at its place, and `_size` its length (which it is not, after a
deletion); the Map is a function with sorted keys; the cursor
stays on the screen; each string buffer has one owner; a number printed is the
number.

`PROJECT.json` lists under `hazards` every place where one of these could go
wrong and a test would hardly notice.

## 2. Plan

1. *Done*: Spinlock, the allocator, the abstract allocator; their runs; types and
   the use of the lock proved.
2. *Done*: PrintEngine beside a reference terminal, its cursor's bounds proved;
   Deque, Map and `String::arg` beside a sequence and a function.
3. *Done*: String over an abstract allocator beside strings as values, the
   ownership of its blocks proved; number
   conversion in machine arithmetic and the messages made with it beside the
   numerals they should show; one composition of all the library's users.
4. *Done*: the heap: that tags tile it, that the free list is exact, that blocks
   have one holder and keep their data, that searches are right and that it
   implements `Allocator`, for every heap whose first chunk fits, every set of
   threads and all sizes.
5. *Done*: the deque's links exact, from an auxiliary sequence of its nodes; the
   deque a sequence, the map a function, the scan of `arg` exact; strings as
   values; and that all this holds in `Library`.
6. *Done*: that a print is a terminal's (`ShowsText`); that a number's digits
   are right and stay within its buffer, whatever `size_t`, base and type
   (`MessageShown`, `BuffersSuffice`).
7. Left: what section 8 says is not modelled. Liveness stays with TLC.

## 3. Modules

    Spinlock        lock() and unlock(); the abstract lock
    Allocator       what MemoryManager.hh promises a client
    BoundaryTags    memory, tags, links, ALIGN, size_t arithmetic, the constructor
    BLMalloc        the allocator: EXTENDS BoundaryTags
    HeapProperties  its properties; INSTANCEs Spinlock and Allocator
    MCBLMalloc      values of the constants, view and symmetry for TLC
    SpinlockProofs  mutual exclusion of the lock
    BLMallocProofs  the allocator's types, and its use of the lock as Spinlock says
    HeapLemmas      what stores of tags and links make of a heap
    HeapProofs      the heap stays exact and implements Allocator

    PrintEngine       kprint
    PrintProperties   its properties and the reference terminal
    MCPrintEngine     values for TLC
    PrintProofs       the cursor stays on the screen; a print is a terminal's

    Deque             the linked list, its iterator and its clients' calls
    Map               EXTENDS Deque: insert and lookup of keys
    MultiArg          EXTENDS Map: String::arg
    Sequence          what a deque with an iterator stands for
    Containers        the three users of a deque, and the properties
    ContainerProofs   links, the sequence, the map and the scan of arg

    Strings           String: who owns which block
    StringValues      what String promises: values
    StringProofs      each block has one owner, who loses one; strings are values
    Numbers           number(): CString's conversions, Maths' loops
    Message           EXTENDS Numbers: StaticString, and what kprint shows of it
    Library           Containers, Strings and Message, one user at a time
    LibraryProofs     containers and strings in Library; numbers and messages
    MCLibrary         values for TLC

**Memory.** Everything the allocator does is in multiples of 8 bytes, except
that clients may ask for any size, so the model counts in units of 8 bytes. A
`t_header` and a `t_freedList` are both two 4-byte words, one unit: a cell with the
words `p` (`prev_s` or `prev`) and `c` (`curr_s` or `next`). A word is a multiple of
8 and the `FREED_FLAG`, `[v, f]`. The code tells `TVAL(x)` and `x` apart with care
and so does the model: where the code compares or stores flagged words the
model compares and stores both fields (`Above`, `Joined`). Whether a cell is read
as a header or as a link is the reader's business, as in C++, so a stale link is
read for what is there. Addresses and sizes are modulo `W`, the size of the
address space in units (`2^29` on the machine): `Wrap`. `ALIGN` to 16 bytes is
rounding to even units; `HEAP_SIZE` is modelled with its pointer subtraction, its
sign and its conversion.

**State.** `mem`, `dibbs` (minfos.dibbs), `lock`, and for each thread `pc` and `loc`
(arguments and locals). `owned` is what clients hold, with the size they asked
for, and `hdrs` the set of places where chunks start; no guard reads either but
those of clients.

**Steps.** What a thread does under the lock cannot be seen half done by
another thread's locked code, so a function's stores under the lock are one
step, and each turn of a list walk is a step. Everything outside is a step of its
own: entering (`malloc`'s test of 0, `free`'s range check and its read of `next_h`),
each turn of `lock`'s loop, `calloc`'s zeroing, each `unlock` with what comes before
it, and the return to the client. Calls between functions follow the code:
`malloc` called from `realloc_relocate` is the same steps as from a client and
continues at `copy` (`MallocReturns`), `free` called from `realloc` continues with
`relock` (`FreeReturns`). `realloc(0, n)` and `realloc(p, 0)` are `malloc` and `free`.
`failure` is a state that only loops (`Halt`), with the lock held when
`add_allocable_mem` calls it.

The one access outside the lock to what others change is `free`'s read of its own
block's size; the others write that word only for blocks they hold or chunks
that are free, so no step reads a half-written word.

**Clients.** Any thread asks for any of the configured sizes, frees or
reallocates any block any thread has been given, and may overwrite a block it
holds at any time (`Write`). Clients are well behaved: they free what they
hold, once. Between the call and its end the block belongs to the call.

**Not modelled of the allocator**: the text it prints; `showAllocatedMemory`, which
loops forever after three lines; what `add_allocable_mem` has after `failure`,
which never returns. `check_linked_list` and `check_header` change nothing; what they
report as errors is the negation of `LinksMatch` and of part of `TagsAgree`.

**The screen.** `PrintEngine` is `operator()` statement by statement: a label is a
statement, the two assignments of `videoram` are two, and `scroll`'s `memcpy` and
`memset` one each. A print runs from its call to its end; `from` remembers the screen it
began with. What falls off the end of the screen is not seen, so the model stores
nothing there. The comment that bounds the cursor (lines 7-8) says `0 <= kX < 25` and
`0 <= kY < 80`; the code, and the model, have 80 columns and 25 lines, and with the
axes put right the comment is `CursorOnScreen`, wherever the cursor is used.
The kernel has handlers that print (`src/Interrupts.cpp`), but at this commit none is ever
entered: no IDT is loaded and nothing turns interrupts on (`sti`). Nor could a
model of them say anything: the vectors (`InterruptVectors.asm:9-25`) save no registers,
so a statement that one of them cut in two would go on with whatever the handler's C++
left there.

`Typed`, the reference, knows nothing of the code's order of tests: it is a terminal
of lines, with a line feed that scrolls at the bottom and an escape as a state.

**The containers.** A deque is a record of its members and its allocated nodes.
There is no trap for a null pointer in this kernel: reading through one, or
through a deleted node, gives `Junk`. `_mid` often becomes that (after four
insertions at the front it is null, after a deletion of its node it dangles),
and only `findNodeAt` ever looks at it, so the model goes on. A store or a
delete through such a pointer is where the model stops (`broken`), and so does a
failed `assert` or `failure()` (`failed`). `Sequence` says less than the comments
of the code, and names where. What `findNodeAt` returns is mostly not the element with
that index, so of a call by index it only says that it changes one place
(`InsertSome`, `DeleteSome`). `_size` is never decremented, so the bound of `deleteAt`
(`Containers.hh:52-53`) lets an index past the last element delete one, which
`DeleteSome` allows too; no property looks at `_size`. And `insertAt` of an iterator into
an empty deque leaves it with what it reads through a null pointer, against "Iterator
is still valid after" (line 59): that is an action of its own, `InsertIntoEmpty`, after which
the iterator is `Wild`, as it is when it is moved on from a null one.
`append` of another deque takes a step for each element;
it is never called with the deque itself, with which it would not end. An
iterator is moved by offsets of either sign: a negative one is handed to the
opposite operator, which has its own assert. `multiArg`'s map is a deque of
pairs of integers, and each turn of its loops is a step; characters are single
because an escape that is not replaced leaves the loop in the middle of the
text. The number of an escape is an `int`: `ToInt` wraps it, as the build, which does not
optimize, lets it, and what has become negative is not "too large". Its messages are not
modelled. The properties have escapes and numbers by a definition of their own: `Escape` by
the places of the `%`, the `L` and the digits, `Natural` without a bound; `NumbersFit` says
that each number is an `int`.

**Strings.** A `String` is its `data` and `len`; `block` is the memory that
`malloc` has given, with its bytes. `malloc` and `realloc` take any free block,
which is what the abstract allocator promises; that `BLMalloc` implements
`Allocator` is checked elsewhere (`ImplementsAllocator`). `strndup` copies the
characters and no 0, so `strlen` of a string's data goes on into the memory that
follows, `Trails`: `from` and the `cstr()` of a string that is not const make
strings of what they find there, and `StringValues` says so (`Rest`). What the
code does about null data is kept: the `cstr()` of an empty string stops in
`strlen`'s assert, a move to itself empties the string, the move assignment
forgets what the string had. A temporary of `operator+` is made and deleted
within the step. The library may be used by one thread at a time only, and is:
nothing in it locks.

**Numbers.** A conversion is a machine of its own: the sign, a turn of
`orderOfMagnitude`, a turn of `powImp` and a digit are a step each, and `f`,
`val` and `disc` are `size_t`, with `W` values, as are the quotient and the
remainder of a number of any type. `ToType` and `ToSize` are the conversions of
the language, so a small type's smallest number becomes a very large `size_t` as
it does in the code. `unsignedToChar` is `signedToChar` without its second line.
A division by zero is a trap nobody handles (`trapped`), a store past `buff` may
do anything (`broken`).

**Messages.** A `StaticString` never clears its buffer and `strcpy` and
`strncpy` write no 0, so it ends where the stack happened to be 0; `stack` is
what the stack is full of. Its `append` bounds what it copies by the whole
buffer and not by the rest of it. `kprint` takes a `String` as a `const char*`
and draws until a 0. `said` is what the message was to be: `Numeral` computes
the digits by their definition.

## 4. Which heaps

`HEAP_SIZE` is `minfos.start - minfos.end`: a number of headers, negated. In a
32-bit word that is almost 4 GB, so the first chunk of the kernel's 16 MB heap
reaches around the address space (run `kernel_heap`). The rest of the allocator's
code does not depend on this mistake, and a model of nothing but its consequence
would say nothing about it. The model therefore keeps the constructor as it is
and leaves the geometry to the constants `W`, `Bottom` and `Top`. For some of them
the first chunk ends exactly at `minfos.end` (`FirstChunkFits`): with `D` units
between start and end, when `D + ceil(D/8) = W - 1`. The passing runs take such
a geometry, (28, 2, 27) with 23 units to give out or (37, 2, 35) with 31, so that
they exercise the code on the heap its author meant. The theorems about types and the lock
assume nothing of the sort; those about the heap assume it (`FittingHeap`).

## 5. Runs

| Run | Checks | Bounds | Shows |
|---|---|---|---|
| `spinlock` | `MutualExclusion`, `SomebodyGetsIn` | 5 callers | the lock excludes; waiting is not in vain |
| `malloc_free` | tags, list, `Coalesced`, blocks, `SearchSoFar`, `NextStillNext`, `HeapRecovers`, `DataKept`, `LockDiscipline`, `ImplementsAllocator` | 2 threads, sizes 4 and 5 units (5 rounds to 6), heap of 23 | every interleaving of `malloc` and `free` until the heap is full, with up to four blocks and every order of freeing |
| `realloc` | tags, list, blocks, `DataKept`, `ImplementsAllocator` | 1 thread; `malloc` 4, `calloc` 2*2, `realloc` to 0, 4, 14, 24; heap of 31 | every branch of `realloc`: keep, reduce, absorb, upgrade, relocate, as `malloc` and as `free` |
| `realloc_grow` | list, blocks, `CopyFits`, `DataKept` | 2 threads, `malloc` 4, `realloc` to 14; heap of 23 | relocation, which gives the lock up three times, against every other call before its `malloc` and after its `free`; between the two the heap has no room for another block, and others can only wait, or stop the kernel |
| `whole_memory` | tags, list, `LockComesBack`, `WalksEnd` | 1 thread, `malloc` 4, `realloc` to 14; heap of 23, zero at first; junk written by the client | no step depends on what clients leave in blocks; every call ends, those that `realloc` makes among them, and the lock comes back |
| `print_engine` | `TypeOK`, `CursorOnScreen`, `ShowsText` | 4 columns, 3 lines; five texts, in any order | the cursor is on the screen when it is used; a print is a terminal's |
| `library` | `ChainExact`, `ImplementsSequence`, `MapRemembers`, `ScanFills` | 4 nodes, 4 insertions, 2 values, offsets 1 and -1; keys 1..3; 8 texts with 2 or 3 arguments, `int` of 2048 values | links stay exact under any calls and the iterator at its place, but after an insertion into an empty deque; a map of different keys is a function; `arg` collects the numbers that fit |
| | `OneOwner`, `LostOnlyByMove`, `ImplementsValues` | 2 strings, 3 blocks, texts of 0, 1 and 2 characters | each block has one owner, only a move assignment loses one, and strings are values |
| | `MessageShown`, `BuffersSuffice` | 8-bit `size_t`, all numbers of 4 and 8 bits with and without sign, bases 2, 10, 16; buffers of 8 and 12; messages of 3 parts | a message shows its numbers' digits, and only what is too long overruns a buffer |
| `multi_arg` | `ArgsAssigned` *fails* | the same texts | `arg` never finds an argument |
| `number_traps` | `NeverTraps` *fails* | the same numbers | the power that measures a large number wraps to 0 and is divided by |
| `stale_dibbs` | `DibbsIsFirst` *fails* | 1 thread | `realloc` growing into the first free chunk leaves `dibbs` inside a block |
| `shrink_race` | `LinksMatch` *fails* | 2 threads | the chunk `realloc` cuts off is taken by another `free` before it is in the list |
| `kernel_heap` | `BlocksInHeap` *fails* | the kernel's heap and address space, scaled down by 2^17 | the first block lies below the heap |

The heap of 23 units holds up to four of the small blocks, enough for a chunk
with free or used neighbours on either side and a list of two free chunks with a
used one between and around them: all cases of the two merges, of `assign_ptr`
(empty, before the first, after it, in the middle) and of the search (exact,
smallest of several, none). Two threads are enough for each window outside the
lock to meet every call of another; more threads only wait.

In `realloc` and `realloc_grow` the sizes are chosen so that the free chunk
`realloc` grows into is never the first of the list, and in `realloc_grow` no
call shrinks a block: the two defects that `stale_dibbs` and `shrink_race` show
would otherwise break every property, and hide whether anything else does.
The violation runs let exactly these cases happen. The defects of
`stale_dibbs` and `kernel_heap` were also seen by running the code itself on a
host, with the constructor's size corrected for the former.

Four columns are the fewest in which a tab fits (`Screen`), and with three lines
there are one to scroll in, one above and one below it. The texts have escapes
before a glyph, before another escape and at the end, tabs within a line and
past its end, newlines, returns and a character that is ignored; one
text ends in a newline, as the kernel's do, and one leaves the cursor inside a
line. One glyph is enough: it is only ever stored. Four nodes give a deque with
two inner nodes, all four cases of `findNodeAt`, and a `_mid` that is null,
dangles or comes to point at a node that was allocated again; three keys come
before, between and after those there are, and again. The texts of `arg` have numbers in
and against their order, one twice, one with an `L`, an escape at the end and a `%` alone,
more numbers than arguments, the largest number that is not too large and the next one, and
one that the `int` takes for -1: it has 2048 values here, the smallest power of 2 for which
1000 still fits.

The numbers are scaled from 32 bits to 8, and number()'s buffer with them: a
byte for each bit of the largest number, as in the code. What matters about 2^32
is kept: it is a power of 2 and of 16, so that the next power of the base wraps
to 0, and not one of 10, where it wraps to something else; 8 bits are small
enough to try all numbers. `Readable` says which of them come out right, by what
the loop needs: a power of the base that is greater than the number and fits, or
one that wraps to something greater. The smaller types (4 bits) are `u8` to
`s16`; with their smallest number `n *= -1` changes nothing. Messages of a text
of four characters twice, with and without a number, fill 12 bytes exactly, stay
below and run over. Two strings and three blocks let each own one with one to
spare, for a copy, a lost block or a realloc that moves; a text can grow, shrink
into its old block, and grow again in it. The memory after a block holds
something else than a 0: the case where it holds a 0 is the harmless one.

**View and symmetry.** The safety runs on two threads use a `VIEW`: states are
told apart by headers, the links of free chunks, the word at `end`, and everything
that is not memory, and not by what is left over inside blocks and free chunks.
One version of the rest remains in each state for the code to read by mistake.
`whole_memory` has no view and tells all states apart. The thread
permutations are a symmetry of the safety runs only. The nodes of a deque are
symmetric: `new` may return any; so are the blocks of strings.

**Memory at start.** `JunkRam` fills memory with words that look like flagged
sizes, a different one in each cell, so that `DataKept` notices a cell that
changes, is not copied or is copied from elsewhere. The word at `minfos.end`
(`curr_s` of the last header) is 0 in all runs, and all of memory in `whole_memory`, where
the junk is the client's: the constructor never writes it
(it writes the header one below) and `malloc` reads it when the list is empty,
taking anything but 0 there for a chunk.

**Fairness.** Each thread inside the allocator keeps executing: a thread is a
core (the README of the kernel wants one event loop per core) or is scheduled by
something that does not forget it. `Fairness` is weak fairness of `Step(t)`; it is
written with `CanStep` in place of `ENABLED` because TLC would compute that by trying
all the disjuncts. A walk over a link to itself changes nothing, so it is no step
to be fair to (`Circling`): a cycle in the list shows as a thread that stays
where it is. No client is bound to call anything. Nothing is assumed of who
gets the lock: with weak fairness a caller may lose every race, as with the real
loop, so for the lock only `SomebodyGetsIn` is stated and no call is claimed to
end while others keep taking the lock (`WalksEnd` stops at the lock).

**Mutants.** Every property of a passing run fails when one definition is
replaced by a plausible slip beside it: a forgotten `prev` store (`KeepPrev`), a
merge that ignores the flag (`MergeAnyBelow`) or writes no footer
(`MergePrevHeaderOnly`), sizes that forget the header (`JoinedShort`), rounding
down, a moved-from string that keeps its block, a text assigned without clearing
the old one, digits written over the sign, a lock taken without looping, tests
one column or line late, an iterator left at a deleted node, and so on.

## 6. Proofs

`SpinlockExcludes` to `OneThreadInside` hold for any number of threads, any
requests, any contents of memory and any geometry within `Geometry` (the heap has
room for two headers, and the sizes are multiples of 8 bytes) and `Clients`; those
of `HeapProofs` for the same with `FittingHeap`; those of `PrintProofs` for any
screen of at least four columns and two lines and any texts (`Screen`, `Text`), printed one
after the other.

Those of `ContainerProofs` hold for any nodes, values, insertions and offsets, any
keys and texts: `Pointers` (null is no node), `Requests` (the bound on insertions is a number
and the offsets are integers), `KeysOrdered` (keys are integers), `ArgTexts` (texts are
sequences), `IntWidth` (the largest `int` is a number). Those of `StringProofs` hold for any
strings, blocks and texts:
`StringPointers` (null is not a block) and `StringTexts` (what is read and written are
sequences of characters; literals, and what lies between a block's end and the
next 0, have no 0 in them). Those of `LibraryProofs` on numbers hold for any `size_t`, 8 bits, 32 or
no power of 2: `Machine` (types have an even number of values and are no larger than a `size_t`,
bases are 2 to 16), `Buffers` (512 is not less than 32, nor than a literal) and `Literal`
(literals have no 0 in them).

- `SpinlockExcludes`: `Spec => []MutualExclusion` of the lock. The invariant is
  inductive with the types: a test-and-set that finds 0 finds nobody inside.
- `TypeCorrect`: `Spec => []TypeOK` of the allocator. Every value it computes, in
  the heaps too where the first chunk reaches around the address space, is an
  address or a word: the work is in the lemmas that open `BLMallocProofs` (a sum
  or difference of two addresses needs one correction by `W`, stores of words keep
  a memory a memory) and in one lemma per action.
- `LockUsedAsLock`: `Spec => LockDiscipline`, a refinement. The mapping takes a
  thread's label to *out*, *spin* or *in*; each of the allocator's steps is a step of
  `Spinlock` or leaves lock and places alone. `realloc`'s calls of `malloc` and
  `free`, which lock again, are where this could fail: they are made after an
  `unlock`, and each way out of `realloc` has one `unlock`.
- `OneThreadInside`: `Spec => []Spin!MutualExclusion`, from the refinement and
  `SpinlockExcludes`, used through an instance of its module.
- `HeapSound`: `SoundSpec => []HeapInv`, and from it `TagsSound`, `ListSound`, `NeverSplit`,
  `BlocksSound`, `SearchSound`, `NextSound`, `CopySound`, `HeapComesBack` and `ChecksSound`, one
  for each state property of `HeapProperties`, `DataSound`, its action property `DataKept`, and
  `AllocatorImplemented`, the refinement.
  `PlainAllocator` is the same of `Spec`, for clients that do not resize. All of them are
  about heaps whose first chunk fits, which is not true of the kernel's. See below.
- `CursorTyped`, `CursorStays`: `Spec => []TypeOK` and `Spec => []CursorOnScreen` of the print
  engine, from one inductive invariant, `Inv`: the types with `Within`, which says of each
  statement where the cursor can be at it. `CursorOnScreen` is not inductive, since between
  a move and the tests for a full line and a full screen the cursor may be off the screen.
- `PrintsAsTerminal`: `Spec => ShowsText`, for any screen and text. The
  reference is a fold over the text, so the proof needs a page for each place in it:
  `Pages` is that sequence of pages, and `FeedsExist`, by induction, that there is one. The
  invariant says that memory, cursor and attribute agree with the page of the place the
  print has come to, at every statement: `Ahead` is the page the statements still to be
  run for this character will make of what is on the screen (at `scroll`, the lines moved up
  and the last one cleared). There is one lemma for each statement, and `LinesCopied`,
  `LinesCleared` and `CharStored` turn its stores into the video memory into changes of the
  page's lines.
- `LinksExact`: `ContainersSpec => []ChainExact`. `ChainExact` cannot be used step by
  step: it speaks of a walk, of which a store in the middle changes all that is
  behind it. The proof has a sequence `s` of the nodes in their order instead:
  `Chain(e, s)` says what each node's `next` and `prev` and the deque's `_first` and `_last`
  are in terms of `s`, whatever `_mid` is. `InsertedChain` and `RemovedChain` say what a
  deque becomes whose links are stored as an insertion or a removal stores them;
  `AfterInserted`, `BeforeInserted`, `SingleInserted` and `DeleteRemoves` that the code's
  pointer stores do, in each of their cases (at either end, in the middle, the
  last node); `AssignChain` that a copy of a deque has a chain of its own.
- `DequeIsSequence`: `ContainersSpec => ImplementsSequence`, a refinement. `Items` and
  `PlaceOf` are the abstract sequence and the iterator's place in it, by the same
  chain; each operation is a `SequenceStep`, and `WalkAhead`, `WalkBack` and
  `WalkNowhere` say where an iterator is after a walk of any distance: at the element so far
  on, null if that is one past an end, wild beyond. An insertion by iterator is `InsertBefore`,
  with the iterator at the new element, but into an empty deque (`BeforeStep`).
- `MapIsFunction`: `ContainersSpec => []MapRemembers`, by `Sorted` and `MapIs`: the pairs
  along the chain have increasing keys, and are those that were put. Where a key is
  put a second time, `insert` stores the value into the key (finding 3), so the
  property, and the theorem, are about maps of different keys.
- `ScanExact`: `ContainersSpec => []ScanFills`, for any text whose numbers fit an `int`.
  `Scanned` says that the map holds the numbers of the escapes before the place of the scan,
  without arguments. `EscapeRead` shows that what `getEscape` reads at a `%` is the escape that
  the reference has there, or that there is none or it is too large: `EscapeOnce` that there is
  one at most, `DecimalIs` that the `int` is its number as long as that fits, since a number only
  grows with its digits (`SumsGrow`). `NumbersMore` and `NumbersSame` say how the reference's
  numbers grow with the place. A number that the text has twice has its key overwritten by -1, and it is the
  assert after the insertion that notices (`ScannedNew`), so that the scan ends there and the
  invariant holds as long as it goes on.
- `StringsOwn`, `MovesAloneLose`: `StringSpec => []OneOwner` and `StringSpec =>
  LostOnlyByMove`. `OneOwner` is inductive together with the types, which
  say that what a block holds is a text. Most operations are one case of
  `BecomesKeeps`: one string gets new data in a memory that keeps the other strings'
  blocks and not its old one. `AssignKeeps`, `AppendKeeps` and `MakeKeeps` show that a
  `strndup`, a `free` before it and a `realloc` that moves or stays are such cases. The
  move assignment is not one, since it leaves its old block in the memory, and
  `MovesAloneLose` says it is alone in that.
- `StringsAreValues`: `StringSpec => ImplementsValues`, a refinement. It needs `OneOwner`
  (a store into one string's block is into no other's) and one fact more, `Clean`:
  behind its text a string's block has only zeros. That is owed to the `bzero` after
  a shorter text is copied into the old block, and what makes `from` and `+`, which
  look for a 0, find the rest of the text, and the memory behind the block only if
  the text fills it (`FromDataIs`).
- `LibrarySound`: the theorems on containers and strings for `Library`, the specification
  that the run `library` checks: `Spec => ContainersSpec` and `Spec => StringSpec`, since the
  library steps one part at a time by that part's own actions.

- `MessagesRead`, `BuffersAreEnough`: `Spec => []MessageShown` and `Spec => []BuffersSuffice` of
  `Library`, for any `size_t`, types, bases and buffers. `MessageInv` follows a conversion of a
  `Readable` number through its loops (`Converts`), with the powers of the base as a function
  `g`. In `orderOfMagnitude` the word `f` is the power it means, or it wrapped and is greater
  than the number (`Fits`); that is what `Readable` is for, and why the loop neither goes on nor
  divides by 0. In `pow` the word `val` is the power it means. Among the digits (`AtDigits`), what
  is written are the digits of some `q`, `Size = g[left] * q + n`, and `n < g[left]`: a store
  makes `q` one digit longer (`DigitFound`, `OneMore`). `WrittenLength` is why the place of the last digit
  can be told from the power, and so why a store past the buffer means a number too long for
  it. After that a static string is its text and then the old stack (`StringOf`), as `StaticString`
  and `append` make it, and `kprint` shows the text (`ShownIs`).
  The recursive functions in `Digits` and `TopPower` exist by induction over what they go to
  (`WrittenExist`, `TopsExist`). Division is known to the prover by its types only;
  `Divides` and `DividesOnce` are all the proofs use of it.
- `SmallNumbersRead`: that `Readable` excludes little. It holds of all numbers with `Size * base`
  below `W`, but for the smallest of a signed type, whose sign the code cannot take off.

**The heap.** `FittingHeap` assumes three things. The constructor's first chunk
ends at `minfos.end` (section 4). No request is within 32 bytes of 2^32, where `ALIGN`
or the sizes `malloc` compares it with wrap (two hazards without a property). The word at `minfos.end`, which nobody writes
and `malloc` reads, is 0, as it is in the zeroed memory of a fresh machine. The runs
`malloc_free`, `realloc`, `realloc_grow` and `whole_memory` are instances of it. The kernel's
own heap is not: its first chunk reaches around the address space (run `kernel_heap`), and of
it only the theorems on types and the lock hold. The theorems on the heap are about the
allocator with the constructor's size put right.

Two kinds of steps of `realloc` spoil the heap (findings 2 and 4). `SoundSpec` is the
allocator without them, and they are named by what they do: `GrowsIntoFirst`, a `realloc`
that grows into the chunk `dibbs` points at, or into one that another thread's `realloc`
has cut off and not yet freed; `MergesLoose`, a `free` that merges with such a chunk. All else is
allowed, any other interleaving of `realloc` with anything included, so the theorems
say that these two are the only defects of the kind. They are `realloc`'s alone:
`WithoutRealloc` shows that in such a heap, where `realloc` is only asked to free, `Spec` and
`SoundSpec` are the same, so that `PlainAllocator` excludes no step of the code, but only
heaps. Of its calls that is how the kernel uses the allocator: `operator new` and `delete` are
`malloc` and `free`, and nobody runs the `append` of `String`, the one caller of `realloc`.

No property of the heap is inductive by itself. `HeapInv` joins the tiling
(`Tiles`), the footers (`Footers`), the list (`FreeList`), `Coalesced` and `BlocksAccountedFor`
with what the calls have in their locals at each place (`Calls`): a step's stores go
where its locals say, and what makes these right was often found before the lock was
given up. `CallOK` says of each label which blocks the call has, and how large they
are against what was asked; `FreeOK` that the `nxt` that `free` read without the lock is
still what comes after the block; `AssignOK` that the chunk `assign_ptr` is to insert has no
free neighbour and that its walk has not passed its place; `SearchOK` is `SearchSoFar`.
The two locals in use while walking, `f` and `best`, are addresses of list elements,
and remain so because nobody else is inside: that is where `OneThreadInside` comes in
(`Alone`), without which the invariant is not inductive.

`HeapLemmas` is about heaps and not about the allocator: what splitting a chunk (`SplitAt`),
joining two, flagging one, inserting, unlinking and moving a list element make of `Tiles`,
`Footers` and `FreeList`, for any memory, chunks and listed chunks. `HeapProofs` has one
lemma for each step of `BLMalloc`, on three frames: `Calm` (the heap does not change, one
call's locals do), `Frame` (one call changes the heap, the other calls' blocks and
locals stay as they are) and `Frees` (the chunk in hand becomes a listed one). `HeapInv` was
checked by TLC on the runs' instances as well; what its first version lacked came out of a
failed proof: that a block stays in use until its `free` flags it (`FreeOK`).

`DataSound` is about pairs of states and needs more than the invariant: where a step stores.
`BlocksKept(T)` says that it leaves every cell between a header and its footer, in every chunk but
those of `T`, as it was. The lemmas on the steps that rebuild the heap conclude it along with the
invariant, with `T` the listed chunks and the caller's own. `DataOfStep` makes of it that a client's
block, and the block that another call's `realloc` carries (`DataHeld`: in use, held by that call,
no shorter than its data), are not in `T` and keep their contents. What is left is the data of the
`realloc` that steps: it stays where it is (`DataStays`) but for two steps, `memcpy` (`DataCopy`), which
brings it to a block that is large enough, and the resizing in place (`DataResizes`).

**Induction.** The library's induction theorems take an operator as a parameter and
cannot be cited. What the proofs on containers need of it is induction on natural
numbers, and that is a fact about sets: `Least` (a set of naturals has a least one,
from the library's well-foundedness) and `Induct` (a set with 0 and successors is all
of them). With these, walks of any distance (`WalkSteps`), the decimal value of
a text's digits (`SumsExist`, `DecimalIs`), the pages of a text (`FeedsExist`) and the digits of a
number (`WrittenLength`) are covered.

**Only model-checked.** Liveness (`LockComesBack`, `WalksEnd`, `SomebodyGetsIn`), which is out of
the prover's reach. All else that a passing run checks is the property of a theorem. That
the types are right is proved of the allocator (`TypeCorrect`) and not checked by a run. The
violation runs need no proof: TLC's trace is one.

## 7. Findings

1. `HEAP_SIZE` (line 56): a pointer difference taken for a byte count, reversed.
   The comment at lines 557-558 records the symptom.
2. `realloc_upgrade` and `merge_perfect_size` (lines 275, 253) never update `dibbs`,
   against the comment at line 353. It takes a chunk at the bottom that a perfect match
   took whole, and a free one after it that is now the first.
3. `operator*` of the map's iterators (`Iterators.hh:88`) is the key: `arg()` numbers the
   keys and never replaces anything, against the comment at `String.cpp:183`. Seen
   too by running the containers on a host.
4. `realloc_reduce` (line 304) flags a chunk free and gives up the lock before the
   chunk is in the list, and `check_linked_list` would report the outcome.
5. `orderOfMagnitude` (`Maths.cpp:9`) divides by a power that wraps to 0 for numbers from
   2^28 in base 16 and 2^31 in base 2, and goes wrong from 1410065408 in base 10: the
   "processor bug" of the comment at `BLMalloc.cpp:556-559`. Seen too by running
   the conversion on a host, as was the old stack that a message is followed by.

## 8. Not modelled

- **Boot** (`Boot.asm`, `BootProcess.cpp`, `Main.cpp`): code that runs once from top to
  bottom, with one thread and no interrupts, on processor registers and descriptor
  tables; its only branches are the panics, and the constructors of the allocator and of
  `kprint` use nothing of each other, so that their order does not matter. Its messages are those of `Message`.
- **Interrupts** (`Interrupts.cpp`, `InterruptVectors.asm`): nothing enters a handler at this
  commit, and the vectors save no registers (section 3).
- **C++ runtime** (`CXXABI/`): the guard of the one local static, `PrintEngine::inst`, is
  taken once, by a constructor at boot, with no other thread; it would be a race if it were
  called first from two.
- **Heaps with sizes near 2^32**: `ALIGN` and `calloc` wrap there (see the hazards). The
  model wraps as they do and the type proofs cover it, but no run asks for them: every
  property of blocks would fail.
- **`==` of String**, `strcmp`, `at`, `[]`: they change nothing.
- **List, Keyboard, EventLoop, `future/`**: commented out, empty or not built.
