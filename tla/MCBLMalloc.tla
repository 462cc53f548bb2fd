----------------------------- MODULE MCBLMalloc -----------------------------
EXTENDS HeapProperties, TLC

Zero == [v |-> 0, f |-> FALSE]

ZeroRam == [a \in Addr |-> [p |-> Zero, c |-> Zero]]

(* Memory full of what looks like free chunks and links, each cell another,*)
(* but for the size at end, which the constructor leaves alone and malloc  *)
(* reads.                                                                  *)
Junk(a) == [v |-> a, f |-> TRUE]
JunkRam == [a \in Addr |-> [p |-> Junk(a), c |-> IF a = End THEN Zero ELSE Junk(a)]]

OneCalloc == {<<2, 2>>}

JunkPayload == {[p |-> Junk(3), c |-> Junk(3)]}

Symmetry == Permutations(Threads)

(* States are told apart by the memory that carries tags and links: the    *)
(* headers, the links of the free chunks and end.  What is left over in    *)
(* blocks and inside free chunks is there for the code to read by mistake, *)
(* in one version per view.                                                *)
Tags == hdrs \cup {h + 1 : h \in {g \in hdrs : mem[g].c.f}} \cup {End}
View == <<[a \in Tags |-> mem[a]], dibbs, lock, pc, loc, owned>>
=============================================================================
