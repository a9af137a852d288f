-------------------------------- MODULE Sfmm --------------------------------
(***************************************************************************)
(* The heap allocator of lab3/src/sfmm.c, word by word: boundary tags,     *)
(* segregated free lists, splitting, coalescing and growth by pages.       *)
(*                                                                         *)
(* Sizes and addresses of blocks are in units of 16 bytes; a unit holds    *)
(* two words.  A block at unit a has its header in the second word of a,   *)
(* its payload from unit a+1 on, and its footer in the first word of the   *)
(* unit behind it (prev_footer of the next block).  A word records what    *)
(* was stored in it: a header, a header XOR'ed with sf_magic() ("foot"),   *)
(* a list link, or the data of a user.                                     *)
(*                                                                         *)
(* Users make legal calls only, and fill all they asked for with their     *)
(* own tag.  Calls stop once the heap is damaged: what a call does to a    *)
(* damaged heap is not claimed.  Which calls damage it is.                 *)
(***************************************************************************)
EXTENDS Integers, SequencesExt

CONSTANTS Page,      \* units in a page (PAGE_SZ / 16)
          MaxPages,  \* pages sf_mem_grow can give
          NumLists,  \* NUM_FREE_LISTS
          Users,     \* tags of the users, positive numbers
          Requests,  \* sizes the users ask for, in words
          MaxCalls   \* bound on the calls of a behaviour

ASSUME SfmmAssumption ==
    /\ Page \in Nat /\ Page >= 5 /\ MaxPages \in Nat \ {0} /\ NumLists \in Nat \ {0}
    /\ Users \subseteq Nat \ {0} /\ Requests \subseteq Nat \ {0} /\ MaxCalls \in Nat

VARIABLES mem,     \* the words of the heap and of the list heads
          pages,   \* pages obtained so far
          status,  \* "run", "abort", "wild" (a garbage link was followed) or "missed"
          live,    \* what each user holds: block (0 for none) and words asked for
          call     \* the last call, and the neighbours it found free

vars == <<mem, pages, status, live, call>>
-----------------------------------------------------------------------------
(***************************************************************************)
(* Words.  The head of free list i lies at a negative unit.                *)
(***************************************************************************)
Foot(a) == 2 * a
Hdr(a)  == 2 * a + 1
Next(a) == 2 * a + 2
Prev(a) == 2 * a + 3
List(i) == -2 * (i + 1)

Head_(s, alloc, prev) == [kind |-> "head", size |-> s, alloc |-> alloc, prev |-> prev]
Link(a)  == [kind |-> "link", size |-> a, alloc |-> FALSE, prev |-> FALSE]
Data(p)  == [kind |-> "data", size |-> p, alloc |-> FALSE, prev |-> FALSE]
Magic(w) == [w EXCEPT !.kind = "foot"]

Words    == (-4 * NumLists)..(2 * Page * MaxPages)
End(n)   == n * Page - 1           \* unit of the epilogue when the heap has n pages
Most     == (Page * MaxPages) \div 2
Size(m, a)  == m[Hdr(a)].size
Behind(m, a) == a + Size(m, a)     \* the block after a
\* Stores the footer of block a at unit b.
Tag(m, a, b) == [m EXCEPT ![Foot(b)] = Magic(m[Hdr(a)])]
SetHdr(m, a, w) == [m EXCEPT ![Hdr(a)] = w]
SetTagged(m, a, w) == Tag(SetHdr(m, a, w), a, a + w.size)

Class(s) == CHOOSE i \in 0..NumLists - 1 :
              /\ s <= 2 ^ (i + 1) \/ i = NumLists - 1
              /\ \A j \in 0..i - 1 : s > 2 ^ (j + 1)

add_free_memory(m, b) ==
    LET h == List(Class(Size(m, b)))
        t == m[Next(h)].size
    IN [m EXCEPT ![Next(h)] = Link(b), ![Prev(b)] = Link(h),
                 ![Next(b)] = Link(t), ![Prev(t)] = Link(b)]

delete_element(m, b) ==
    LET p == m[Prev(b)].size
        n == m[Next(b)].size
    IN [m EXCEPT ![Prev(n)] = Link(p), ![Next(p)] = Link(n)]

\* Whether delete_element(b) would follow something that is not a link.
Garbled(m, b) == m[Prev(b)].kind # "link" \/ m[Next(b)].kind # "link"

\* The blocks from b to the head of its list, in the order of the next links
\* (at most k of them).
RECURSIVE From(_, _, _)
From(m, b, k) ==
    IF b < 0 \/ k = 0 THEN <<>>
    ELSE <<b>> \o IF m[Next(b)].kind = "link" THEN From(m, m[Next(b)].size, k - 1) ELSE <<>>
Nodes(m, i) == From(m, m[Next(List(i))].size, Most)

\* Faulty: a block of exactly the wanted size is passed over.
FittingStrict(m, s) ==
    SelectSeq(FlattenSeq([j \in 1..NumLists - Class(s) |-> Nodes(m, Class(s) + j - 1)]),
              LAMBDA b : Size(m, b) > s)
\* The free blocks the search meets that are large enough, in its order.
Fitting(m, s) ==
    SelectSeq(FlattenSeq([j \in 1..NumLists - Class(s) |-> Nodes(m, Class(s) + j - 1)]),
              LAMBDA b : Size(m, b) >= s)
-----------------------------------------------------------------------------
(***************************************************************************)
(* sf_malloc.  A heap is [m, n, at]: memory, pages, and the block returned *)
(* (0 for NULL).                                                           *)
(***************************************************************************)
\* size + 16 bytes, rounded up to a multiple of 16, for a request of w words.
BlockSize(w) == (w + 1) \div 2 + 1

InitHeap(m) ==
    LET b == Head_(Page - 3, FALSE, TRUE)
        lists == [x \in Words |-> IF \E i \in 0..NumLists - 1 : x \in {Next(List(i)), Prev(List(i))}
                    THEN Link(CHOOSE a \in {List(i) : i \in 0..NumLists - 1} : x \in {Next(a), Prev(a)})
                    ELSE m[x]]
        tags  == SetTagged(SetTagged(lists, 0, Head_(2, TRUE, TRUE)), 2, b)
    IN add_free_memory(SetHdr(tags, End(1), Head_(0, TRUE, FALSE)), 2)

\* The first fit is split when a block of the minimum size would remain.
Take(m, s) ==
    LET b    == Fitting(m, s)[1]
        have == Size(m, b)
        rest == b + s
        split == LET m1 == add_free_memory(SetTagged(m, rest, Head_(have - s, FALSE, TRUE)), rest)
                 IN delete_element(SetTagged(m1, b, Head_(s, TRUE, TRUE)), b)
        whole == LET m1 == delete_element(SetTagged(m, b, Head_(have, TRUE, TRUE)), b)
                     c  == b + have
                     w  == Head_(Size(m, c), TRUE, TRUE)
                 IN IF Size(m, c) # 0 THEN SetTagged(m1, c, w) ELSE SetHdr(m1, c, w)
    IN [m |-> IF have - s >= 2 THEN split ELSE whole, at |-> b]

\* One page more, joined to the last block when that is free.  The PREV bit
\* of the joined block is copied from the block before it.
Grow(h) ==
    LET b     == End(h.n)
        e     == SetHdr(h.m, End(h.n + 1), Head_(0, TRUE, FALSE))
        last  == h.m[Foot(b)]
        t     == b - last.size
        fresh == add_free_memory(SetTagged(e, b, Head_(Page, FALSE, TRUE)), b)
        join  == add_free_memory(
                   SetTagged(delete_element(SetHdr(e, b, Head_(Page, FALSE, FALSE)), t), t,
                             Head_(Page + last.size, FALSE, h.m[Foot(t)].prev)), t)
    IN [h EXCEPT !.m = IF last.alloc THEN fresh ELSE join, !.n = @ + 1]

\* Pages are asked for until a block fits or none is left (NULL).
RECURSIVE search_block(_, _)
search_block(h, s) ==
    IF Fitting(h.m, s) # <<>>
    THEN LET t == Take(h.m, s) IN [h EXCEPT !.m = t.m, !.at = t.at]
    ELSE IF h.n < MaxPages THEN search_block(Grow(h), s) ELSE h

sf_malloc(m, n, w) ==
    search_block(IF n = 0 THEN [m |-> InitHeap(m), n |-> 1, at |-> 0]
                 ELSE [m |-> m, n |-> n, at |-> 0], BlockSize(w))
-----------------------------------------------------------------------------
(***************************************************************************)
(* sf_free.  The result is [m, st]: memory and what became of the program. *)
(***************************************************************************)
\* Faulty: the footer is not compared with the header.
RejectedByHeader(m, a) ==
    \/ ~m[Hdr(a)].alloc
    \/ Size(m, a) < 2
    \/ ~m[Hdr(a)].prev /\ m[Hdr(a - m[Foot(a)].size)].alloc
\* sf_free aborts.  (In a sound heap the range checks never fail.)
Rejected(m, a) ==
    \/ ~m[Hdr(a)].alloc
    \/ m[Foot(Behind(m, a))] # Magic(m[Hdr(a)])
    \/ Size(m, a) < 2
    \/ ~m[Hdr(a)].prev /\ m[Hdr(a - m[Foot(a)].size)].alloc

\* Faulty: the next block is not told that the one before it is free.
ClearPrevNot(m, c, from) == m
\* The block c behind a freed one loses its PREV bit and its footer is written
\* again: at its own end, or, when the block before c was merged too, at as
\* many units from the start `from` of that block.
ClearPrev(m, c, from) ==
    IF Size(m, c) = 0 THEN m
    ELSE Tag(SetHdr(m, c, Head_(Size(m, c), TRUE, FALSE)), c, from + Size(m, c))

sf_free(m, a) ==
    LET first == IF m[Hdr(a)].prev THEN a ELSE a - m[Foot(a)].size
        left  == IF first = a THEN m ELSE delete_element(m, first)
        b     == Behind(m, a)
        c     == IF m[Hdr(b)].alloc THEN b ELSE Behind(m, b)
        merged(x) == SetTagged(x, first, Head_(c - first, FALSE, TRUE))
        done  == IF c = b THEN ClearPrev(merged(left), b, b)
                 ELSE ClearPrev(merged(delete_element(left, b)), c, b)
    IN IF Rejected(m, a) THEN [m |-> m, st |-> "abort"]
       ELSE IF ~m[Hdr(b)].alloc /\ Garbled(left, b) THEN [m |-> m, st |-> "wild"]
       ELSE [m |-> add_free_memory(done, first), st |-> "run"]
-----------------------------------------------------------------------------
(***************************************************************************)
(* sf_realloc.                                                             *)
(***************************************************************************)
\* Shrinking: the tail becomes an allocated block, which is then freed.  The
\* footer of the block behind is written again at a wrong place.
Shrink(m, a, s) ==
    LET t  == a + s
        c  == Behind(m, a)
        m1 == SetTagged(m, a, Head_(s, TRUE, m[Hdr(a)].prev))
        m2 == SetTagged(m1, t, Head_(c - t, TRUE, TRUE))
    IN sf_free(IF Size(m, c) = 0 THEN m2 ELSE Tag(m2, c, t + Size(m, c)), t)

\* Moving: as many bytes as the old block has are copied (16 more than its
\* payload), then the old block is freed with its PREV bit set.
Move(m, a, new) ==
    LET s  == Size(m, a)
        m1 == [x \in Words |-> IF x \in Next(new)..Hdr(new + s) THEN m[x - Hdr(new) + Hdr(a)] ELSE m[x]]
    IN sf_free(SetTagged(m1, a, Head_(s, TRUE, TRUE)), a)
-----------------------------------------------------------------------------
(***************************************************************************)
(* Users and their calls.                                                  *)
(***************************************************************************)
None == [at |-> 0, words |-> 0]
\* User p fills the words after the first k of the w it asked for.
Fill(m, a, k, w, p) == [x \in Words |-> IF x \in Next(a) + k..Hdr(a) + w THEN Data(p) ELSE m[x]]

Init ==
    /\ mem = [x \in Words |-> Data(0)]
    /\ pages = 0
    /\ status = "run"
    /\ live = [p \in Users |-> None]
    /\ call = [op |-> "none", by |-> 0, at |-> 0, words |-> 0, ret |-> 0, alone |-> TRUE, n |-> 0]

\* Notes the call; alone: not both neighbours of the block p held were free.
Record(op, p, w, ret) ==
    LET a == live[p].at
    IN call' = [op |-> op, by |-> p, at |-> a, words |-> w, ret |-> ret, n |-> call.n + 1,
                alone |-> a = 0 \/ mem[Hdr(a)].prev \/ mem[Hdr(Behind(mem, a))].alloc]

\* Users that hold nothing are interchangeable: the first of them calls.
Malloc(p, w) ==
    LET h == sf_malloc(mem, pages, w)
    IN /\ live[p] = None /\ \A q \in Users : q < p => live[q] # None
       /\ mem' = IF h.at = 0 THEN h.m ELSE Fill(h.m, h.at, 0, w, p)
       /\ pages' = h.n
       /\ live' = IF h.at = 0 THEN live ELSE [live EXCEPT ![p] = [at |-> h.at, words |-> w]]
       /\ Record("malloc", p, w, h.at)
       /\ UNCHANGED status

Free(p) ==
    LET f == sf_free(mem, live[p].at)
    IN /\ live[p] # None
       /\ mem' = f.m /\ status' = f.st
       /\ live' = [live EXCEPT ![p] = None]
       /\ Record("free", p, 0, 0)
       /\ UNCHANGED pages

\* A size of 0 is Free; the same or a larger block size moves the block.
ReallocMove(p, w) ==
    LET a == live[p].at
        h == sf_malloc(mem, pages, w)
        f == Move(h.m, a, h.at)
    IN /\ live[p] # None /\ BlockSize(w) >= Size(mem, a)
       /\ IF h.at = 0
          THEN mem' = h.m /\ UNCHANGED <<status, live>>
          ELSE /\ mem' = Fill(f.m, h.at, live[p].words, w, p) /\ status' = f.st
               /\ live' = [live EXCEPT ![p] = [at |-> h.at, words |-> w]]
       /\ pages' = h.n
       /\ Record("move", p, w, h.at)

ReallocShrink(p, w) ==
    LET a == live[p].at
        f == Shrink(mem, a, BlockSize(w))
        cut == Size(mem, a) - BlockSize(w) >= 2
    IN /\ live[p] # None /\ BlockSize(w) < Size(mem, a)
       /\ mem' = Fill(IF cut THEN f.m ELSE mem, a, live[p].words, w, p)
       /\ status' = IF cut THEN f.st ELSE status
       /\ live' = [live EXCEPT ![p].words = w]
       /\ Record("shrink", p, w, a)
       /\ UNCHANGED pages

\* A pointer freed by the last call is freed once more; the program ends there.
FreeAgain ==
    LET f == sf_free(mem, call.at)
    IN /\ call.op = "free"
       /\ mem' = f.m /\ status' = IF f.st = "abort" THEN "abort" ELSE "missed"
       /\ call' = [call EXCEPT !.op = "again"]
       /\ UNCHANGED <<pages, live>>
-----------------------------------------------------------------------------
(***************************************************************************)
(* The shape of a sound heap.                                              *)
(***************************************************************************)
\* The blocks from b on, with the unit where the walk ends.
RECURSIVE Walk(_, _, _)
Walk(m, n, b) ==
    {b} \cup IF b \in 2..End(n) - 2 /\ m[Hdr(b)].kind = "head" /\ Size(m, b) > 0
             THEN Walk(m, n, Behind(m, b)) ELSE {}
Visited == Walk(mem, pages, 2)
Blocks == Visited \ {End(pages)}
FreeBlocks == {b \in Blocks : ~mem[Hdr(b)].alloc}

\* Blocks tile the heap between prologue and epilogue, footers repeat headers.
Tiled ==
    /\ End(pages) \in Visited
    /\ \A b \in Blocks : /\ mem[Hdr(b)].kind = "head" /\ Size(mem, b) >= 2
                         /\ mem[Foot(Behind(mem, b))] = Magic(mem[Hdr(b)])
    /\ mem[Hdr(End(pages))].kind = "head" /\ Size(mem, End(pages)) = 0

\* A block knows whether the one before it is allocated, and none that is free
\* lies behind a free one.
Coalesced ==
    \A b \in Blocks : LET c == Behind(mem, b) IN
        c # End(pages) => /\ mem[Hdr(c)].alloc => mem[Hdr(c)].prev = mem[Hdr(b)].alloc
                          /\ mem[Hdr(b)].alloc \/ mem[Hdr(c)].alloc

\* Each free list holds the free blocks of its class, once, linked both ways.
Listed ==
    \A i \in 0..NumLists - 1 :
        LET s == Nodes(mem, i)
            c == <<List(i)>> \o s \o <<List(i)>>
        IN /\ ToSet(s) = {b \in FreeBlocks : Class(Size(mem, b)) = i}
           /\ Len(s) = Cardinality(ToSet(s))
           /\ \A k \in 1..Len(c) - 1 : /\ mem[Next(c[k])] = Link(c[k + 1])
                                       /\ mem[Prev(c[k + 1])] = Link(c[k])

\* The allocated blocks are those the users hold, large enough and unharmed.
Holding == {p \in Users : live[p] # None}
Unharmed ==
    /\ Blocks \ FreeBlocks = {live[p].at : p \in Holding}
    /\ \A p \in Holding :
         /\ BlockSize(live[p].words) <= Size(mem, live[p].at)
         /\ \A x \in Next(live[p].at)..Hdr(live[p].at) + live[p].words : mem[x] = Data(p)
         /\ \A q \in Holding \ {p} : live[q].at # live[p].at

Intact == status = "run" /\ (pages > 0 => Tiled /\ Coalesced /\ Listed /\ Unharmed)
-----------------------------------------------------------------------------
Next_ ==
    /\ Intact /\ call.n < MaxCalls
    /\ \/ \E p \in Users, w \in Requests : Malloc(p, w) \/ ReallocMove(p, w) \/ ReallocShrink(p, w)
       \/ \E p \in Users : Free(p)
       \/ FreeAgain

Spec == Init /\ [][Next_]_vars
-----------------------------------------------------------------------------
(***************************************************************************)
(* Properties.                                                             *)
(***************************************************************************)
\* A block is freed before a free one, and the block behind that is at least as
\* large as it: its footer goes over the merged footer, or into its own payload
\* (sf_free, temp3 computed from temp instead of temp2).
FreeStrays(m, a) ==
    LET b == Behind(m, a)
        c == Behind(m, b)
    IN ~m[Hdr(b)].alloc /\ Size(m, c) # 0 /\ Size(m, c) >= Size(m, b)

\* A block is moved although the one before it is free (its PREV bit is set all
\* the same and the two are not joined), or to a block of its own size (the copy
\* runs over the new block's footer and the next header, which matters unless
\* that header happens to be the same), or the freeing strays.
MoveStrays(p, w) ==
    LET h == sf_malloc(mem, pages, w)
        a == live[p].at
    IN h.at # 0 /\ \/ ~h.m[Hdr(a)].prev
                   \/ /\ Size(h.m, h.at) = Size(mem, a) /\ Behind(h.m, h.at) # a
                      /\ h.m[Hdr(Behind(h.m, h.at))] # h.m[Hdr(Behind(h.m, a))]
                   \/ FreeStrays(h.m, a)

\* The tail cut off is smaller than the allocated block behind it, or the block
\* behind is free and its footer lands on the tail's footer or on its own links,
\* or the freeing strays.
ShrinkStrays(a, w) ==
    LET tail == Size(mem, a) - BlockSize(w)
        c    == Behind(mem, a)
    IN /\ tail >= 2 /\ Size(mem, c) # 0
       /\ \/ mem[Hdr(c)].alloc /\ Size(mem, c) > tail
          \/ ~mem[Hdr(c)].alloc /\ Size(mem, c) \in {tail, tail + 1}
          \/ FreeStrays(mem, a)

\* Calls that damage the heap.
Strays ==
    LET p == call'.by IN
    \/ call'.op = "free" /\ FreeStrays(mem, live[p].at)
    \/ call'.op = "move" /\ MoveStrays(p, call'.words)
    \/ call'.op = "shrink" /\ ShrinkStrays(live[p].at, call'.words)

\* A legal call damages the heap (headers, footers, lists, tiling, or the data of
\* any user), aborts or follows a garbage link exactly in the cases above; every
\* other sequence of sf_malloc, sf_free and sf_realloc keeps all of it.
DamageKnown == [][call'.op # "again" => (~Intact' <=> Strays)]_vars

\* Whether s units in a row belong to no block that a user holds.
Room(s) ==
    \E u \in 2..End(pages) - s : \A p \in Holding :
        u + s <= live[p].at \/ Behind(mem, live[p].at) <= u

\* Freeing a block once more right after it was freed aborts, as sfmm.h says of
\* invalid pointers, except when both its neighbours were free: their tags, left
\* inside the merged block, still pass every test of sf_free.
DoubleFreeAborts == [][call'.op = "again" => (status' = "abort" <=> call'.alone)]_vars

\* Free space is always joined and found again: a page is asked for only when no
\* gap between the blocks that are held, however they were freed, would hold the
\* request, and NULL is returned only when there is no page left either.
SpaceIsFound ==
    [][/\ pages > 0 /\ pages' > pages => ~Room(BlockSize(call'.words))
       /\ call'.op \in {"malloc", "move"} /\ call'.ret = 0
            => pages' = MaxPages /\ ~Room(BlockSize(call.words))']_vars
=============================================================================
