----------------------------- MODULE KernelHeap -----------------------------
(***************************************************************************)
(* The kernel heap of Src/memory.c: a first-fit allocator over one arena,  *)
(* whose blocks are chained by in-band headers (prev, next, length, used). *)
(*                                                                         *)
(* The heap has no lock and no caller but the kernel thread, so a call     *)
(* runs to its end before the next one starts.  A call is still several    *)
(* steps here: the walk of malloc is one step per block, and calloc and    *)
(* realloc write into the block they got in a step of their own.           *)
(*                                                                         *)
(* hdr holds the headers that are on the list.  A header that a merge      *)
(* takes off the list is dead memory: reading it through a stale pointer   *)
(* gives an arbitrary value.  A step that writes through such a pointer,   *)
(* or outside the block it owns, leaves pc = "wild": from there the C      *)
(* program's behaviour is undefined and the model says no more.            *)
(***************************************************************************)
EXTENDS Integers, Sequences

CONSTANTS Base,      \* g_memory, the address of the arena
          MemSize,   \* MAX_MEM_SIZE, its length in bytes
          SizeMod,   \* 2^32, the modulus of size_t
          Sizes,     \* the sizes the callers ask for
          Counts     \* the element counts passed to calloc

NULL == 0

\* sizeof(m_header_t): two pointers, a size_t and a padded bool.
HeaderLen == 16

ASSUME ConstantsAssumption ==
    /\ Base \in Nat \ {NULL}
    /\ MemSize \in Nat
    /\ SizeMod \in Nat
    /\ Base + MemSize < SizeMod
    /\ Sizes \subseteq 0 .. SizeMod - 1
    /\ Counts \subseteq 0 .. SizeMod - 1

Limit == Base + MemSize

VARIABLES
    head,      \* the static list head
    hdr,       \* address of a block on the list -> its header
    pc,        \* where the current call is
    call,      \* its operation and arguments
    cur,       \* malloc's local ptr; afterwards the block it took
    live,      \* ghost: pointer a client holds -> the size it asked for
    stack,     \* ghost: the live pointers in allocation order, while lifo
    lifo,      \* ghost: every free so far released the newest allocation
    midSplit   \* ghost: malloc has split a block that was not the last

vars == <<head, hdr, pc, call, cur, live, stack, lifo, midSplit>>

Header == [prev : Nat, next : Nat, length : Nat, used : BOOLEAN]

\* size_t arithmetic: a sum of two size_t values.
Wrap(n) == IF n < SizeMod THEN n ELSE n - SizeMod

\* num * size in calloc.
Product(num, size) == (num * size) % SizeMod

\* if (size & 0b11) size = (size & ~0b11) + 4;
Round(size) == IF size % 4 = 0 THEN size ELSE Wrap(size - (size % 4) + 4)

End(a) == a + HeaderLen + hdr[a].length

\* Callers may read and write what they asked for, at the pointers they hold.
\* call.req is what the caller asked for, call.size the rounded size_t.
Idle == [op |-> "none", req |-> 0, size |-> 0, old |-> NULL]

Init ==
    /\ head = NULL
    /\ hdr = [a \in {} |-> NULL]
    /\ pc = "idle"
    /\ call = Idle
    /\ cur = NULL
    /\ live = [p \in {} |-> 0]
    /\ stack = << >>
    /\ lifo = TRUE
    /\ midSplit = FALSE

-----------------------------------------------------------------------------
\* k_init_mem: the arena becomes one free block, once.
k_init_mem ==
    /\ pc = "idle"
    /\ head = NULL
    /\ MemSize >= HeaderLen
    /\ head' = Base
    /\ hdr' = [a \in {Base} |-> [prev |-> NULL, next |-> NULL,
                                 length |-> MemSize - HeaderLen,
                                 used |-> FALSE]]
    /\ UNCHANGED <<pc, call, cur, live, stack, lifo, midSplit>>

\* The entry of malloc for a size_t argument: 0 returns NULL at once, any
\* other size starts the walk at the head of the list.
EnterMalloc(op, old, req, size) ==
    /\ pc = "idle"
    /\ size # 0
    /\ pc' = "walk"
    /\ call' = [op |-> op, req |-> req, size |-> Round(size), old |-> old]
    /\ cur' = head
    /\ UNCHANGED <<head, hdr, live, stack, lifo, midSplit>>

malloc(size) == EnterMalloc("malloc", NULL, size, size)

calloc(num, size) ==
    EnterMalloc("calloc", NULL, num * size, Product(num, size))

\* realloc(NULL, size) is malloc(size).
realloc(ptr, size) ==
    /\ ptr \in DOMAIN live
    /\ EnterMalloc("realloc", ptr, size, size)

\* Mutant of Fits: counts the header of the block as room for the payload.
Fits_CountsHeader(a) == ~hdr[a].used /\ hdr[a].length + HeaderLen >= call.size

Fits(a) == ~hdr[a].used /\ hdr[a].length >= call.size

\* Mutant of WalkOn: the end of the list leads back to its head.
WalkOn_Circular ==
    /\ pc = "walk"
    /\ cur # NULL
    /\ ~Fits(cur)
    /\ cur' = IF hdr[cur].next = NULL THEN head ELSE hdr[cur].next
    /\ UNCHANGED <<head, hdr, pc, call, live, stack, lifo, midSplit>>

\* while (ptr): the block under the cursor is taken or passed over.
WalkOn ==
    /\ pc = "walk"
    /\ cur # NULL
    /\ ~Fits(cur)
    /\ cur' = hdr[cur].next
    /\ UNCHANGED <<head, hdr, pc, call, live, stack, lifo, midSplit>>

\* The list is exhausted: malloc, and with it calloc and realloc, returns
\* NULL; the block that realloc was given stays allocated.
WalkFails ==
    /\ pc = "walk"
    /\ cur = NULL
    /\ pc' = "idle"
    /\ call' = Idle
    /\ UNCHANGED <<head, hdr, cur, live, stack, lifo, midSplit>>

\* Mutant of Splits: forgets that the remainder needs a header.
Splits_NoHeader(a) == call.size <= hdr[a].length

\* The header writes of malloc once a block a fits.  The block after the
\* split one keeps its prev.
Splits(a) == Wrap(call.size + HeaderLen) <= hdr[a].length

TakeBlock(a) ==
    LET s == a + HeaderLen + call.size
        h == hdr[a]
    IN  IF Splits(a)
        THEN [b \in DOMAIN hdr \cup {s} |->
                IF b = a THEN [prev |-> h.prev, next |-> s,
                               length |-> call.size, used |-> TRUE]
                ELSE IF b = s
                THEN [prev |-> a, next |-> h.next,
                      length |-> h.length - call.size - HeaderLen,
                      used |-> FALSE]
                ELSE hdr[b]]
        ELSE [hdr EXCEPT ![a].used = TRUE]

\* The client now holds p and may use n bytes there.
Hold(p, n) ==
    /\ live' = [q \in DOMAIN live \cup {p} |-> IF q = p THEN n ELSE live[q]]
    /\ stack' = IF lifo THEN Append(stack, p) ELSE << >>
    /\ UNCHANGED lifo

\* A fitting block: malloc returns it, calloc and realloc go on with it.
WalkTakes ==
    /\ pc = "walk"
    /\ cur # NULL
    /\ Fits(cur)
    /\ hdr' = TakeBlock(cur)
    /\ midSplit' = (midSplit \/ (Splits(cur) /\ hdr[cur].next # NULL))
    /\ IF call.op = "malloc"
       THEN /\ pc' = "idle"
            /\ call' = Idle
            /\ cur' = NULL
            /\ Hold(cur + HeaderLen, call.req)
       ELSE /\ pc' = call.op
            /\ UNCHANGED <<call, cur, live, stack, lifo>>
    /\ UNCHANGED head

\* memset(buf, 0, num * size) writes the size_t product.
ClearLen == call.req % SizeMod

calloc_clears ==
    /\ pc = "calloc"
    /\ pc' = IF ClearLen <= hdr[cur].length THEN "idle" ELSE "wild"
    /\ call' = Idle
    /\ cur' = NULL
    /\ Hold(cur + HeaderLen, call.req)
    /\ UNCHANGED <<head, hdr, midSplit>>

-----------------------------------------------------------------------------
\* Mutant of Absorb: forgets the swallowed header in the length.
Absorb_LosesHeader(h, a, n) ==
    [b \in DOMAIN h \ {n} |->
        IF b = a
        THEN [h[a] EXCEPT !.next = h[n].next, !.length = @ + h[n].length]
        ELSE IF b = h[n].next THEN [h[b] EXCEPT !.prev = a]
        ELSE h[b]]

\* Mutant of Absorb: leaves the prev of the block that follows.
Absorb_StalePrev(h, a, n) ==
    [b \in DOMAIN h \ {n} |->
        IF b = a
        THEN [h[a] EXCEPT !.next = h[n].next,
                          !.length = @ + HeaderLen + h[n].length]
        ELSE h[b]]

\* Both merges of free: block a takes in block n, which leaves the list, and
\* the block after n, if there is one, points back to a.
Absorb(h, a, n) ==
    [b \in DOMAIN h \ {n} |->
        IF b = a
        THEN [prev |-> h[a].prev, next |-> h[n].next,
              length |-> h[a].length + HeaderLen + h[n].length,
              used |-> h[a].used]
        ELSE IF b = h[n].next THEN [h[b] EXCEPT !.prev = a]
        ELSE h[b]]

\* Mutant of MergeNext: does not merge.
MergeNext_Never(e) == [hdr EXCEPT ![e].used = FALSE]

\* free: mark the block, then merge it with the one after it if that is free.
MergeNext(e) ==
    LET f == [hdr EXCEPT ![e].used = FALSE]
        n == f[e].next
    IN  IF n # NULL /\ ~f[n].used THEN Absorb(f, e, n) ELSE f

\* Mutant of FreeBlock: merges forward only.
FreeBlock_NoPrev(e, next_pc) ==
    /\ hdr' = MergeNext(e)
    /\ pc' = next_pc

\* free(e + HeaderLen): after MergeNext, merge with the block prev names if
\* that is free.  next_pc is where the caller goes on.  Through a stale prev
\* the code reads a dead header, or swallows the blocks that lie between.
FreeBlock(e, next_pc) ==
    LET g == MergeNext(e)
        p == g[e].prev
    IN  \/ /\ p = NULL \/ (p \in DOMAIN g /\ g[p].used)
           /\ hdr' = g
           /\ pc' = next_pc
        \/ /\ p \in DOMAIN g
           /\ ~g[p].used
           /\ hdr' = Absorb(g, p, e)
           /\ pc' = IF g[p].next = e THEN next_pc ELSE "wild"
        \/ /\ p # NULL
           /\ p \notin DOMAIN g
           /\ hdr' = g
           /\ pc' \in {next_pc, "wild"}

Newest(p) == lifo /\ stack # << >> /\ stack[Len(stack)] = p

\* free(NULL) changes nothing; any other argument is a pointer that malloc,
\* calloc or realloc returned and that was not freed since.
free(ptr) ==
    /\ pc = "idle"
    /\ ptr \in DOMAIN live
    /\ FreeBlock(ptr - HeaderLen, "idle")
    /\ live' = [q \in DOMAIN live \ {ptr} |-> live[q]]
    /\ lifo' = Newest(ptr)
    /\ stack' = IF Newest(ptr) THEN SubSeq(stack, 1, Len(stack) - 1) ELSE << >>
    /\ UNCHANGED <<head, call, cur, midSplit>>

\* Mutant of CopyLen: copies the whole old block.
CopyLen_Whole == hdr[call.old - HeaderLen].length

\* memcpy(buf, ptr, min_size) copies the shorter of the new size and the
\* length of the old block.
CopyLen ==
    LET orig_size == hdr[call.old - HeaderLen].length
    IN  IF call.req > orig_size THEN orig_size ELSE call.req

\* Mutant of realloc_moves: the old block is not freed.
realloc_moves_Leaks ==
    /\ pc = "realloc"
    /\ pc' = "idle"
    /\ live' = [q \in (DOMAIN live \ {call.old}) \cup {cur + HeaderLen} |->
                    IF q = cur + HeaderLen THEN call.req ELSE live[q]]
    /\ lifo' = FALSE
    /\ stack' = << >>
    /\ call' = Idle
    /\ cur' = NULL
    /\ UNCHANGED <<head, hdr, midSplit>>

\* The rest of realloc once malloc gave it a block: copy, free, return.
realloc_moves ==
    LET buf == cur + HeaderLen
    IN  /\ pc = "realloc"
        /\ FreeBlock(call.old - HeaderLen,
                     IF CopyLen <= hdr[cur].length THEN "idle" ELSE "wild")
        /\ live' = [q \in (DOMAIN live \ {call.old}) \cup {buf} |->
                       IF q = buf THEN call.req ELSE live[q]]
        /\ lifo' = FALSE
        /\ stack' = << >>
        /\ call' = Idle
        /\ cur' = NULL
        /\ UNCHANGED <<head, midSplit>>

-----------------------------------------------------------------------------
Next ==
    \/ k_init_mem
    \/ \E size \in Sizes : malloc(size)
    \/ \E num \in Counts, size \in Sizes : calloc(num, size)
    \/ \E ptr \in DOMAIN live, size \in Sizes : realloc(ptr, size)
    \/ \E ptr \in DOMAIN live : free(ptr)
    \/ WalkOn
    \/ WalkFails
    \/ WalkTakes
    \/ calloc_clears
    \/ realloc_moves

\* A call, once made, runs to its end: nothing preempts the kernel thread
\* but interrupt handlers, which return.
CallStep == WalkOn \/ WalkFails \/ WalkTakes \/ calloc_clears \/ realloc_moves

Spec == Init /\ [][Next]_vars /\ WF_vars(CallStep)

\* No request is so large that rounding it, or calloc's product, wraps.
NoWrap ==
    /\ \A size \in Sizes : size <= SizeMod - 4
    /\ \A num \in Counts, size \in Sizes : num * size <= SizeMod - 4

-----------------------------------------------------------------------------
Blocks == DOMAIN hdr
Used(a) == hdr[a].used

\* Every variable has its type; a call in progress has a non-zero size_t or
\* the 0 that rounding wraps to.
TypeOK ==
    /\ head \in {NULL, Base}
    /\ Blocks \subseteq Nat
    /\ hdr \in [Blocks -> Header]
    /\ pc \in {"idle", "walk", "calloc", "realloc", "wild"}
    /\ call.op \in {"none", "malloc", "calloc", "realloc"}
    /\ call.req \in Nat /\ call.size \in Nat /\ call.old \in Nat
    /\ cur \in Nat
    /\ DOMAIN live \subseteq Nat
    /\ live \in [DOMAIN live -> Nat]
    /\ stack \in Seq(Nat)
    /\ lifo \in BOOLEAN
    /\ midSplit \in BOOLEAN

\* The blocks tile the arena: following next from the first block, each block
\* starts where the one before it ends and the last one ends at the limit, so
\* no byte of the arena is lost or belongs to two blocks.  This is what
\* splitting in malloc and merging in free must keep, whatever the callers do.
Tiling ==
    pc # "wild" =>
        /\ Blocks # {} => head = Base /\ Base \in Blocks
        /\ \A a \in Blocks :
              /\ Base <= a /\ End(a) <= Limit
              /\ IF hdr[a].next = NULL
                 THEN End(a) = Limit
                 ELSE hdr[a].next = End(a) /\ hdr[a].next \in Blocks
        /\ \A a, b \in Blocks : a < b => End(a) <= b

\* Until malloc splits a block that is not the last one, prev is the inverse
\* of next (what the commented-out dump_heap calls a valid back pointer) and
\* free leaves no two free blocks side by side.
Coalesced ==
    (~midSplit /\ pc # "wild") =>
        \A a \in Blocks :
            /\ IF a = Base THEN hdr[a].prev = NULL
               ELSE hdr[a].prev \in Blocks /\ hdr[hdr[a].prev].next = a
            /\ hdr[a].next # NULL => Used(a) \/ Used(hdr[a].next)

\* The bytes a caller asked for lie inside the arena and overlap neither a
\* header of the allocator nor the bytes of another allocation.
LiveSafe ==
    pc # "wild" =>
        \A p \in DOMAIN live :
            /\ Base <= p /\ p + live[p] <= Limit
            /\ \A a \in Blocks : a + HeaderLen <= p \/ p + live[p] <= a
            /\ \A q \in DOMAIN live \ {p} :
                  p + live[p] <= q \/ q + live[q] <= p

\* A used block is held by a caller or is on its way to one: a failed calloc
\* or realloc leaks nothing, and a successful realloc releases the old block.
NoLeak ==
    pc # "wild" =>
        {a \in Blocks : Used(a)} =
            {p - HeaderLen : p \in DOMAIN live}
                \cup (IF pc \in {"calloc", "realloc"} THEN {cur} ELSE {})

\* memset in calloc and memcpy in realloc stay inside the block malloc gave
\* them, and the copy carries over all the bytes the caller can ask for.
WritesFit ==
    /\ pc = "calloc" => ClearLen = call.req /\ ClearLen <= hdr[cur].length
    /\ pc = "realloc" =>
          /\ CopyLen <= hdr[cur].length
          /\ CopyLen >= IF live[call.old] < call.req THEN live[call.old]
                        ELSE call.req

\* What the walk of malloc has behind it: no block below the cursor fits.
Passed ==
    pc = "walk" => \A a \in Blocks : cur = NULL \/ a < cur => ~Fits(a)

\* Until an inner split, the list is coalesced, and no gap between allocations
\* below the cursor has room for the request either.
GapStarts == {Base} \cup {End(a) : a \in {b \in Blocks : Used(b)}}

GapStops == {Limit} \cup {a \in Blocks : Used(a)}

NoGapPassed ==
    (pc = "walk" /\ head # NULL /\ ~midSplit) =>
        \A x \in GapStarts :
            (cur = NULL \/ x < cur) =>
                \E y \in GapStops : x <= y /\ y < x + HeaderLen + call.size

\* malloc is first fit, and complete.  Whatever the calls before it left
\* behind, it takes the lowest block that fits, and returns NULL only when no
\* block fits; and as long as it never split an inner block, NULL means that
\* no contiguous room exists anywhere in the arena.
FirstFit == Passed /\ NoGapPassed

\* Callers that free in the reverse order of allocation, as every caller in
\* the repository does, never make malloc split an inner block and never
\* damage the heap.
LifoSafe == lifo => ~midSplit /\ pc # "wild"

\* Every call returns: the walk along next comes to an end.
CallReturns == pc \in {"walk", "calloc", "realloc"} ~> pc \in {"idle", "wild"}

\* memory.c:71 "assumes that two adjacent blocks are right after each other
\* in memory": a free block that the prev of an allocated block names ends
\* where that block starts, so free may merge the two.
MergesAdjacent ==
    \A a \in Blocks :
        (Used(a) /\ hdr[a].prev \in Blocks /\ ~Used(hdr[a].prev)) =>
            End(hdr[a].prev) = a

=============================================================================
