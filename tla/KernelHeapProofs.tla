-------------------------- MODULE KernelHeapProofs --------------------------
(***************************************************************************)
(* Proofs about KernelHeap, for every arena, every set of request sizes    *)
(* and every order of calls.                                               *)
(*                                                                         *)
(* The shape of the list does not depend on what is asked for.  Only what  *)
(* a caller may do with its block does: when rounding a request, or the    *)
(* product of calloc, wraps size_t, the block is smaller than the caller   *)
(* thinks.  The parts of the invariant that relate a request to its block  *)
(* therefore hold under NoWrap, and so do the theorems about the callers'  *)
(* bytes.                                                                  *)
(*                                                                         *)
(* The lemmas of the first part are about header functions h alone: what   *)
(* splitting and absorbing do to the list.  The second part is the         *)
(* inductive invariant and its preservation, one lemma per kind of action. *)
(***************************************************************************)
EXTENDS KernelHeap, SequenceTheorems, TLAPS

EndOf(h, a) == a + HeaderLen + h[a].length

\* h is a well-typed header function.
Typed(h) == DOMAIN h \subseteq Nat /\ h \in [DOMAIN h -> Header]

\* The blocks of h tile the arena.
Tiled(h) ==
    /\ DOMAIN h # {} => Base \in DOMAIN h
    /\ \A a \in DOMAIN h :
          /\ Base <= a /\ EndOf(h, a) <= Limit
          /\ IF h[a].next = NULL THEN EndOf(h, a) = Limit
             ELSE h[a].next = EndOf(h, a) /\ h[a].next \in DOMAIN h
    /\ \A a, b \in DOMAIN h : a < b => EndOf(h, a) <= b

\* prev is the inverse of next.
Linked(h) ==
    \A a \in DOMAIN h :
        IF a = Base THEN h[a].prev = NULL
        ELSE h[a].prev \in DOMAIN h /\ h[h[a].prev].next = a

\* No two free neighbours, but for the pair that starts at x.
Merged(h, x) ==
    \A a \in DOMAIN h \ {x} :
        h[a].next # NULL => h[a].used \/ h[h[a].next].used

\* The header function after malloc takes block a for size n.
Split(h, a, n) ==
    [b \in DOMAIN h \cup {a + HeaderLen + n} |->
        IF b = a THEN [prev |-> h[a].prev, next |-> a + HeaderLen + n,
                       length |-> n, used |-> TRUE]
        ELSE IF b = a + HeaderLen + n
        THEN [prev |-> a, next |-> h[a].next,
              length |-> h[a].length - n - HeaderLen, used |-> FALSE]
        ELSE h[b]]

-----------------------------------------------------------------------------
\* The constants, in the form the proofs below use.
LEMMA Constants ==
    /\ Base \in Nat /\ Base # 0 /\ MemSize \in Nat /\ Limit \in Nat
    /\ SizeMod \in Nat /\ Limit < SizeMod
  BY ConstantsAssumption DEF Limit, NULL

\* Splitting a block that has room for a header keeps the types, and the
\* tiling of the arena: the remainder starts where the taken part ends.
LEMMA SplitTiled ==
    ASSUME NEW h, Typed(h), Tiled(h), NEW a \in DOMAIN h, NEW n \in Nat,
           n + HeaderLen <= h[a].length
    PROVE  Typed(Split(h, a, n)) /\ Tiled(Split(h, a, n))
<1> DEFINE s == a + HeaderLen + n
           g == Split(h, a, n)
<1>1. a \in Nat /\ h[a] \in Header /\ s \in Nat /\ s # a
  BY DEF Typed, HeaderLen
<1>2. DOMAIN g = DOMAIN h \cup {s}
  BY DEF Split
<1>3. s \notin DOMAIN h
  <2>1. SUFFICES ASSUME s \in DOMAIN h PROVE FALSE
    OBVIOUS
  <2>2. EndOf(h, a) <= s
    BY <1>1, <2>1 DEF Tiled, HeaderLen
  <2> QED
    BY <1>1, <2>2 DEF EndOf, HeaderLen, Header
<1>4. /\ g[a] = [prev |-> h[a].prev, next |-> s, length |-> n, used |-> TRUE]
      /\ g[s] = [prev |-> a, next |-> h[a].next,
                 length |-> h[a].length - n - HeaderLen, used |-> FALSE]
      /\ \A b \in DOMAIN h \ {a} : g[b] = h[b]
  BY <1>1, <1>3 DEF Split
<1>5. Typed(g)
  <2>1. g[a] \in Header /\ g[s] \in Header
    BY <1>1, <1>4 DEF Header, HeaderLen
  <2>2. g \in [DOMAIN g -> Header]
    <3>1. g = [b \in DOMAIN g |-> g[b]]
      BY DEF Split
    <3>2. \A b \in DOMAIN g : g[b] \in Header
      BY <1>2, <1>4, <2>1 DEF Typed
    <3> QED
      BY <3>1, <3>2
  <2> QED
    BY <1>1, <1>2, <2>2 DEF Typed
<1>6. EndOf(g, a) = s /\ EndOf(g, s) = EndOf(h, a)
  BY <1>1, <1>4 DEF EndOf, HeaderLen, Header
<1>0. EndOf(h, a) \in Nat /\ s <= EndOf(h, a)
  BY <1>1 DEF EndOf, Header, HeaderLen
<1>7. Base \in DOMAIN g
  BY <1>2 DEF Tiled
<1>8. ASSUME NEW b \in DOMAIN g
      PROVE  /\ Base <= b /\ EndOf(g, b) <= Limit
             /\ IF g[b].next = NULL THEN EndOf(g, b) = Limit
                ELSE g[b].next = EndOf(g, b) /\ g[b].next \in DOMAIN g
  <2>1. CASE b = a
    BY <2>1, <1>0, <1>1, <1>2, <1>4, <1>6, Constants DEF Tiled, NULL, HeaderLen
  <2>2. CASE b = s
    BY <2>2, <1>1, <1>2, <1>4, <1>6, Constants DEF Tiled, HeaderLen
  <2>3. CASE b \in DOMAIN h \ {a}
    BY <2>3, <1>1, <1>2, <1>4 DEF Tiled, EndOf
  <2> QED
    BY <2>1, <2>2, <2>3, <1>2
<1>9. ASSUME NEW b \in DOMAIN g, NEW c \in DOMAIN g, b < c
      PROVE  EndOf(g, b) <= c
  <2>1. CASE b = a
    BY <2>1, <1>0, <1>1, <1>2, <1>6, <1>9 DEF Tiled, Typed
  <2>2. CASE b = s
    <3>1. c \in DOMAIN h /\ a < c
      BY <2>2, <1>1, <1>2, <1>9 DEF Typed, HeaderLen
    <3> QED
      BY <3>1, <2>2, <1>6 DEF Tiled
  <2>3. CASE b \in DOMAIN h \ {a} /\ c \in DOMAIN h
    BY <2>3, <1>4, <1>9 DEF Tiled, EndOf
  <2>4. CASE b \in DOMAIN h \ {a} /\ c = s
    <3>1. CASE b < a
      <4>1. EndOf(g, b) <= a /\ EndOf(g, b) \in Nat
        BY <3>1, <2>4, <1>4 DEF Tiled, EndOf, Typed, Header, HeaderLen
      <4> QED
        BY <4>1, <2>4, <1>1 DEF HeaderLen
    <3>2. CASE a < b
      <4>1. EndOf(h, a) <= b
        BY <3>2, <2>4 DEF Tiled
      <4> QED
        BY <4>1, <1>0, <2>4, <1>1, <1>9 DEF Typed
    <3> QED
      BY <3>1, <3>2, <2>4, <1>1 DEF Typed
  <2> QED
    BY <2>1, <2>2, <2>3, <2>4, <1>2
<1> QED
  BY <1>5, <1>7, <1>8, <1>9 DEF Tiled

\* Changing the used flag of a block changes nothing else about the list.
LEMMA MarkKeeps ==
    ASSUME NEW h, Typed(h), NEW e \in DOMAIN h, NEW u \in BOOLEAN
    PROVE  LET f == [h EXCEPT ![e].used = u]
           IN  /\ DOMAIN f = DOMAIN h
               /\ Typed(f)
               /\ f[e].used = u
               /\ \A b \in DOMAIN h :
                     /\ f[b].prev = h[b].prev
                     /\ f[b].next = h[b].next
                     /\ f[b].length = h[b].length
                     /\ b # e => f[b] = h[b]
               /\ Tiled(h) => Tiled(f)
               /\ Linked(h) => Linked(f)
<1> DEFINE f == [h EXCEPT ![e].used = u]
<1>1. DOMAIN f = DOMAIN h
  OBVIOUS
<1>2. f[e] = [h[e] EXCEPT !.used = u] /\ \A b \in DOMAIN h : b # e => f[b] = h[b]
  OBVIOUS
<1>3. /\ f[e].used = u /\ f[e].prev = h[e].prev /\ f[e].next = h[e].next
      /\ f[e].length = h[e].length /\ f[e] \in Header
  BY <1>2 DEF Typed, Header
<1>4. Typed(f)
  BY <1>1, <1>2, <1>3 DEF Typed
<1>5. \A b \in DOMAIN h : f[b].prev = h[b].prev /\ f[b].next = h[b].next
                          /\ f[b].length = h[b].length
  BY <1>2, <1>3
<1>6. Tiled(h) => Tiled(f)
  BY <1>1, <1>5 DEF Tiled, EndOf
<1>7. Linked(h) => Linked(f)
  BY <1>1, <1>5 DEF Linked
<1> QED
  BY <1>1, <1>2, <1>3, <1>4, <1>5, <1>6, <1>7

\* What a block that absorbs its successor looks like.
LEMMA AbsorbFields ==
    ASSUME NEW h, Typed(h), Tiled(h), NEW a \in DOMAIN h, NEW n,
           n = h[a].next, n # NULL
    PROVE  LET g == Absorb(h, a, n)
           IN  /\ n \in DOMAIN h /\ n # a /\ h[n].next # a /\ h[n].next # n
               /\ n = EndOf(h, a)
               /\ DOMAIN g = DOMAIN h \ {n}
               /\ Typed(g)
               /\ g[a].prev = h[a].prev /\ g[a].next = h[n].next
               /\ g[a].used = h[a].used
               /\ g[a].length = h[a].length + HeaderLen + h[n].length
               /\ \A b \in DOMAIN h \ {a, n} :
                     /\ g[b].next = h[b].next /\ g[b].length = h[b].length
                     /\ g[b].used = h[b].used
                     /\ g[b].prev = IF b = h[n].next THEN a ELSE h[b].prev
<1> DEFINE g == Absorb(h, a, n)
<1>1. n \in DOMAIN h /\ n = EndOf(h, a) /\ a \in Nat /\ n \in Nat /\ a < n
  BY DEF Tiled, Typed, EndOf, HeaderLen, Header
<1>2. h[n].next # a /\ h[n].next # n
  <2>1. h[n].next = NULL \/ h[n].next = EndOf(h, n)
    BY <1>1 DEF Tiled
  <2>2. EndOf(h, n) > n
    BY <1>1 DEF Typed, Header, HeaderLen, EndOf
  <2>3. a # NULL
    BY Constants, <1>1 DEF Tiled, NULL
  <2> QED
    BY <1>1, <2>1, <2>2, <2>3 DEF EndOf, Typed, Header, HeaderLen, NULL
<1>3. DOMAIN g = DOMAIN h \ {n} /\ a \in DOMAIN g
  BY <1>1 DEF Absorb
<1>4. h[a] \in Header /\ h[n] \in Header
  BY <1>1 DEF Typed
<1>5. g[a] = [prev |-> h[a].prev, next |-> h[n].next,
              length |-> h[a].length + HeaderLen + h[n].length,
              used |-> h[a].used]
  BY <1>3 DEF Absorb
<1>6. /\ g[a].prev = h[a].prev /\ g[a].next = h[n].next
      /\ g[a].used = h[a].used /\ g[a] \in Header
      /\ g[a].length = h[a].length + HeaderLen + h[n].length
  BY <1>4, <1>5 DEF Header, HeaderLen
<1>7. ASSUME NEW b \in DOMAIN h \ {a, n}
      PROVE  /\ g[b].next = h[b].next /\ g[b].length = h[b].length
             /\ g[b].used = h[b].used /\ g[b] \in Header
             /\ g[b].prev = IF b = h[n].next THEN a ELSE h[b].prev
  <2>1. h[b] \in Header
    BY DEF Typed
  <2>2. g[b] = IF b = h[n].next THEN [h[b] EXCEPT !.prev = a] ELSE h[b]
    BY <1>3 DEF Absorb
  <2> QED
    BY <2>1, <2>2, <1>1 DEF Header
<1>8. Typed(g)
  <2>1. \A b \in DOMAIN g : g[b] \in Header
    BY <1>3, <1>6, <1>7
  <2>2. g = [b \in DOMAIN g |-> g[b]]
    BY DEF Absorb
  <2> QED
    BY <1>3, <2>1, <2>2 DEF Typed
<1> QED
  BY <1>1, <1>2, <1>3, <1>6, <1>7, <1>8

\* Absorbing the successor keeps the tiling and the back pointers.
LEMMA AbsorbKeeps ==
    ASSUME NEW h, Typed(h), Tiled(h), NEW a \in DOMAIN h, NEW n,
           n = h[a].next, n # NULL
    PROVE  /\ Tiled(Absorb(h, a, n))
           /\ Linked(h) => Linked(Absorb(h, a, n))
<1> DEFINE g == Absorb(h, a, n)
<1>1. /\ n \in DOMAIN h /\ n # a /\ h[n].next # a /\ h[n].next # n
      /\ n = EndOf(h, a)
      /\ DOMAIN g = DOMAIN h \ {n}
      /\ Typed(g)
      /\ g[a].prev = h[a].prev /\ g[a].next = h[n].next
      /\ g[a].length = h[a].length + HeaderLen + h[n].length
      /\ \A b \in DOMAIN h \ {a, n} :
            /\ g[b].next = h[b].next /\ g[b].length = h[b].length
            /\ g[b].prev = IF b = h[n].next THEN a ELSE h[b].prev
  BY AbsorbFields
<1>2. /\ a \in Nat /\ n \in Nat /\ EndOf(h, a) \in Nat /\ EndOf(h, n) \in Nat
      /\ a < n /\ n < EndOf(h, n)
  BY <1>1 DEF Typed, EndOf, Header, HeaderLen
<1>3. EndOf(g, a) = EndOf(h, n)
  <2>1. h[a].length \in Nat /\ h[n].length \in Nat
    BY <1>1 DEF Typed, Header
  <2>2. EndOf(g, a) = a + HeaderLen + (h[a].length + HeaderLen + h[n].length)
    BY <1>1 DEF EndOf
  <2>3. n = a + HeaderLen + h[a].length
    BY <1>1 DEF EndOf
  <2> QED
    BY <2>1, <2>2, <2>3, <1>2 DEF EndOf, HeaderLen
<1>4. \A b \in DOMAIN h \ {a, n} : EndOf(g, b) = EndOf(h, b)
  BY <1>1 DEF EndOf
<1>5. \A b \in DOMAIN h \ {n} : b # a => h[b].next # n
  <2>1. SUFFICES ASSUME NEW b \in DOMAIN h \ {n}, b # a, h[b].next = n
                 PROVE  FALSE
    OBVIOUS
  <2>2. EndOf(h, b) = n /\ b \in Nat /\ EndOf(h, b) > b
    BY <2>1 DEF Tiled, Typed, EndOf, Header, HeaderLen
  <2>3. (a < b => n <= b) /\ (b < a => n <= a)
    BY <1>1, <2>1, <2>2 DEF Tiled
  <2> QED
    BY <1>2, <2>1, <2>2, <2>3
<1>6. Tiled(g)
  <2>1. Base \in DOMAIN g
    <3>1. Base <= a /\ Base \in DOMAIN h
      BY DEF Tiled
    <3> QED
      BY <3>1, <1>1, <1>2, Constants
  <2>2. ASSUME NEW b \in DOMAIN g
        PROVE  /\ Base <= b /\ EndOf(g, b) <= Limit
               /\ IF g[b].next = NULL THEN EndOf(g, b) = Limit
                  ELSE g[b].next = EndOf(g, b) /\ g[b].next \in DOMAIN g
    <3>1. CASE b = a
      BY <3>1, <1>1, <1>3 DEF Tiled
    <3>2. CASE b # a
      BY <3>2, <1>1, <1>4, <1>5 DEF Tiled
    <3> QED
      BY <3>1, <3>2
  <2>3. ASSUME NEW b \in DOMAIN g, NEW c \in DOMAIN g, b < c
        PROVE  EndOf(g, b) <= c
    <3>1. CASE b = a
      <4>1. c \in Nat /\ c # n /\ n <= c
        BY <3>1, <2>3, <1>1 DEF Tiled, Typed
      <4>2. n < c
        BY <4>1, <1>2
      <4> QED
        BY <4>2, <3>1, <1>1, <1>3 DEF Tiled
    <3>2. CASE b # a
      BY <3>2, <2>3, <1>1, <1>4 DEF Tiled
    <3> QED
      BY <3>1, <3>2
  <2> QED
    BY <2>1, <2>2, <2>3 DEF Tiled
<1>7. ASSUME Linked(h) PROVE Linked(g)
  <2> SUFFICES ASSUME NEW b \in DOMAIN g
               PROVE  IF b = Base THEN g[b].prev = NULL
                      ELSE g[b].prev \in DOMAIN g /\ g[g[b].prev].next = b
    BY DEF Linked
  <2>1. CASE b = a
    <3>1. h[a].prev # n
      <4>1. SUFFICES ASSUME h[a].prev = n PROVE FALSE
        OBVIOUS
      <4> QED
        BY <4>1, <1>1, <1>2, <1>7, Constants DEF Linked, NULL
    <3> QED
      BY <2>1, <3>1, <1>1, <1>7 DEF Linked
  <2>2. CASE b # a /\ b = h[n].next
    <3>1. b # Base
      <4>1. b \in DOMAIN h /\ Base <= b /\ Base <= a
        BY <1>1 DEF Tiled
      <4>2. h[n].next # NULL
        BY <4>1, <2>2, Constants DEF NULL
      <4>3. b = EndOf(h, n)
        BY <4>2, <2>2, <1>1 DEF Tiled
      <4> QED
        BY <4>1, <4>3, <1>2, Constants
    <3> QED
      BY <2>2, <3>1, <1>1
  <2>3. CASE b # a /\ b # h[n].next
    <3>1. b \in DOMAIN h \ {a, n} /\ g[b].prev = h[b].prev
      BY <2>3, <1>1
    <3>2. CASE b = Base
      BY <3>1, <3>2, <1>7 DEF Linked
    <3>3. CASE b # Base
      <4>1. h[b].prev \in DOMAIN h /\ h[h[b].prev].next = b
        BY <3>1, <3>3, <1>7 DEF Linked
      <4>2. h[b].prev \in DOMAIN h \ {a, n}
        BY <4>1, <3>1, <2>3
      <4> QED
        BY <4>1, <4>2, <3>1, <3>3, <1>1
    <3> QED
      BY <3>2, <3>3
  <2> QED
    BY <2>1, <2>2, <2>3
<1> QED
  BY <1>6, <1>7

-----------------------------------------------------------------------------
\* The used blocks of h other than e are used blocks of g, of the same length,
\* and g has no other used block.
SameUsed(h, g, e) ==
    /\ DOMAIN g \subseteq DOMAIN h
    /\ \A b \in DOMAIN h : h[b].used /\ b # e =>
          b \in DOMAIN g /\ g[b].used /\ g[b].length = h[b].length
    /\ \A b \in DOMAIN g : g[b].used => b # e /\ h[b].used

\* The forward merge of free keeps the list sound and touches no used block;
\* two free neighbours can remain only where the merge with prev comes next.
LEMMA MergeNextKeeps ==
    ASSUME Typed(hdr), Tiled(hdr), NEW e \in DOMAIN hdr, hdr[e].used
    PROVE  LET g == MergeNext(e)
           IN  /\ Typed(g) /\ Tiled(g)
               /\ e \in DOMAIN g /\ ~g[e].used
               /\ g[e].prev = hdr[e].prev
               /\ SameUsed(hdr, g, e)
               /\ Linked(hdr) => Linked(g)
               /\ (Linked(hdr) /\ Merged(hdr, NULL)) =>
                     /\ Merged(g, g[e].prev)
                     /\ g[e].next # NULL => g[g[e].next].used
<1> DEFINE f == [hdr EXCEPT ![e].used = FALSE]
           n == f[e].next
           g == MergeNext(e)
<1>1. /\ DOMAIN f = DOMAIN hdr /\ Typed(f) /\ Tiled(f) /\ ~f[e].used
      /\ \A b \in DOMAIN hdr :
            /\ f[b].prev = hdr[b].prev /\ f[b].next = hdr[b].next
            /\ f[b].length = hdr[b].length /\ (b # e => f[b] = hdr[b])
      /\ Linked(hdr) => Linked(f)
  BY MarkKeeps
<1>b. n = f[e].next /\ e \in DOMAIN f
  BY <1>1
<1>c. g = IF n # NULL /\ ~f[n].used THEN Absorb(f, e, n) ELSE f
  BY DEF MergeNext
<1> HIDE DEF f, n, g
<1>2. NULL \notin DOMAIN hdr
  BY Constants DEF Tiled, NULL
<1>a. ASSUME NEW b \in DOMAIN hdr, hdr[b].next = e, Linked(hdr)
      PROVE  b = hdr[e].prev
  <2>1. e = EndOf(hdr, b) /\ b \in Nat /\ e \in Nat /\ Base <= b /\ b < e
    BY <1>a, <1>2 DEF Tiled, EndOf, Typed, HeaderLen, Header
  <2>2. e # Base
    BY <2>1, Constants
  <2> DEFINE q == hdr[e].prev
  <2>3. q \in DOMAIN hdr /\ hdr[q].next = e /\ e # NULL
    BY <1>a, <1>2, <2>2 DEF Linked
  <2>4. e = EndOf(hdr, q) /\ q \in Nat /\ q < e
    BY <2>3, <2>1 DEF Tiled, EndOf, Typed, HeaderLen, Header
  <2>5. (b < q => e <= q) /\ (q < b => e <= b)
    BY <2>1, <2>3, <2>4 DEF Tiled
  <2> QED
    BY <2>1, <2>4, <2>5
<1>3. CASE n # NULL /\ ~f[n].used
  <2>1. g = Absorb(f, e, n)
    BY <1>3, <1>c
  <2>2. /\ n \in DOMAIN f /\ n # e /\ f[n].next # e /\ f[n].next # n
        /\ DOMAIN g = DOMAIN f \ {n} /\ Typed(g)
        /\ g[e].prev = f[e].prev /\ g[e].next = f[n].next
        /\ g[e].used = f[e].used
        /\ \A b \in DOMAIN f \ {e, n} :
              /\ g[b].next = f[b].next /\ g[b].length = f[b].length
              /\ g[b].used = f[b].used
    BY <2>1, <1>1, <1>b, <1>3, AbsorbFields
  <2>3. Tiled(g) /\ (Linked(f) => Linked(g))
    BY <2>1, <1>1, <1>b, <1>3, AbsorbKeeps
  <2>4. SameUsed(hdr, g, e)
    BY <2>2, <1>1, <1>3 DEF SameUsed
  <2>5. ASSUME Linked(hdr), Merged(hdr, NULL)
        PROVE  /\ Merged(g, g[e].prev)
               /\ g[e].next # NULL => g[g[e].next].used
    <3>1. f[n].next # NULL => hdr[f[n].next].used
      BY <2>2, <1>1, <1>3, <1>2, <2>5 DEF Merged
    <3>2. f[n].next # NULL => f[n].next \in DOMAIN f \ {e, n}
      BY <2>2, <1>1 DEF Tiled
    <3>3. g[e].next # NULL => g[g[e].next].used
      BY <2>2, <1>1, <3>1, <3>2
    <3>4. ASSUME NEW b \in DOMAIN g \ {g[e].prev}, g[b].next # NULL, b # e
          PROVE  g[b].used \/ g[g[b].next].used
      <4>1. b \in DOMAIN hdr /\ g[b].next = hdr[b].next /\ g[b].used = hdr[b].used
        BY <2>2, <1>1, <3>4
      <4>2. hdr[b].next # e
        BY <4>1, <1>a, <2>2, <1>1, <2>5, <3>4
      <4>3. hdr[b].next \in DOMAIN g
        BY <2>3, <4>1, <3>4 DEF Tiled
      <4>4. hdr[b].used \/ hdr[hdr[b].next].used
        BY <4>1, <1>2, <2>5, <3>4 DEF Merged
      <4> QED
        BY <4>1, <4>2, <4>3, <4>4, <2>2, <1>1
    <3> QED
      BY <3>3, <3>4 DEF Merged
  <2> QED
    BY <1>1, <1>b, <2>2, <2>3, <2>4, <2>5 DEF g
<1>4. CASE ~(n # NULL /\ ~f[n].used)
  <2>1. g = f
    BY <1>4, <1>c
  <2>2. SameUsed(hdr, g, e)
    BY <2>1, <1>1 DEF SameUsed
  <2>3. ASSUME Linked(hdr), Merged(hdr, NULL)
        PROVE  /\ Merged(g, g[e].prev)
               /\ g[e].next # NULL => g[g[e].next].used
    <3>1. g[e].next # NULL => g[g[e].next].used
      BY <2>1, <1>4, <1>b
    <3>2. ASSUME NEW b \in DOMAIN g \ {g[e].prev}, g[b].next # NULL, b # e
          PROVE  g[b].used \/ g[g[b].next].used
      <4>1. b \in DOMAIN hdr /\ g[b].next = hdr[b].next /\ g[b].used = hdr[b].used
        BY <2>1, <1>1, <3>2
      <4>2. hdr[b].next # e
        BY <4>1, <1>a, <2>1, <1>1, <2>3, <3>2
      <4>3. hdr[b].next \in DOMAIN g
        BY <2>1, <1>1, <4>1, <3>2 DEF Tiled
      <4>4. hdr[b].used \/ hdr[hdr[b].next].used
        BY <4>1, <1>2, <2>3, <3>2 DEF Merged
      <4> QED
        BY <4>1, <4>2, <4>3, <4>4, <2>1, <1>1
    <3> QED
      BY <3>1, <3>2 DEF Merged
  <2> QED
    BY <1>1, <1>b, <2>1, <2>2, <2>3 DEF g
<1> QED
  BY <1>3, <1>4

\* Absorbing any block keeps the types, even through a stale prev.
LEMMA AbsorbTyped ==
    ASSUME NEW h, Typed(h), NEW a \in DOMAIN h, NEW n \in DOMAIN h
    PROVE  Typed(Absorb(h, a, n))
<1> DEFINE g == Absorb(h, a, n)
<1>1. DOMAIN g \subseteq DOMAIN h /\ g = [b \in DOMAIN g |-> g[b]]
  BY DEF Absorb
<1>2. h[a] \in Header /\ h[n] \in Header /\ a \in Nat
  BY DEF Typed
<1>3. ASSUME NEW b \in DOMAIN g
      PROVE  g[b] \in Header
  <2>1. h[b] \in Header
    BY <1>1 DEF Typed
  <2>2. \/ g[b] = [prev |-> h[a].prev, next |-> h[n].next,
                   length |-> h[a].length + HeaderLen + h[n].length,
                   used |-> h[a].used]
        \/ g[b] = [h[b] EXCEPT !.prev = a]
        \/ g[b] = h[b]
    BY DEF Absorb
  <2> QED
    BY <1>2, <2>1, <2>2 DEF Header, HeaderLen
<1> QED
  BY <1>1, <1>3 DEF Typed

\* free, as a whole: it keeps the list sound, touches no used block but its
\* own, and with sound back pointers it leaves pc to the caller.
LEMMA FreeKeeps ==
    ASSUME Typed(hdr), Tiled(hdr), NEW e \in DOMAIN hdr, hdr[e].used,
           NEW next_pc, FreeBlock(e, next_pc)
    PROVE  /\ Typed(hdr')
           /\ pc' \in {next_pc, "wild"}
           /\ pc' # "wild" => /\ Tiled(hdr') /\ SameUsed(hdr, hdr', e)
                              /\ DOMAIN hdr' # {}
           /\ Linked(hdr) => pc' = next_pc /\ Linked(hdr')
           /\ (Linked(hdr) /\ Merged(hdr, NULL)) => Merged(hdr', NULL)
<1> DEFINE g == MergeNext(e)
           p == g[e].prev
<1>1. /\ Typed(g) /\ Tiled(g) /\ e \in DOMAIN g /\ ~g[e].used
      /\ p = hdr[e].prev /\ SameUsed(hdr, g, e)
      /\ Linked(hdr) => Linked(g)
      /\ (Linked(hdr) /\ Merged(hdr, NULL)) =>
            /\ Merged(g, p)
            /\ g[e].next # NULL => g[g[e].next].used
  BY MergeNextKeeps
<1>2. \/ /\ p = NULL \/ (p \in DOMAIN g /\ g[p].used)
         /\ hdr' = g
         /\ pc' = next_pc
      \/ /\ p \in DOMAIN g
         /\ ~g[p].used
         /\ hdr' = Absorb(g, p, e)
         /\ pc' = IF g[p].next = e THEN next_pc ELSE "wild"
      \/ /\ p # NULL
         /\ p \notin DOMAIN g
         /\ hdr' = g
         /\ pc' \in {next_pc, "wild"}
  BY DEF FreeBlock
<1>3. NULL \notin DOMAIN g /\ NULL \notin DOMAIN hdr
  BY <1>1, Constants DEF Tiled, NULL
<1>4. Linked(hdr) => p = NULL \/ (p \in DOMAIN g /\ g[p].next = e)
  BY <1>1 DEF Linked
<1> HIDE DEF g, p
<1>5. CASE /\ p = NULL \/ (p \in DOMAIN g /\ g[p].used)
           /\ hdr' = g
           /\ pc' = next_pc
  <2>1. ASSUME Linked(hdr), Merged(hdr, NULL)
        PROVE  Merged(g, NULL)
    BY <2>1, <1>1, <1>5 DEF Merged
  <2> QED
    BY <2>1, <1>1, <1>5 DEF g
<1>6. CASE /\ p \in DOMAIN g
           /\ ~g[p].used
           /\ hdr' = Absorb(g, p, e)
           /\ pc' = IF g[p].next = e THEN next_pc ELSE "wild"
  <2>1. Typed(hdr')
    BY <1>1, <1>6, AbsorbTyped
  <2>3. CASE g[p].next # e
    BY <2>1, <2>3, <1>3, <1>4, <1>6
  <2>4. CASE g[p].next = e
    <3>1. e # NULL
      BY <1>1, <1>3
    <3>2. /\ e # p /\ g[e].next # p /\ g[e].next # e
          /\ DOMAIN hdr' = DOMAIN g \ {e}
          /\ hdr'[p].used = g[p].used /\ hdr'[p].next = g[e].next
          /\ \A b \in DOMAIN g \ {p, e} :
                /\ hdr'[b].next = g[b].next /\ hdr'[b].length = g[b].length
                /\ hdr'[b].used = g[b].used
      BY <1>1, <1>6, <2>4, <3>1, AbsorbFields
    <3>3. Tiled(hdr') /\ (Linked(g) => Linked(hdr'))
      BY <1>1, <1>6, <2>4, <3>1, AbsorbKeeps
    <3>4. SameUsed(hdr, hdr', e)
      BY <1>1, <1>6, <3>2 DEF SameUsed
    <3>5. ASSUME Linked(hdr), Merged(hdr, NULL)
          PROVE  Merged(hdr', NULL)
      <4>1. SUFFICES ASSUME NEW b \in DOMAIN hdr', hdr'[b].next # NULL
                     PROVE  hdr'[b].used \/ hdr'[hdr'[b].next].used
        BY DEF Merged
      <4>2. hdr'[b].next \in DOMAIN hdr'
        BY <3>3, <4>1 DEF Tiled
      <4>3. CASE b = p
        BY <4>1, <4>2, <4>3, <3>2, <3>5, <1>1
      <4>4. CASE b # p
        <5>1. b \in DOMAIN g \ {p, e} /\ hdr'[b].next = g[b].next
          BY <4>1, <4>4, <3>2
        <5>2. g[b].used \/ g[g[b].next].used
          BY <5>1, <4>1, <3>5, <1>1 DEF Merged
        <5>3. g[p].next # NULL /\ ~g[p].used
          BY <2>4, <3>1, <1>6
        <5>4. g[b].next = p => g[b].used
          BY <5>2, <5>3
        <5> QED
          BY <5>1, <5>2, <5>4, <4>2, <3>2
      <4> QED
        BY <4>3, <4>4
    <3>6. p \in DOMAIN hdr'
      BY <3>2, <1>6
    <3> QED
      BY <2>1, <2>4, <3>3, <3>4, <3>5, <3>6, <1>1, <1>6
  <2> QED
    BY <2>3, <2>4
<1>7. CASE /\ p # NULL
           /\ p \notin DOMAIN g
           /\ hdr' = g
           /\ pc' \in {next_pc, "wild"}
  BY <1>1, <1>4, <1>7 DEF g
<1> QED
  BY <1>2, <1>5, <1>6, <1>7

-----------------------------------------------------------------------------
\* Only the last block may be free.
LastFree(h) == \A a \in DOMAIN h : h[a].next # NULL => h[a].used

\* What a call in progress knows about the block under its cursor.
CallInv ==
    /\ pc \in {"walk", "calloc", "realloc"} =>
          /\ NoWrap => call.req <= call.size /\ call.req < SizeMod
          /\ call.op # "none"
          /\ call.op = "realloc" => call.old \in DOMAIN live
    /\ pc = "walk" => cur = NULL \/ cur \in Blocks
    /\ pc \in {"calloc", "realloc"} =>
          /\ call.op = pc
          /\ cur \in Blocks /\ Used(cur)
          /\ NoWrap => call.req <= hdr[cur].length
          /\ cur + HeaderLen \notin DOMAIN live

\* The used blocks are those of the live pointers, and the one in flight.
HeldInv ==
    pc # "wild" =>
        /\ \A p \in DOMAIN live :
              /\ p - HeaderLen \in Blocks /\ Used(p - HeaderLen)
              /\ NoWrap => live[p] <= hdr[p - HeaderLen].length
        /\ \A a \in Blocks : Used(a) =>
              \/ a + HeaderLen \in DOMAIN live
              \/ pc \in {"calloc", "realloc"} /\ a = cur

\* Under last-in first-out use the live pointers ascend in allocation order.
LifoInv ==
    lifo =>
        /\ ~midSplit
        /\ LastFree(hdr)
        /\ \A i \in 1 .. Len(stack) : stack[i] \in DOMAIN live
        /\ \A p \in DOMAIN live : \E i \in 1 .. Len(stack) : stack[i] = p
        /\ \A i, j \in 1 .. Len(stack) : i < j => stack[i] < stack[j]
        /\ pc \in {"calloc", "realloc"} =>
              \A p \in DOMAIN live : p < cur + HeaderLen

IInv ==
    /\ TypeOK
    /\ pc # "wild" => /\ Tiled(hdr)
                      /\ Blocks # {} => head = Base
                      /\ head # NULL => head \in Blocks
    /\ (~midSplit /\ pc # "wild") => Linked(hdr) /\ Merged(hdr, NULL)
    /\ NoWrap => (pc = "wild" => midSplit)
    /\ CallInv
    /\ HeldInv
    /\ LifoInv

-----------------------------------------------------------------------------
\* Rounding gives a size_t.
LEMMA RoundNat == ASSUME NEW n \in 0 .. SizeMod - 1 PROVE Round(n) \in Nat
<1>1. n % 4 \in 0 .. 3 /\ n - (n % 4) \in Nat /\ n < SizeMod /\ n \in Nat
  BY Constants
<1> DEFINE m == n - (n % 4) + 4
<1>2. m \in Nat
  BY <1>1
<1>3. Round(n) = IF n % 4 = 0 THEN n ELSE IF m < SizeMod THEN m ELSE m - SizeMod
  BY DEF Round, Wrap
<1> QED
  BY <1>1, <1>2, <1>3, Constants

\* Rounding a request that does not wrap rounds it up.
LEMMA RoundUp ==
    ASSUME NEW n \in Nat, n <= SizeMod - 4
    PROVE  Round(n) \in Nat /\ n <= Round(n)
<1>1. n % 4 \in 0 .. 3 /\ n - (n % 4) \in Nat
  OBVIOUS
<1>2. n - (n % 4) + 4 <= SizeMod
  BY <1>1, Constants
<1> QED
  <2>1. CASE n % 4 = 0
    BY <2>1 DEF Round
  <2>2. CASE n % 4 # 0
    <3>1. n - (n % 4) + 4 < SizeMod
      BY <2>2, <1>1, Constants
    <3> QED
      BY <3>1, <2>2, <1>1 DEF Round, Wrap
  <2> QED
    BY <2>1, <2>2

\* A remainder by a larger modulus is the number itself.
LEMMA ModSmall ==
    ASSUME NEW x \in Nat, NEW m \in Nat, x < m
    PROVE  x % m = x
  OBVIOUS

\* Before k_init_mem there is no block and no caller holds a pointer.
LEMMA InitIInv == Init => IInv
<1> SUFFICES ASSUME Init PROVE IInv
  OBVIOUS
<1>1. Blocks = {} /\ DOMAIN live = {}
  BY DEF Init, Blocks
<1>2. TypeOK
  <2>1. hdr \in [Blocks -> Header] /\ live \in [DOMAIN live -> Nat]
    BY <1>1 DEF Init, Blocks
  <2>2. stack \in Seq(Nat)
    BY DEF Init
  <2>3. call.op = "none" /\ call.req = 0 /\ call.size = 0 /\ call.old = 0
    BY DEF Init, Idle, NULL
  <2>4. /\ lifo \in BOOLEAN /\ midSplit \in BOOLEAN
        /\ pc \in {"idle", "walk", "calloc", "realloc", "wild"}
    BY DEF Init
  <2>5. head \in {NULL, Base} /\ cur \in Nat
    BY DEF Init, NULL
  <2> QED
    BY <1>1, <2>1, <2>2, <2>3, <2>4, <2>5 DEF TypeOK
<1>3. Tiled(hdr) /\ Linked(hdr) /\ Merged(hdr, NULL) /\ LastFree(hdr)
  BY <1>1 DEF Tiled, Linked, Merged, LastFree, Blocks
<1>4. CallInv /\ HeldInv /\ LifoInv
  BY <1>1, <1>3 DEF Init, CallInv, HeldInv, LifoInv
<1> QED
  BY <1>1, <1>2, <1>3, <1>4 DEF IInv, Init

\* k_init_mem lays one free block over the arena.
LEMMA InitMemKeeps == IInv /\ k_init_mem => IInv'
<1> SUFFICES ASSUME IInv, k_init_mem PROVE IInv'
  OBVIOUS
<1> DEFINE h == [prev |-> NULL, next |-> NULL, length |-> MemSize - HeaderLen,
                 used |-> FALSE]
<1>1. /\ hdr' = [a \in {Base} |-> h] /\ head' = Base /\ pc = "idle" /\ head = NULL
      /\ MemSize >= HeaderLen
      /\ UNCHANGED <<pc, call, cur, live, stack, lifo, midSplit>>
  BY DEF k_init_mem
<1>2. Blocks = {} /\ DOMAIN live = {}
  BY <1>1, Constants DEF IInv, HeldInv, NULL
<1>3. DOMAIN hdr' = {Base} /\ hdr'[Base] = h /\ h \in Header
  BY <1>1, Constants DEF Header, HeaderLen, NULL
<1>4. TypeOK'
  BY <1>1, <1>3, Constants DEF IInv, TypeOK, Blocks
<1>5. Tiled(hdr')
  BY <1>1, <1>3, Constants DEF Tiled, EndOf, HeaderLen, NULL, Limit
<1>6. Linked(hdr') /\ Merged(hdr', NULL) /\ LastFree(hdr')
  BY <1>3 DEF Linked, Merged, LastFree
<1>7. CallInv' /\ HeldInv' /\ LifoInv'
  BY <1>1, <1>2, <1>3, <1>6 DEF IInv, CallInv, HeldInv, LifoInv, Blocks, Used
<1> QED
  BY <1>1, <1>3, <1>4, <1>5, <1>6, <1>7, Constants DEF IInv, Blocks

\* Entering malloc puts the cursor on the head of the list.
LEMMA EnterKeeps ==
    ASSUME IInv, NEW op \in {"malloc", "calloc", "realloc"}, NEW old \in Nat,
           NEW req \in Nat, NEW size \in 0 .. SizeMod - 1,
           NoWrap => size = req /\ req <= SizeMod - 4,
           op = "realloc" => old \in DOMAIN live,
           EnterMalloc(op, old, req, size)
    PROVE  IInv'
<1>1. /\ pc = "idle" /\ pc' = "walk" /\ cur' = head
      /\ call' = [op |-> op, req |-> req, size |-> Round(size), old |-> old]
      /\ UNCHANGED <<head, hdr, live, stack, lifo, midSplit>>
  BY DEF EnterMalloc
<1>2. Round(size) \in Nat /\ (NoWrap => req <= Round(size) /\ req < SizeMod)
  BY RoundNat, RoundUp, Constants
<1>3. TypeOK'
  BY <1>1, <1>2, Constants DEF IInv, TypeOK, Blocks, NULL
<1>4. CallInv'
  BY <1>1, <1>2, Constants DEF IInv, CallInv, Blocks
<1>5. HeldInv' /\ LifoInv'
  BY <1>1 DEF IInv, HeldInv, LifoInv, Blocks, Used
<1> QED
  BY <1>1, <1>3, <1>4, <1>5 DEF IInv, Blocks

\* Passing over a block keeps the cursor on the list or at its end.
LEMMA WalkOnKeeps == IInv /\ WalkOn => IInv'
<1> SUFFICES ASSUME IInv, WalkOn PROVE IInv'
  OBVIOUS
<1>1. /\ pc = "walk" /\ cur # NULL /\ cur' = hdr[cur].next
      /\ UNCHANGED <<head, hdr, pc, call, live, stack, lifo, midSplit>>
  BY DEF WalkOn
<1>2. cur \in Blocks
  BY <1>1 DEF IInv, CallInv
<1>3. cur' = NULL \/ cur' \in Blocks
  BY <1>1, <1>2 DEF IInv, Tiled, Blocks
<1>4. TypeOK'
  BY <1>1, <1>2, <1>3 DEF IInv, TypeOK, Blocks, NULL
<1>5. CallInv' /\ HeldInv' /\ LifoInv'
  BY <1>1, <1>3 DEF IInv, CallInv, HeldInv, LifoInv, Blocks, Used
<1> QED
  BY <1>1, <1>4, <1>5 DEF IInv, Blocks

\* A malloc that finds no block changes nothing.
LEMMA WalkFailsKeeps == IInv /\ WalkFails => IInv'
<1> SUFFICES ASSUME IInv, WalkFails PROVE IInv'
  OBVIOUS
<1>1. /\ pc = "walk" /\ pc' = "idle" /\ call' = Idle
      /\ UNCHANGED <<head, hdr, cur, live, stack, lifo, midSplit>>
  BY DEF WalkFails
<1>2. TypeOK'
  BY <1>1 DEF IInv, TypeOK, Blocks, Idle, NULL
<1>3. CallInv' /\ HeldInv' /\ LifoInv'
  BY <1>1 DEF IInv, CallInv, HeldInv, LifoInv, Blocks, Used
<1> QED
  BY <1>1, <1>2, <1>3 DEF IInv, Blocks

\* Taking the last block, or a block without splitting it, keeps the back
\* pointers and leaves no two free neighbours.
LEMMA SplitLinked ==
    ASSUME NEW h, Typed(h), Tiled(h), Linked(h), Merged(h, NULL),
           NEW a \in DOMAIN h, NEW n \in Nat, n + HeaderLen <= h[a].length,
           h[a].next = NULL
    PROVE  /\ Linked(Split(h, a, n))
           /\ Merged(Split(h, a, n), NULL)
           /\ LastFree(h) => LastFree(Split(h, a, n))
<1> DEFINE s == a + HeaderLen + n
           g == Split(h, a, n)
<1>1. a \in Nat /\ s \in Nat /\ a < s /\ DOMAIN g = DOMAIN h \cup {s} /\ Base <= a
  BY DEF Typed, HeaderLen, Split, Tiled
<1>2. NULL \notin DOMAIN h /\ s # Base
  BY <1>1, Constants DEF Tiled, NULL
<1>3. s \notin DOMAIN h
  <2>1. SUFFICES ASSUME s \in DOMAIN h PROVE FALSE
    OBVIOUS
  <2>2. EndOf(h, a) <= s
    BY <1>1, <2>1 DEF Tiled, HeaderLen
  <2> QED
    BY <1>1, <2>2 DEF EndOf, HeaderLen, Header, Typed
<1>4. /\ g[a] = [prev |-> h[a].prev, next |-> s, length |-> n, used |-> TRUE]
      /\ g[s] = [prev |-> a, next |-> h[a].next,
                 length |-> h[a].length - n - HeaderLen, used |-> FALSE]
      /\ \A b \in DOMAIN h \ {a} : g[b] = h[b]
  BY <1>1, <1>3 DEF Split
<1>5. g[a].prev = h[a].prev /\ g[a].next = s /\ g[a].used
      /\ g[s].prev = a /\ g[s].next = NULL
  BY <1>4
<1> HIDE DEF g, s
<1>6. Linked(g)
  <2> SUFFICES ASSUME NEW b \in DOMAIN g
               PROVE  IF b = Base THEN g[b].prev = NULL
                      ELSE g[b].prev \in DOMAIN g /\ g[g[b].prev].next = b
    BY DEF Linked
  <2>1. CASE b = s
    BY <2>1, <1>1, <1>2, <1>5
  <2>2. CASE b \in DOMAIN h
    <3>1. g[b].prev = h[b].prev
      BY <2>2, <1>4, <1>5
    <3>2. CASE b = Base
      BY <2>2, <3>1, <3>2 DEF Linked
    <3>3. CASE b # Base
      <4>1. h[b].prev \in DOMAIN h /\ h[h[b].prev].next = b
        BY <2>2, <3>3 DEF Linked
      <4>2. h[b].prev # a
        BY <4>1, <2>2, <1>2
      <4> QED
        BY <3>1, <3>3, <4>1, <4>2, <1>1, <1>4
    <3> QED
      BY <3>2, <3>3
  <2> QED
    BY <2>1, <2>2, <1>1
<1>7. Merged(g, NULL)
  <2> SUFFICES ASSUME NEW b \in DOMAIN g, g[b].next # NULL
               PROVE  g[b].used \/ g[g[b].next].used
    BY DEF Merged
  <2>1. CASE b = s \/ b = a
    BY <2>1, <1>5
  <2>2. CASE b \in DOMAIN h \ {a}
    <3>1. g[b] = h[b] /\ h[b].next \in DOMAIN h
      BY <2>2, <1>4 DEF Tiled
    <3>2. h[b].used \/ h[h[b].next].used
      BY <2>2, <3>1, <1>2 DEF Merged
    <3> QED
      BY <3>1, <3>2, <1>4, <1>5
  <2> QED
    BY <2>1, <2>2, <1>1
<1>8. LastFree(h) => LastFree(g)
  BY <1>1, <1>4, <1>5 DEF LastFree
<1> QED
  BY <1>6, <1>7, <1>8 DEF g

\* What taking the block under the cursor does to the list.
LEMMA TakeFacts ==
    ASSUME IInv, pc = "walk", cur # NULL, Fits(cur)
    PROVE  LET g == TakeBlock(cur)
           IN  /\ cur \in Blocks
               /\ Typed(g) /\ Tiled(g)
               /\ Blocks \subseteq DOMAIN g
               /\ g[cur].used /\ call.size <= g[cur].length
               /\ \A b \in Blocks \ {cur} : g[b] = hdr[b]
               /\ \A b \in DOMAIN g : g[b].used => b \in Blocks
               /\ ~(midSplit \/ (Splits(cur) /\ hdr[cur].next # NULL)) =>
                     Linked(g) /\ Merged(g, NULL)
               /\ lifo => /\ LastFree(g)
                          /\ hdr[cur].next = NULL
                          /\ \A p \in DOMAIN live : p < cur + HeaderLen
<1> DEFINE g == TakeBlock(cur)
           n == call.size
<1>1. /\ cur \in Blocks /\ Typed(hdr) /\ Tiled(hdr) /\ n \in Nat
      /\ ~hdr[cur].used /\ n <= hdr[cur].length
      /\ ~midSplit => Linked(hdr) /\ Merged(hdr, NULL)
      /\ lifo => ~midSplit /\ LastFree(hdr)
  BY DEF IInv, TypeOK, CallInv, LifoInv, Fits, Typed, Blocks
<1>2. cur \in Nat /\ hdr[cur] \in Header /\ EndOf(hdr, cur) <= Limit
  BY <1>1 DEF Typed, Tiled, Blocks
<1>3. Splits(cur) <=> n + HeaderLen <= hdr[cur].length
  <2>1. n + HeaderLen < SizeMod
    BY <1>1, <1>2, Constants DEF EndOf, Header, HeaderLen
  <2> QED
    BY <2>1 DEF Splits, Wrap
<1>4. lifo => /\ hdr[cur].next = NULL
              /\ \A p \in DOMAIN live : p < cur + HeaderLen
  <2> SUFFICES ASSUME lifo
               PROVE  /\ hdr[cur].next = NULL
                      /\ \A p \in DOMAIN live : p < cur + HeaderLen
    OBVIOUS
  <2>1. hdr[cur].next = NULL /\ EndOf(hdr, cur) = Limit
    BY <1>1 DEF LastFree, Tiled, Blocks
  <2>2. ASSUME NEW p \in DOMAIN live
        PROVE  p < cur + HeaderLen
    <3>1. p \in Nat /\ p - HeaderLen \in Blocks /\ Used(p - HeaderLen)
      BY DEF IInv, HeldInv, TypeOK
    <3> DEFINE b == p - HeaderLen
    <3>2. b # cur /\ b \in DOMAIN hdr /\ b \in Nat /\ EndOf(hdr, b) <= Limit
          /\ hdr[b].length \in Nat
      BY <3>1, <1>1 DEF Used, Blocks, Tiled, Typed, Header
    <3>3. ~(cur < b)
      BY <3>2, <2>1, <1>1, <1>2, Constants DEF Tiled, EndOf, HeaderLen, Blocks
    <3> QED
      BY <3>1, <3>2, <3>3, <1>2 DEF HeaderLen
  <2> QED
    BY <2>1, <2>2
<1>5. CASE Splits(cur)
  <2>1. g = Split(hdr, cur, n)
    BY <1>5 DEF TakeBlock, Split
  <2>2. Typed(g) /\ Tiled(g)
    BY <2>1, <1>1, <1>3, <1>5, SplitTiled DEF Blocks
  <2>3. hdr[cur].next = NULL /\ Linked(hdr) /\ Merged(hdr, NULL) =>
            Linked(g) /\ Merged(g, NULL) /\ (LastFree(hdr) => LastFree(g))
    BY <2>1, <1>1, <1>3, <1>5, SplitLinked DEF Blocks
  <2>4. DOMAIN g = Blocks \cup {cur + HeaderLen + n}
    BY <2>1 DEF Split, Blocks
  <2>5. cur + HeaderLen + n \notin Blocks
    <3>1. SUFFICES ASSUME cur + HeaderLen + n \in Blocks PROVE FALSE
      OBVIOUS
    <3>2. EndOf(hdr, cur) <= cur + HeaderLen + n
      BY <3>1, <1>1, <1>2 DEF Tiled, HeaderLen, Blocks
    <3> QED
      BY <3>2, <1>1, <1>2, <1>3, <1>5 DEF EndOf, HeaderLen, Header
  <2>6. /\ g[cur].used /\ g[cur].length = n
        /\ ~g[cur + HeaderLen + n].used
        /\ \A b \in Blocks \ {cur} : g[b] = hdr[b]
    BY <2>1, <2>5, <1>1 DEF Split, Blocks
  <2> QED
    BY <2>2, <2>3, <2>4, <2>6, <1>1, <1>4, <1>5
<1>6. CASE ~Splits(cur)
  <2>1. g = [hdr EXCEPT ![cur].used = TRUE]
    BY <1>6 DEF TakeBlock
  <2> HIDE DEF g
  <2>2. /\ DOMAIN g = Blocks /\ Typed(g) /\ g[cur].used
        /\ \A b \in Blocks : /\ g[b].next = hdr[b].next
                             /\ g[b].length = hdr[b].length
                             /\ b # cur => g[b] = hdr[b]
        /\ Tiled(g) /\ (Linked(hdr) => Linked(g))
    BY <2>1, <1>1, MarkKeeps DEF Blocks
  <2>3. Merged(hdr, NULL) => Merged(g, NULL)
    <3> SUFFICES ASSUME Merged(hdr, NULL), NEW b \in DOMAIN g, b # NULL,
                        g[b].next # NULL
                 PROVE  g[b].used \/ g[g[b].next].used
      BY DEF Merged
    <3>1. hdr[b].used \/ hdr[hdr[b].next].used
      BY <2>2 DEF Merged, Blocks
    <3>2. hdr[b].next \in Blocks
      BY <2>2, <1>1 DEF Tiled, Blocks
    <3> QED
      BY <3>1, <3>2, <2>2
  <2>4. LastFree(hdr) => LastFree(g)
    BY <2>2 DEF LastFree, Blocks
  <2> QED
    BY <2>2, <2>3, <2>4, <1>1, <1>4 DEF g
<1> QED
  BY <1>5, <1>6

\* The stack stays sorted, and in step with live, when the pointer pushed on
\* it lies above the others, and when the newest one is popped.
Sorted(t, L) ==
    /\ t \in Seq(Nat)
    /\ \A i \in 1 .. Len(t) : t[i] \in L
    /\ \A p \in L : \E i \in 1 .. Len(t) : t[i] = p
    /\ \A i, j \in 1 .. Len(t) : i < j => t[i] < t[j]

\* A new allocation above all live ones keeps the LIFO stack sorted.
LEMMA PushSorted ==
    ASSUME NEW t, NEW L, Sorted(t, L), NEW p \in Nat, \A q \in L : q < p
    PROVE  Sorted(Append(t, p), L \cup {p})
<1> DEFINE u == Append(t, p)
<1>1. t \in Seq(Nat) /\ Len(t) \in Nat
  BY DEF Sorted
<1>2. /\ u \in Seq(Nat) /\ Len(u) = Len(t) + 1 /\ u[Len(t) + 1] = p
      /\ \A i \in 1 .. Len(t) : u[i] = t[i]
  BY <1>1
<1> HIDE DEF u
<1>3. \A i \in 1 .. Len(u) : i \in 1 .. Len(t) \/ i = Len(t) + 1
  BY <1>1, <1>2
<1>4. \A q \in L \cup {p} : \E i \in 1 .. Len(u) : u[i] = q
  <2>1. ASSUME NEW q \in L PROVE \E i \in 1 .. Len(u) : u[i] = q
    <3>1. PICK i \in 1 .. Len(t) : t[i] = q
      BY DEF Sorted
    <3>2. i \in 1 .. Len(u) /\ u[i] = q
      BY <3>1, <1>1, <1>2
    <3> QED
      BY <3>2
  <2>2. Len(t) + 1 \in 1 .. Len(u)
    BY <1>1, <1>2
  <2> QED
    BY <2>1, <2>2, <1>2
<1>5. \A i \in 1 .. Len(u) : u[i] \in L \cup {p}
  BY <1>2, <1>3 DEF Sorted
<1>6. ASSUME NEW i \in 1 .. Len(u), NEW j \in 1 .. Len(u), i < j
      PROVE  u[i] < u[j]
  <2>1. i \in 1 .. Len(t)
    BY <1>1, <1>2, <1>6
  <2>2. CASE j \in 1 .. Len(t)
    BY <2>1, <2>2, <1>2, <1>6 DEF Sorted
  <2>3. CASE j = Len(t) + 1
    BY <2>1, <2>3, <1>2 DEF Sorted
  <2> QED
    BY <2>2, <2>3, <1>3
<1> QED
  BY <1>2, <1>4, <1>5, <1>6 DEF Sorted, u

\* Releasing the newest allocation keeps the LIFO stack sorted.
LEMMA PopSorted ==
    ASSUME NEW t, NEW L, Sorted(t, L), t # << >>
    PROVE  /\ Sorted(SubSeq(t, 1, Len(t) - 1), L \ {t[Len(t)]})
           /\ \A q \in L : q <= t[Len(t)]
<1> DEFINE k == Len(t) - 1
           u == SubSeq(t, 1, k)
           p == t[Len(t)]
<1>1. t \in Seq(Nat) /\ Len(t) \in Nat /\ Len(t) > 0 /\ k \in Nat
  BY DEF Sorted
<1>2. u \in Seq(Nat) /\ Len(u) = k /\ \A i \in 1 .. k : u[i] = t[i]
  <2>1. \A i \in 1 .. k : t[i] \in Nat
    BY <1>1
  <2>2. /\ u \in Seq(Nat)
        /\ Len(u) = IF 1 <= k THEN k - 1 + 1 ELSE 0
        /\ \A i \in 1 .. k - 1 + 1 : u[i] = t[1 + i - 1]
    BY <1>1, <2>1, SubSeqProperties
  <2> HIDE DEF u, k
  <2>3. k - 1 + 1 = k /\ \A i \in 1 .. k : 1 + i - 1 = i
    BY <1>1
  <2>4. Len(u) = k
    BY <1>1, <2>2
  <2> QED
    BY <2>2, <2>3, <2>4
<1> HIDE DEF u
<1>3. \A i \in 1 .. k : u[i] \in L \ {p}
  <2>1. SUFFICES ASSUME NEW i \in 1 .. k PROVE t[i] \in L /\ t[i] # p
    BY <1>2
  <2>2. i \in 1 .. Len(t) /\ Len(t) \in 1 .. Len(t) /\ i < Len(t)
    BY <1>1
  <2>3. t[i] < p /\ t[i] \in Nat
    BY <2>2, <1>1 DEF Sorted
  <2> QED
    BY <2>2, <2>3 DEF Sorted
<1>4. ASSUME NEW q \in L \ {p} PROVE \E i \in 1 .. k : u[i] = q
  <2>1. PICK i \in 1 .. Len(t) : t[i] = q
    BY DEF Sorted
  <2>2. i \in 1 .. k
    BY <2>1, <1>1, <1>4
  <2> QED
    BY <2>1, <2>2, <1>2
<1>5. ASSUME NEW i \in 1 .. k, NEW j \in 1 .. k, i < j
      PROVE  u[i] < u[j]
  <2>1. i \in 1 .. Len(t) /\ j \in 1 .. Len(t)
    BY <1>1
  <2> QED
    BY <2>1, <1>2, <1>5 DEF Sorted
<1>6. ASSUME NEW q \in L PROVE q <= p
  <2>1. PICK i \in 1 .. Len(t) : t[i] = q
    BY DEF Sorted
  <2>2. CASE i = Len(t)
    BY <2>1, <2>2, <1>1
  <2>3. CASE i < Len(t)
    <3>1. Len(t) \in 1 .. Len(t) /\ t[i] \in Nat /\ p \in Nat
      BY <2>3, <1>1
    <3> QED
      BY <2>1, <2>3, <3>1 DEF Sorted
  <2> QED
    BY <2>1, <2>2, <2>3, <1>1
<1> QED
  BY <1>2, <1>3, <1>4, <1>5, <1>6 DEF Sorted, u

\* A block on its way to the caller, taken from the list g, is handed over.
LEMMA HoldKeeps ==
    ASSUME IInv, NEW a \in Nat, NEW n \in Nat, Hold(a + HeaderLen, n)
    PROVE  /\ DOMAIN live' = DOMAIN live \cup {a + HeaderLen}
           /\ live' \in [DOMAIN live' -> Nat]
           /\ DOMAIN live' \subseteq Nat
           /\ live'[a + HeaderLen] = n
           /\ \A p \in DOMAIN live : p # a + HeaderLen => live'[p] = live[p]
           /\ lifo' = lifo /\ stack' \in Seq(Nat)
           /\ (lifo /\ \A p \in DOMAIN live : p < a + HeaderLen)
                 => Sorted(stack', DOMAIN live')
<1>1. /\ live' = [q \in DOMAIN live \cup {a + HeaderLen} |->
                     IF q = a + HeaderLen THEN n ELSE live[q]]
      /\ stack' = IF lifo THEN Append(stack, a + HeaderLen) ELSE << >>
      /\ lifo' = lifo
  BY DEF Hold
<1>2. a + HeaderLen \in Nat
  BY DEF HeaderLen
<1>3. stack \in Seq(Nat) /\ live \in [DOMAIN live -> Nat] /\ DOMAIN live \subseteq Nat
  BY DEF IInv, TypeOK
<1>4. lifo => Sorted(stack, DOMAIN live)
  BY <1>3 DEF IInv, LifoInv, Sorted
<1> QED
  BY <1>1, <1>2, <1>3, <1>4, PushSorted

\* Taking the block under the cursor, split or whole, keeps the invariant.
LEMMA WalkTakesKeeps == IInv /\ WalkTakes => IInv'
<1> SUFFICES ASSUME IInv, WalkTakes PROVE IInv'
  OBVIOUS
<1> DEFINE g == TakeBlock(cur)
<1>1. /\ pc = "walk" /\ cur # NULL /\ Fits(cur) /\ hdr' = g /\ head' = head
      /\ midSplit' = (midSplit \/ (Splits(cur) /\ hdr[cur].next # NULL))
  BY DEF WalkTakes
<1>2. /\ cur \in Blocks /\ Typed(g) /\ Tiled(g) /\ Blocks \subseteq DOMAIN g
      /\ g[cur].used /\ call.size <= g[cur].length
      /\ \A b \in Blocks \ {cur} : g[b] = hdr[b]
      /\ \A b \in DOMAIN g : g[b].used => b \in Blocks
      /\ ~midSplit' => Linked(g) /\ Merged(g, NULL)
      /\ lifo => /\ LastFree(g)
                 /\ hdr[cur].next = NULL
                 /\ \A p \in DOMAIN live : p < cur + HeaderLen
  BY <1>1, TakeFacts
<1> HIDE DEF g
<1>3. /\ call.req \in Nat
      /\ NoWrap => call.req <= call.size /\ call.req < SizeMod
      /\ call.size \in Nat /\ call.old \in Nat
      /\ call.op \in {"malloc", "calloc", "realloc"}
      /\ call.op = "realloc" => call.old \in DOMAIN live
      /\ ~hdr[cur].used /\ cur \in Nat /\ g[cur].length \in Nat
  BY <1>1, <1>2 DEF IInv, CallInv, TypeOK, Fits, Typed, Header, Blocks
<1>4. NoWrap => call.req <= g[cur].length
  BY <1>2, <1>3
<1>5. cur + HeaderLen \notin DOMAIN live
  <2>1. SUFFICES ASSUME cur + HeaderLen \in DOMAIN live PROVE FALSE
    OBVIOUS
  <2>2. (cur + HeaderLen) - HeaderLen = cur
    BY <1>3 DEF HeaderLen
  <2>3. hdr[(cur + HeaderLen) - HeaderLen].used
    BY <2>1, <1>1 DEF IInv, HeldInv, Used
  <2> QED
    BY <2>2, <2>3, <1>3
<1>6. \A p \in DOMAIN live :
         /\ p \in Nat /\ p # cur + HeaderLen
         /\ p - HeaderLen \in Blocks \ {cur} /\ hdr[p - HeaderLen].used
         /\ NoWrap => live[p] <= hdr[p - HeaderLen].length
  BY <1>1, <1>3, <1>5 DEF IInv, HeldInv, TypeOK, Used, Blocks, HeaderLen
<1>7. \A a \in DOMAIN g : g[a].used => a = cur \/ a + HeaderLen \in DOMAIN live
  BY <1>1, <1>2 DEF IInv, HeldInv, Used, Blocks
<1>8. /\ Blocks' # {} => head' = Base
      /\ head' # NULL => head' \in Blocks'
  BY <1>1, <1>2 DEF IInv, Blocks
<1>9. lifo => ~midSplit'
  BY <1>1, <1>2 DEF IInv, LifoInv
<1>10. CASE call.op = "malloc"
  <2>1. /\ pc' = "idle" /\ call' = Idle /\ cur' = NULL
        /\ Hold(cur + HeaderLen, call.req)
    BY <1>10 DEF WalkTakes
  <2>2. /\ DOMAIN live' = DOMAIN live \cup {cur + HeaderLen}
        /\ live' \in [DOMAIN live' -> Nat] /\ DOMAIN live' \subseteq Nat
        /\ live'[cur + HeaderLen] = call.req
        /\ \A p \in DOMAIN live : p # cur + HeaderLen => live'[p] = live[p]
        /\ lifo' = lifo /\ stack' \in Seq(Nat)
        /\ (lifo /\ \A p \in DOMAIN live : p < cur + HeaderLen)
              => Sorted(stack', DOMAIN live')
    BY <2>1, <1>3, HoldKeeps
  <2>3. TypeOK'
    <3>1. midSplit' \in BOOLEAN
      BY <1>1
    <3>2. call'.op = "none" /\ call'.req = 0 /\ call'.size = 0 /\ call'.old = 0
      BY <2>1 DEF Idle, NULL
    <3> QED
      BY <1>1, <1>2, <2>1, <2>2, <3>1, <3>2 DEF IInv, TypeOK, Typed, Blocks, NULL
  <2>4. CallInv'
    BY <2>1 DEF CallInv
  <2>5. HeldInv'
    <3>1. \A p \in DOMAIN live' :
             /\ p - HeaderLen \in Blocks' /\ hdr'[p - HeaderLen].used
             /\ NoWrap => live'[p] <= hdr'[p - HeaderLen].length
      <4>1. ASSUME NEW p \in DOMAIN live
            PROVE  /\ p - HeaderLen \in Blocks' /\ hdr'[p - HeaderLen].used
                   /\ NoWrap => live'[p] <= hdr'[p - HeaderLen].length
        <5>1. /\ p - HeaderLen \in Blocks \ {cur} /\ hdr[p - HeaderLen].used
              /\ live'[p] = live[p]
              /\ NoWrap => live[p] <= hdr[p - HeaderLen].length
          BY <1>6, <2>2
        <5>2. hdr'[p - HeaderLen] = hdr[p - HeaderLen]
          BY <5>1, <1>1, <1>2
        <5> QED
          BY <5>1, <5>2, <1>1, <1>2 DEF Blocks
      <4>2. (cur + HeaderLen) - HeaderLen = cur
        BY <1>3 DEF HeaderLen
      <4> QED
        BY <4>1, <4>2, <1>1, <1>2, <1>4, <2>2 DEF Blocks
    <3>2. \A a \in Blocks' : hdr'[a].used => a + HeaderLen \in DOMAIN live'
      BY <1>1, <1>7, <2>2 DEF Blocks
    <3> QED
      BY <3>1, <3>2 DEF HeldInv, Used
  <2>6. LifoInv'
    <3>1. ASSUME lifo' PROVE Sorted(stack', DOMAIN live') /\ LastFree(hdr') /\ ~midSplit'
      BY <3>1, <2>2, <1>1, <1>2, <1>9
    <3> QED
      BY <3>1, <2>1 DEF LifoInv, Sorted
  <2> QED
    BY <1>1, <1>2, <1>8, <2>1, <2>3, <2>4, <2>5, <2>6 DEF IInv
<1>11. CASE call.op # "malloc"
  <2>1. pc' = call.op /\ UNCHANGED <<call, cur, live, stack, lifo>>
        /\ pc' \in {"calloc", "realloc"}
    BY <1>3, <1>11 DEF WalkTakes
  <2>2. TypeOK'
    <3>1. midSplit' \in BOOLEAN
      BY <1>1
    <3> QED
      BY <1>1, <1>2, <1>3, <2>1, <3>1 DEF IInv, TypeOK, Typed, Blocks
  <2>3. CallInv'
    BY <1>1, <1>2, <1>3, <1>4, <1>5, <2>1 DEF CallInv, Used, Blocks
  <2>4. HeldInv'
    BY <1>1, <1>2, <1>6, <1>7, <2>1 DEF HeldInv, Used, Blocks
  <2>5. LifoInv'
    BY <1>1, <1>2, <1>9, <2>1 DEF IInv, LifoInv
  <2> QED
    BY <1>1, <1>2, <1>8, <2>1, <2>2, <2>3, <2>4, <2>5 DEF IInv
<1> QED
  BY <1>10, <1>11

\* calloc hands its cleared block over to the caller.
LEMMA CallocKeeps == IInv /\ calloc_clears => IInv'
<1> SUFFICES ASSUME IInv, calloc_clears PROVE IInv'
  OBVIOUS
<1>1. /\ pc = "calloc" /\ call' = Idle /\ cur' = NULL
      /\ pc' = IF ClearLen <= hdr[cur].length THEN "idle" ELSE "wild"
      /\ Hold(cur + HeaderLen, call.req)
      /\ UNCHANGED <<head, hdr, midSplit>>
  BY DEF calloc_clears
<1>2. /\ cur \in Blocks /\ Used(cur)
      /\ cur + HeaderLen \notin DOMAIN live
      /\ NoWrap => call.req <= hdr[cur].length /\ call.req < SizeMod
      /\ call.req \in Nat /\ cur \in Nat
  BY <1>1 DEF IInv, CallInv, TypeOK
<1>3. pc' \in {"idle", "wild"} /\ (NoWrap => pc' = "idle")
  <2>1. ASSUME NoWrap PROVE ClearLen <= hdr[cur].length
    <3>1. ClearLen = call.req
      BY <1>2, <2>1, Constants, ModSmall DEF ClearLen
    <3> QED
      BY <3>1, <2>1, <1>2
  <2> QED
    BY <2>1, <1>1
<1>4. /\ DOMAIN live' = DOMAIN live \cup {cur + HeaderLen}
      /\ live' \in [DOMAIN live' -> Nat] /\ DOMAIN live' \subseteq Nat
      /\ live'[cur + HeaderLen] = call.req
      /\ \A p \in DOMAIN live : p # cur + HeaderLen => live'[p] = live[p]
      /\ lifo' = lifo /\ stack' \in Seq(Nat)
      /\ (lifo /\ \A p \in DOMAIN live : p < cur + HeaderLen)
            => Sorted(stack', DOMAIN live')
  BY <1>1, <1>2, HoldKeeps
<1>5. TypeOK'
  <2>1. call'.op = "none" /\ call'.req = 0 /\ call'.size = 0 /\ call'.old = 0
    BY <1>1 DEF Idle, NULL
  <2> QED
    BY <1>1, <1>3, <1>4, <2>1 DEF IInv, TypeOK, Blocks, NULL
<1>6. CallInv'
  BY <1>3 DEF CallInv
<1>7. HeldInv'
  <2>1. (cur + HeaderLen) - HeaderLen = cur
    BY <1>2 DEF HeaderLen
  <2>2. ASSUME NEW p \in DOMAIN live'
        PROVE  /\ p - HeaderLen \in Blocks' /\ hdr'[p - HeaderLen].used
               /\ NoWrap => live'[p] <= hdr'[p - HeaderLen].length
    <3>1. CASE p = cur + HeaderLen
      BY <3>1, <2>1, <1>1, <1>2, <1>4 DEF Used, Blocks
    <3>2. CASE p \in DOMAIN live
      BY <3>2, <1>1, <1>2, <1>4 DEF IInv, HeldInv, Used, Blocks
    <3> QED
      BY <3>1, <3>2, <1>4
  <2>3. \A a \in Blocks' : hdr'[a].used => a + HeaderLen \in DOMAIN live'
    BY <1>1, <1>4 DEF IInv, HeldInv, Used, Blocks
  <2> QED
    BY <2>2, <2>3 DEF HeldInv, Used
<1>8. LifoInv'
  <2>1. ASSUME lifo' PROVE Sorted(stack', DOMAIN live') /\ LastFree(hdr') /\ ~midSplit'
    BY <2>1, <1>1, <1>4 DEF IInv, LifoInv
  <2> QED
    BY <2>1, <1>3 DEF LifoInv, Sorted
<1> QED
  BY <1>1, <1>3, <1>5, <1>6, <1>7, <1>8 DEF IInv, Blocks

\* Freeing the highest used block of a list whose only free block is the last
\* one leaves such a list.
LEMMA FreeLast ==
    ASSUME Typed(hdr), Tiled(hdr), LastFree(hdr), NEW e \in DOMAIN hdr,
           \A b \in DOMAIN hdr : hdr[b].used => b <= e,
           Typed(hdr'), Tiled(hdr'), SameUsed(hdr, hdr', e), Merged(hdr', NULL)
    PROVE  LastFree(hdr')
<1> SUFFICES ASSUME NEW a \in DOMAIN hdr', hdr'[a].next # NULL, ~hdr'[a].used
             PROVE  FALSE
  BY DEF LastFree
<1> DEFINE c == hdr'[a].next
<1>1. c \in DOMAIN hdr' /\ c = EndOf(hdr', a) /\ a \in Nat /\ a < c /\ a # NULL
  BY Constants DEF Tiled, EndOf, Typed, Header, HeaderLen, NULL
<1>2. hdr'[c].used
  BY <1>1 DEF Merged
<1>3. c # e /\ c \in DOMAIN hdr /\ hdr[c].used /\ c <= e /\ a \in DOMAIN hdr
  BY <1>1, <1>2 DEF SameUsed
<1>4. c \in Nat /\ e \in Nat /\ a < e
  BY <1>1, <1>3 DEF Typed
<1>5. ~hdr[a].used
  BY <1>3, <1>4 DEF SameUsed
<1>6. EndOf(hdr, a) = Limit
  BY <1>3, <1>5 DEF LastFree, Tiled
<1>7. Limit <= e
  BY <1>3, <1>4, <1>6 DEF Tiled
<1>8. e < EndOf(hdr, e) /\ EndOf(hdr, e) <= Limit /\ EndOf(hdr, e) \in Nat
  BY <1>4 DEF EndOf, Typed, Header, HeaderLen, Tiled
<1> QED
  BY <1>4, <1>7, <1>8, Constants

\* free keeps the invariant, whichever live pointer it is given.
LEMMA FreeActionKeeps ==
    ASSUME IInv, NEW ptr \in DOMAIN live, free(ptr)
    PROVE  IInv'
<1> DEFINE e == ptr - HeaderLen
<1>1. /\ pc = "idle" /\ FreeBlock(e, "idle")
      /\ live' = [q \in DOMAIN live \ {ptr} |-> live[q]]
      /\ lifo' = Newest(ptr)
      /\ stack' = IF Newest(ptr) THEN SubSeq(stack, 1, Len(stack) - 1)
                  ELSE << >>
      /\ UNCHANGED <<head, call, cur, midSplit>>
  BY DEF free
<1>2. /\ Typed(hdr) /\ Tiled(hdr) /\ e \in DOMAIN hdr /\ hdr[e].used
      /\ ptr \in Nat /\ DOMAIN live \subseteq Nat
      /\ ~midSplit => Linked(hdr) /\ Merged(hdr, NULL)
  BY <1>1 DEF IInv, HeldInv, TypeOK, Typed, Used, Blocks
<1>3. /\ Typed(hdr') /\ pc' \in {"idle", "wild"}
      /\ pc' # "wild" => /\ Tiled(hdr') /\ SameUsed(hdr, hdr', e)
                         /\ DOMAIN hdr' # {}
      /\ Linked(hdr) => pc' = "idle" /\ Linked(hdr')
      /\ (Linked(hdr) /\ Merged(hdr, NULL)) => Merged(hdr', NULL)
  BY <1>1, <1>2, FreeKeeps
<1>4. ASSUME lifo'
      PROVE  /\ Sorted(stack', DOMAIN live') /\ ~midSplit
             /\ LastFree(hdr)
             /\ \A q \in DOMAIN live : q <= ptr
  <2>1. /\ lifo /\ stack # << >> /\ stack[Len(stack)] = ptr
        /\ stack' = SubSeq(stack, 1, Len(stack) - 1)
    BY <1>1, <1>4 DEF Newest
  <2>2. Sorted(stack, DOMAIN live) /\ ~midSplit /\ LastFree(hdr)
    BY <2>1 DEF IInv, LifoInv, TypeOK, Sorted
  <2>3. DOMAIN live' = DOMAIN live \ {ptr}
    BY <1>1
  <2> QED
    BY <2>1, <2>2, <2>3, PopSorted
<1>5. stack' \in Seq(Nat) /\ lifo' \in BOOLEAN
  <2>1. lifo' \in BOOLEAN
    BY <1>1 DEF Newest, IInv, TypeOK
  <2>2. CASE lifo'
    BY <2>2, <1>4 DEF Sorted
  <2>3. CASE ~lifo'
    <3>1. ~Newest(ptr)
      BY <2>3, <1>1, Zenon
    <3>2. stack' = << >>
      BY <3>1, <1>1
    <3> QED
      BY <3>2, <2>1
  <2> QED
    BY <2>1, <2>2, <2>3
<1>6. TypeOK'
  BY <1>1, <1>2, <1>3, <1>5 DEF IInv, TypeOK, Typed, Blocks
<1>7. ASSUME pc' # "wild"
      PROVE  /\ Blocks' # {} => head' = Base
             /\ head' # NULL => head' \in Blocks'
  <2>1. Blocks' \subseteq Blocks /\ Blocks # {} /\ head = Base
    BY <1>1, <1>2, <1>3, <1>7 DEF SameUsed, Blocks, IInv
  <2>2. Blocks' # {}
    BY <1>3, <1>7 DEF Blocks
  <2>3. Base \in Blocks'
    BY <2>2, <1>3, <1>7 DEF Tiled, Blocks
  <2> QED
    BY <2>1, <2>3, <1>1
<1>8. CallInv'
  BY <1>3 DEF CallInv
<1>9. HeldInv'
  <2> SUFFICES ASSUME pc' # "wild"
               PROVE  /\ \A p \in DOMAIN live' :
                           /\ p - HeaderLen \in Blocks' /\ hdr'[p - HeaderLen].used
                           /\ NoWrap => live'[p] <= hdr'[p - HeaderLen].length
                      /\ \A a \in Blocks' : hdr'[a].used =>
                           a + HeaderLen \in DOMAIN live'
    BY DEF HeldInv, Used
  <2>1. ASSUME NEW p \in DOMAIN live'
        PROVE  /\ p - HeaderLen \in Blocks' /\ hdr'[p - HeaderLen].used
               /\ NoWrap => live'[p] <= hdr'[p - HeaderLen].length
    <3>1. p \in DOMAIN live /\ p # ptr /\ live'[p] = live[p] /\ p \in Nat
      BY <1>1, <1>2
    <3>2. p - HeaderLen # e
      BY <3>1, <1>2 DEF HeaderLen
    <3>3. /\ p - HeaderLen \in DOMAIN hdr /\ hdr[p - HeaderLen].used
          /\ NoWrap => live[p] <= hdr[p - HeaderLen].length
      BY <3>1, <1>1 DEF IInv, HeldInv, Used, Blocks
    <3> QED
      BY <3>1, <3>2, <3>3, <1>3 DEF SameUsed, Blocks
  <2>2. ASSUME NEW a \in Blocks', hdr'[a].used
        PROVE  a + HeaderLen \in DOMAIN live'
    <3>1. a \in DOMAIN hdr /\ hdr[a].used /\ a # e /\ a \in Nat
      BY <2>2, <1>2, <1>3 DEF SameUsed, Blocks, Typed
    <3>2. a + HeaderLen \in DOMAIN live
      BY <3>1, <1>1 DEF IInv, HeldInv, Used, Blocks
    <3>3. a + HeaderLen # ptr
      BY <3>1, <1>2 DEF HeaderLen
    <3> QED
      BY <3>2, <3>3, <1>1
  <2> QED
    BY <2>1, <2>2
<1>10. LifoInv'
  <2> SUFFICES ASSUME lifo'
               PROVE  Sorted(stack', DOMAIN live') /\ LastFree(hdr') /\ ~midSplit'
    BY <1>3 DEF LifoInv, Sorted
  <2>1. pc' # "wild" /\ Tiled(hdr') /\ SameUsed(hdr, hdr', e) /\ Merged(hdr', NULL)
    BY <1>2, <1>3, <1>4
  <2>2. \A b \in DOMAIN hdr : hdr[b].used => b <= e
    <3>1. ASSUME NEW b \in DOMAIN hdr, hdr[b].used PROVE b <= e
      <4>1. b + HeaderLen \in DOMAIN live /\ b \in Nat
        BY <3>1, <1>1, <1>2 DEF IInv, HeldInv, Used, Blocks, Typed
      <4> QED
        BY <4>1, <1>2, <1>4 DEF HeaderLen
    <3> QED
      BY <3>1
  <2>3. LastFree(hdr')
    BY <2>1, <2>2, <1>2, <1>3, <1>4, FreeLast
  <2> QED
    BY <2>3, <1>1, <1>4
<1>11. (~midSplit' /\ pc' # "wild") => Linked(hdr') /\ Merged(hdr', NULL)
  BY <1>1, <1>2, <1>3
<1>12. pc' = "wild" => midSplit'
  BY <1>1, <1>2, <1>3
<1> QED
  BY <1>3, <1>6, <1>7, <1>8, <1>9, <1>10, <1>11, <1>12 DEF IInv

\* realloc hands the new block over and frees the old one.
LEMMA ReallocKeeps == IInv /\ realloc_moves => IInv'
<1> SUFFICES ASSUME IInv, realloc_moves PROVE IInv'
  OBVIOUS
<1> DEFINE e == call.old - HeaderLen
           buf == cur + HeaderLen
           next_pc == IF CopyLen <= hdr[cur].length THEN "idle" ELSE "wild"
<1>1. /\ pc = "realloc"
      /\ FreeBlock(e, next_pc)
      /\ live' = [q \in (DOMAIN live \ {call.old}) \cup {buf} |->
                     IF q = buf THEN call.req ELSE live[q]]
      /\ lifo' = FALSE /\ stack' = << >> /\ call' = Idle /\ cur' = NULL
      /\ UNCHANGED <<head, midSplit>>
  BY DEF realloc_moves
<1>2. /\ cur \in Blocks /\ Used(cur)
      /\ NoWrap => call.req <= hdr[cur].length
      /\ buf \notin DOMAIN live /\ call.old \in DOMAIN live
      /\ call.req \in Nat /\ cur \in Nat /\ call.old \in Nat
      /\ DOMAIN live \subseteq Nat /\ live \in [DOMAIN live -> Nat]
  BY <1>1 DEF IInv, CallInv, TypeOK
<1>3. /\ Typed(hdr) /\ Tiled(hdr) /\ e \in DOMAIN hdr /\ hdr[e].used
      /\ ~midSplit => Linked(hdr) /\ Merged(hdr, NULL)
  BY <1>1, <1>2 DEF IInv, HeldInv, TypeOK, Typed, Used, Blocks
<1>4. NoWrap => next_pc = "idle"
  <2> SUFFICES ASSUME NoWrap PROVE CopyLen <= hdr[cur].length
    OBVIOUS
  <2>1. CopyLen <= call.req
    BY <1>2, <1>3 DEF CopyLen, Typed, Header
  <2>2. CopyLen \in Nat /\ hdr[cur].length \in Nat
    BY <1>2, <1>3 DEF CopyLen, Typed, Header, Blocks
  <2> QED
    BY <2>1, <2>2, <1>2
<1> HIDE DEF next_pc
<1>5. /\ Typed(hdr') /\ pc' \in {"idle", "wild"}
      /\ pc' # "wild" => /\ Tiled(hdr') /\ SameUsed(hdr, hdr', e)
                         /\ DOMAIN hdr' # {}
      /\ Linked(hdr) => pc' = next_pc /\ Linked(hdr')
      /\ (Linked(hdr) /\ Merged(hdr, NULL)) => Merged(hdr', NULL)
  <2>1. next_pc \in {"idle", "wild"}
    BY DEF next_pc
  <2> QED
    BY <2>1, <1>1, <1>3, FreeKeeps
<1>6. /\ DOMAIN live' = (DOMAIN live \ {call.old}) \cup {buf}
      /\ live'[buf] = call.req
      /\ \A q \in DOMAIN live \ {call.old} : live'[q] = live[q]
      /\ live' \in [DOMAIN live' -> Nat] /\ DOMAIN live' \subseteq Nat
      /\ buf - HeaderLen = cur /\ cur # e
  BY <1>1, <1>2 DEF HeaderLen
<1>7. TypeOK'
  <2>1. call'.op = "none" /\ call'.req = 0 /\ call'.size = 0 /\ call'.old = 0
    BY <1>1 DEF Idle, NULL
  <2>2. lifo' \in BOOLEAN
    BY <1>1
  <2>3. stack' = << >> /\ << >> \in Seq(Nat)
    BY <1>1
  <2> QED
    BY <1>1, <1>5, <1>6, <2>1, <2>2, <2>3 DEF IInv, TypeOK, Typed, Blocks, NULL
<1>8. ASSUME pc' # "wild"
      PROVE  /\ Blocks' # {} => head' = Base
             /\ head' # NULL => head' \in Blocks'
  <2>1. Blocks # {} /\ head = Base
    BY <1>1, <1>2 DEF IInv
  <2>2. Base \in Blocks'
    BY <1>5, <1>8 DEF Tiled, Blocks
  <2> QED
    BY <2>1, <2>2, <1>1
<1>9. CallInv'
  BY <1>5 DEF CallInv
<1>10. HeldInv'
  <2> SUFFICES ASSUME pc' # "wild"
               PROVE  /\ \A p \in DOMAIN live' :
                           /\ p - HeaderLen \in Blocks' /\ hdr'[p - HeaderLen].used
                           /\ NoWrap => live'[p] <= hdr'[p - HeaderLen].length
                      /\ \A a \in Blocks' : hdr'[a].used =>
                           a + HeaderLen \in DOMAIN live'
    BY DEF HeldInv, Used
  <2>1. ASSUME NEW p \in DOMAIN live'
        PROVE  /\ p - HeaderLen \in Blocks' /\ hdr'[p - HeaderLen].used
               /\ NoWrap => live'[p] <= hdr'[p - HeaderLen].length
    <3>1. CASE p = buf
      BY <3>1, <1>2, <1>5, <1>6 DEF SameUsed, Blocks, Used
    <3>2. CASE p # buf
      <4>1. p \in DOMAIN live /\ p # call.old /\ live'[p] = live[p] /\ p \in Nat
        BY <3>2, <1>2, <1>6
      <4>2. p - HeaderLen # e
        BY <4>1, <1>2 DEF HeaderLen
      <4>3. /\ p - HeaderLen \in DOMAIN hdr /\ hdr[p - HeaderLen].used
            /\ NoWrap => live[p] <= hdr[p - HeaderLen].length
        BY <4>1, <1>1 DEF IInv, HeldInv, Used, Blocks
      <4> QED
        BY <4>1, <4>2, <4>3, <1>5 DEF SameUsed, Blocks
    <3> QED
      BY <3>1, <3>2
  <2>2. ASSUME NEW a \in Blocks', hdr'[a].used
        PROVE  a + HeaderLen \in DOMAIN live'
    <3>1. a \in DOMAIN hdr /\ hdr[a].used /\ a # e /\ a \in Nat
      BY <2>2, <1>3, <1>5 DEF SameUsed, Blocks, Typed
    <3>2. a + HeaderLen \in DOMAIN live \/ a = cur
      BY <3>1, <1>1 DEF IInv, HeldInv, Used, Blocks
    <3>3. a + HeaderLen # call.old
      BY <3>1, <1>2 DEF HeaderLen
    <3> QED
      BY <3>2, <3>3, <1>6
  <2> QED
    BY <2>1, <2>2
<1>11. LifoInv'
  BY <1>1 DEF LifoInv
<1>12. /\ (~midSplit' /\ pc' # "wild") => Linked(hdr') /\ Merged(hdr', NULL)
       /\ NoWrap => (pc' = "wild" => midSplit')
  BY <1>1, <1>3, <1>4, <1>5
<1> QED
  BY <1>5, <1>7, <1>8, <1>9, <1>10, <1>11, <1>12 DEF IInv

-----------------------------------------------------------------------------
\* Every step of Next keeps the inductive invariant.
LEMMA NextKeeps == IInv /\ [Next]_vars => IInv'
<1> SUFFICES ASSUME IInv, [Next]_vars PROVE IInv'
  OBVIOUS
<1>1. CASE k_init_mem
  BY <1>1, InitMemKeeps
<1>2. ASSUME NEW size \in Sizes, malloc(size) PROVE IInv'
  <2>1. /\ size \in Nat /\ size \in 0 .. SizeMod - 1
        /\ NoWrap => size <= SizeMod - 4
    BY ConstantsAssumption DEF NoWrap
  <2>2. EnterMalloc("malloc", 0, size, size)
    BY <1>2 DEF malloc, NULL
  <2> QED
    BY <2>1, <2>2, EnterKeeps
<1>3. ASSUME NEW num \in Counts, NEW size \in Sizes, calloc(num, size) PROVE IInv'
  <2>1. /\ num \in Nat /\ size \in Nat /\ num * size \in Nat
        /\ NoWrap => num * size <= SizeMod - 4
    BY ConstantsAssumption DEF NoWrap
  <2>2. /\ Product(num, size) \in 0 .. SizeMod - 1
        /\ NoWrap => Product(num, size) = num * size
    <3> DEFINE x == num * size
    <3>1. x \in Nat /\ (NoWrap => x < SizeMod) /\ SizeMod \in Nat \ {0}
      BY <2>1, Constants
    <3> HIDE DEF x
    <3>2. x % SizeMod \in 0 .. SizeMod - 1 /\ (NoWrap => x % SizeMod = x)
      BY <3>1, ModSmall
    <3> QED
      BY <3>2 DEF Product, x
  <2>3. EnterMalloc("calloc", 0, num * size, Product(num, size))
    BY <1>3 DEF calloc, NULL
  <2> QED
    BY <2>1, <2>2, <2>3, EnterKeeps
<1>4. ASSUME NEW ptr \in DOMAIN live, NEW size \in Sizes, realloc(ptr, size) PROVE IInv'
  <2>1. /\ size \in Nat /\ size \in 0 .. SizeMod - 1 /\ ptr \in Nat
        /\ NoWrap => size <= SizeMod - 4
    BY ConstantsAssumption DEF NoWrap, IInv, TypeOK
  <2>2. EnterMalloc("realloc", ptr, size, size)
    BY <1>4 DEF realloc
  <2> QED
    BY <2>1, <2>2, EnterKeeps
<1>5. ASSUME NEW ptr \in DOMAIN live, free(ptr) PROVE IInv'
  BY <1>5, FreeActionKeeps
<1>6. CASE WalkOn
  BY <1>6, WalkOnKeeps
<1>7. CASE WalkFails
  BY <1>7, WalkFailsKeeps
<1>8. CASE WalkTakes
  BY <1>8, WalkTakesKeeps
<1>9. CASE calloc_clears
  BY <1>9, CallocKeeps
<1>10. CASE realloc_moves
  BY <1>10, ReallocKeeps
<1>11. CASE UNCHANGED vars
  <2>1. UNCHANGED <<head, hdr, pc, call, cur, live, stack, lifo, midSplit>>
    BY <1>11 DEF vars
  <2> QED
    BY <2>1 DEF IInv, TypeOK, CallInv, HeldInv, LifoInv, Blocks, Used
<1> QED
  BY <1>1, <1>2, <1>3, <1>4, <1>5, <1>6, <1>7, <1>8, <1>9, <1>10, <1>11 DEF Next

\* The inductive invariant holds in every reachable state.
THEOREM Inductive == Spec => []IInv
<1>1. Init => IInv
  BY InitIInv
<1>2. IInv /\ [Next]_vars => IInv'
  BY NextKeeps
<1> QED
  BY <1>1, <1>2, PTL DEF Spec

\* Every variable of the heap keeps its type, also when a request wraps.
THEOREM TypeCorrect == Spec => []TypeOK
<1>1. IInv => TypeOK
  BY DEF IInv
<1> QED
  BY <1>1, Inductive, PTL

\* Whatever the callers ask for, also when rounding it wraps, malloc, calloc,
\* realloc and free keep a list of blocks that tiles the arena, until the
\* program leaves its defined behaviour (pc = "wild").
THEOREM BlocksTile == Spec => []Tiling
<1>1. IInv => Tiling
  BY DEF IInv, Tiling, Tiled, Blocks, End, EndOf
<1> QED
  BY <1>1, Inductive, PTL

\* Until malloc splits an inner block, the back pointers are right and no two
\* neighbours are free.
THEOREM StaysCoalesced == Spec => []Coalesced
<1>1. IInv => Coalesced
  <2> SUFFICES ASSUME IInv, ~midSplit, pc # "wild" PROVE Coalesced
    BY DEF Coalesced
  <2>1. Linked(hdr) /\ Merged(hdr, NULL) /\ NULL \notin Blocks
    BY Constants DEF IInv, Tiled, Blocks, NULL
  <2> QED
    BY <2>1 DEF Coalesced, Linked, Merged, Blocks, Used
<1> QED
  BY <1>1, Inductive, PTL

\* The bytes of a live allocation are its owner's alone: they overlap neither
\* another allocation nor a header of the allocator.
THEOREM AllocationsDisjoint == ASSUME NoWrap PROVE Spec => []LiveSafe
<1>1. IInv => LiveSafe
  <2> SUFFICES ASSUME IInv, pc # "wild", NEW p \in DOMAIN live
               PROVE  /\ Base <= p /\ p + live[p] <= Limit
                      /\ \A a \in Blocks : a + HeaderLen <= p \/ p + live[p] <= a
                      /\ \A q \in DOMAIN live \ {p} :
                            p + live[p] <= q \/ q + live[q] <= p
    BY DEF LiveSafe
  <2>1. Typed(hdr) /\ Tiled(hdr)
    BY DEF IInv, TypeOK, Typed, Blocks
  <2>2. \A q \in DOMAIN live :
           /\ q \in Nat /\ live[q] \in Nat
           /\ q - HeaderLen \in DOMAIN hdr
           /\ live[q] <= hdr[q - HeaderLen].length
    BY DEF IInv, HeldInv, TypeOK, Blocks
  <2>3. \A q \in DOMAIN live : q - HeaderLen \in Nat /\ Base <= q - HeaderLen
                               /\ q + live[q] <= EndOf(hdr, q - HeaderLen)
                               /\ EndOf(hdr, q - HeaderLen) <= Limit
                               /\ EndOf(hdr, q - HeaderLen) \in Nat
    BY <2>1, <2>2 DEF Tiled, Typed, EndOf, HeaderLen, Header
  <2>4. Base <= p /\ p + live[p] <= Limit
    BY <2>2, <2>3, Constants DEF HeaderLen
  <2>5. ASSUME NEW a \in Blocks
        PROVE  a + HeaderLen <= p \/ p + live[p] <= a
    <3>1. a \in Nat /\ EndOf(hdr, a) >= a + HeaderLen /\ EndOf(hdr, a) \in Nat
      BY <2>1 DEF Typed, EndOf, HeaderLen, Header, Blocks
    <3>2. CASE a < p - HeaderLen
      <4>1. EndOf(hdr, a) <= p - HeaderLen
        BY <3>2, <2>1, <2>2 DEF Tiled, Blocks
      <4> QED
        BY <4>1, <3>1, <2>2, <2>3 DEF HeaderLen
    <3>3. CASE a = p - HeaderLen
      BY <3>3, <2>2 DEF HeaderLen
    <3>4. CASE p - HeaderLen < a
      <4>1. EndOf(hdr, p - HeaderLen) <= a
        BY <3>4, <2>1, <2>2 DEF Tiled, Blocks
      <4> QED
        BY <4>1, <3>1, <2>2, <2>3
    <3> QED
      BY <3>1, <3>2, <3>3, <3>4, <2>3
  <2>6. ASSUME NEW q \in DOMAIN live \ {p}
        PROVE  p + live[p] <= q \/ q + live[q] <= p
    <3> DEFINE a == p - HeaderLen
               b == q - HeaderLen
    <3>1. a # b /\ a \in DOMAIN hdr /\ b \in DOMAIN hdr /\ a \in Nat /\ b \in Nat
      BY <2>2, <2>3 DEF HeaderLen
    <3>2. EndOf(hdr, a) <= b \/ EndOf(hdr, b) <= a
      BY <3>1, <2>1 DEF Tiled
    <3> QED
      BY <3>1, <3>2, <2>2, <2>3 DEF HeaderLen
  <2> QED
    BY <2>4, <2>5, <2>6
<1> QED
  BY <1>1, Inductive, PTL

\* The used blocks are exactly those that callers hold or are about to get.
THEOREM NothingLeaks == Spec => []NoLeak
<1>1. IInv => NoLeak
  <2> SUFFICES ASSUME IInv, pc # "wild" PROVE NoLeak
    BY DEF NoLeak
  <2> DEFINE U == {a \in Blocks : Used(a)}
             F == IF pc \in {"calloc", "realloc"} THEN {cur} ELSE {}
             V == {p - HeaderLen : p \in DOMAIN live}
  <2>1. ASSUME NEW a \in U PROVE a \in V \cup F
    <3>1. a \in Nat
      BY DEF IInv, TypeOK, Blocks
    <3>2. CASE a + HeaderLen \in DOMAIN live
      <4>1. (a + HeaderLen) - HeaderLen = a
        BY <3>1 DEF HeaderLen
      <4> QED
        BY <3>2, <4>1
    <3>3. CASE a + HeaderLen \notin DOMAIN live
      BY <3>3 DEF IInv, HeldInv
    <3> QED
      BY <3>2, <3>3
  <2>2. V \subseteq U /\ F \subseteq U
    BY DEF IInv, HeldInv, CallInv
  <2>3. U = V \cup F
    BY <2>1, <2>2
  <2> QED
    BY <2>3 DEF NoLeak
<1> QED
  BY <1>1, Inductive, PTL

\* calloc and realloc write inside their new block, and realloc carries over
\* everything the caller could have stored.
THEOREM WritesStayInside == ASSUME NoWrap PROVE Spec => []WritesFit
<1>1. IInv => WritesFit
  <2> SUFFICES ASSUME IInv PROVE WritesFit
    OBVIOUS
  <2>1. pc = "calloc" => ClearLen = call.req /\ ClearLen <= hdr[cur].length
    <3> SUFFICES ASSUME pc = "calloc"
                 PROVE  ClearLen = call.req /\ ClearLen <= hdr[cur].length
      OBVIOUS
    <3>1. call.req \in Nat /\ call.req < SizeMod /\ call.req <= hdr[cur].length
      BY DEF IInv, CallInv, TypeOK
    <3> QED
      BY <3>1, Constants, ModSmall DEF ClearLen
  <2>2. pc = "realloc" =>
          /\ CopyLen <= hdr[cur].length
          /\ CopyLen >= IF live[call.old] < call.req THEN live[call.old]
                        ELSE call.req
    <3> SUFFICES ASSUME pc = "realloc"
                 PROVE  /\ CopyLen <= hdr[cur].length
                        /\ CopyLen >= IF live[call.old] < call.req
                                      THEN live[call.old] ELSE call.req
      OBVIOUS
    <3>1. /\ call.req \in Nat /\ call.req <= hdr[cur].length
          /\ call.old \in DOMAIN live /\ cur \in Blocks
      BY DEF IInv, CallInv, TypeOK
    <3>2. /\ live[call.old] \in Nat /\ call.old - HeaderLen \in DOMAIN hdr
          /\ live[call.old] <= hdr[call.old - HeaderLen].length
      BY <3>1 DEF IInv, HeldInv, TypeOK, Blocks
    <3>3. hdr[call.old - HeaderLen].length \in Nat /\ hdr[cur].length \in Nat
      BY <3>1, <3>2 DEF IInv, TypeOK, Header, Blocks
    <3> QED
      BY <3>1, <3>2, <3>3 DEF CopyLen
  <2> QED
    BY <2>1, <2>2 DEF WritesFit
<1> QED
  BY <1>1, Inductive, PTL

\* Callers that free in the reverse order of allocation never reach the
\* undefined behaviour that the missing back pointer update opens.
THEOREM LifoCallersSafe == ASSUME NoWrap PROVE Spec => []LifoSafe
<1>1. IInv => LifoSafe
  BY DEF IInv, LifoInv, LifoSafe
<1> QED
  BY <1>1, Inductive, PTL

-----------------------------------------------------------------------------
\* The block after a is the next one in memory: nothing lies between.
LEMMA WalkPasses ==
    ASSUME IInv, Passed, WalkOn
    PROVE  Passed'
<1>1. /\ pc = "walk" /\ cur # NULL /\ ~Fits(cur) /\ cur' = hdr[cur].next
      /\ UNCHANGED <<head, hdr, pc, call, live, stack, lifo, midSplit>>
  BY DEF WalkOn
<1>2. /\ Tiled(hdr) /\ Typed(hdr)
      /\ cur \in DOMAIN hdr
  BY <1>1 DEF IInv, CallInv, TypeOK, Typed, Blocks
<1> SUFFICES ASSUME NEW a \in Blocks, cur' = NULL \/ a < cur' PROVE ~Fits(a)
  BY <1>1 DEF Passed, Blocks, Fits
<1>3. a \in DOMAIN hdr /\ a \in Nat /\ cur \in Nat /\ EndOf(hdr, a) > a
  BY <1>2 DEF Typed, Blocks, EndOf, Header, HeaderLen
<1>4. ~(cur < a)
  <2> SUFFICES ASSUME cur < a PROVE FALSE
    OBVIOUS
  <2>1. EndOf(hdr, cur) <= a /\ EndOf(hdr, a) <= Limit
    BY <1>2, <1>3 DEF Tiled
  <2>2. CASE cur' = NULL
    <3>1. EndOf(hdr, cur) = Limit
      BY <1>1, <1>2, <2>2 DEF Tiled
    <3> QED
      BY <3>1, <2>1, <1>2, <1>3, Constants DEF EndOf, Typed, Header, HeaderLen
  <2>3. CASE cur' # NULL
    <3>1. cur' = EndOf(hdr, cur) /\ a < cur'
      BY <1>1, <1>2, <2>3 DEF Tiled
    <3> QED
      BY <3>1, <2>1, <1>2, <1>3 DEF EndOf, Typed, Header, HeaderLen
  <2> QED
    BY <2>2, <2>3
<1>5. CASE a = cur
  BY <1>1, <1>5
<1>6. CASE a < cur
  BY <1>1, <1>6 DEF Passed
<1> QED
  BY <1>3, <1>4, <1>5, <1>6

\* A walk that starts at the head has passed nothing.
LEMMA EnterPasses ==
    ASSUME IInv, NEW op, NEW old, NEW req, NEW size, EnterMalloc(op, old, req, size)
    PROVE  Passed'
<1>1. /\ pc = "idle" /\ pc' = "walk" /\ cur' = head /\ UNCHANGED hdr
  BY DEF EnterMalloc
<1>2. \A a \in Blocks : head = Base /\ Base <= a /\ a \in Nat
  BY <1>1 DEF IInv, Tiled, Blocks, TypeOK
<1>3. \A a \in Blocks : ~(cur' = NULL \/ a < cur')
  BY <1>1, <1>2, Constants DEF NULL
<1> QED
  BY <1>1, <1>3 DEF Passed, Blocks

\* Every step keeps what the walk knows.
LEMMA NextPasses == IInv /\ Passed /\ [Next]_vars => Passed'
<1> SUFFICES ASSUME IInv, Passed, [Next]_vars PROVE Passed'
  OBVIOUS
<1>1. CASE k_init_mem
  BY <1>1 DEF k_init_mem, Passed
<1>2. ASSUME NEW size \in Sizes, malloc(size) PROVE Passed'
  BY <1>2, EnterPasses DEF malloc
<1>3. ASSUME NEW num \in Counts, NEW size \in Sizes, calloc(num, size) PROVE Passed'
  BY <1>3, EnterPasses DEF calloc
<1>4. ASSUME NEW ptr \in DOMAIN live, NEW size \in Sizes, realloc(ptr, size) PROVE Passed'
  BY <1>4, EnterPasses DEF realloc
<1>5. ASSUME NEW ptr \in DOMAIN live, free(ptr) PROVE Passed'
  <2>1. pc' \in {"idle", "wild"}
    BY <1>5 DEF free, FreeBlock
  <2> QED
    BY <2>1 DEF Passed
<1>6. CASE WalkOn
  BY <1>6, WalkPasses
<1>7. CASE WalkFails
  BY <1>7 DEF WalkFails, Passed
<1>8. CASE WalkTakes
  <2>1. pc' = "idle" \/ pc' = call.op
    BY <1>8 DEF WalkTakes
  <2>2. call.op # "walk"
    BY DEF IInv, TypeOK
  <2> QED
    BY <2>1, <2>2 DEF Passed
<1>9. CASE calloc_clears
  BY <1>9 DEF calloc_clears, Passed
<1>10. CASE realloc_moves
  <2>1. pc' \in {"idle", "wild"}
    BY <1>10 DEF realloc_moves, FreeBlock
  <2> QED
    BY <2>1 DEF Passed
<1>11. CASE UNCHANGED vars
  BY <1>11 DEF vars, Passed, Blocks, Fits
<1> QED
  BY <1>1, <1>2, <1>3, <1>4, <1>5, <1>6, <1>7, <1>8, <1>9, <1>10, <1>11 DEF Next

\* malloc gives up, or passes over a block, only when the block does not fit,
\* whatever the history of the heap.  As long as the list is coalesced, a gap
\* between allocations is a single block, so it passes over no room at all.
THEOREM WalkIsFirstFit == Spec => []FirstFit
<1>1. Init => Passed
  BY DEF Init, Passed
<1>2. IInv /\ Passed => NoGapPassed
  <2> SUFFICES ASSUME IInv, Passed, pc = "walk", head # NULL, ~midSplit,
                      NEW x \in GapStarts, cur = NULL \/ x < cur
               PROVE  \E y \in GapStops : x <= y /\ y < x + HeaderLen + call.size
    BY DEF NoGapPassed
  <2>1. /\ Tiled(hdr) /\ Typed(hdr) /\ Merged(hdr, NULL)
        /\ head = Base /\ Base \in DOMAIN hdr
        /\ call.size \in Nat
    BY DEF IInv, TypeOK, Typed, Blocks
  <2>2. x = Limit \/ x \in DOMAIN hdr
    <3>1. CASE x = Base
      BY <3>1, <2>1
    <3>2. CASE x # Base
      <4>1. PICK a \in Blocks : x = End(a)
        BY <3>2 DEF GapStarts
      <4> QED
        BY <4>1, <2>1 DEF Tiled, Blocks, End, EndOf
    <3> QED
      BY <3>1, <3>2
  <2>3. CASE x = Limit
    BY <2>1, <2>3, Constants DEF GapStops, HeaderLen
  <2>4. CASE x \in DOMAIN hdr /\ Used(x)
    <3>1. x \in GapStops /\ x \in Nat
      BY <2>1, <2>4 DEF GapStops, Blocks, Typed
    <3> QED
      BY <2>1, <3>1 DEF HeaderLen
  <2>5. CASE x \in DOMAIN hdr /\ ~Used(x)
    <3> DEFINE y == EndOf(hdr, x)
    <3>1. hdr[x].length < call.size /\ x \in Nat /\ hdr[x].length \in Nat
      BY <2>1, <2>5 DEF Passed, Fits, Used, Blocks, Typed, Header
    <3>2. x <= y /\ y < x + HeaderLen + call.size
      BY <2>1, <3>1 DEF EndOf, HeaderLen
    <3>3. y \in GapStops
      <4>1. CASE hdr[x].next = NULL
        BY <2>1, <2>5, <4>1 DEF Tiled, GapStops
      <4>2. CASE hdr[x].next # NULL
        <5>1. y \in DOMAIN hdr /\ hdr[x].next = y
          BY <2>1, <2>5, <4>2 DEF Tiled
        <5>2. x # NULL
          BY <2>1, <2>5, <3>1, Constants DEF Tiled, NULL
        <5>3. Used(y)
          BY <2>1, <2>5, <4>2, <5>1, <5>2 DEF Merged, Used
        <5> QED
          BY <5>1, <5>3 DEF GapStops, Blocks
      <4> QED
        BY <4>1, <4>2
    <3> QED
      BY <3>2, <3>3
  <2> QED
    BY <2>2, <2>3, <2>4, <2>5
<1> QED
  BY <1>1, <1>2, NextPasses, Inductive, PTL DEF Spec, FirstFit

=============================================================================
