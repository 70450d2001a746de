---------------------------- MODULE GroupsProofs ----------------------------
(***************************************************************************)
(* Proofs about Groups, for any handlers, paths and bounds, however append *)
(* chooses the capacity of new arrays.                                     *)
(***************************************************************************)
EXTENDS Groups, Induction, SequenceTheorems, TLAPS

Cell == Handlers \cup {None}
Heap == Seq(Seq(Cell))

-----------------------------------------------------------------------------
(* Slices.                                                                 *)

\* The heap h became k: no array has gone or changed its size, and only the
\* array a, if that is one, has other cells than before.
Only(a, h, k) ==
  /\ k \in Heap /\ Len(h) <= Len(k)
  /\ \A b \in 1 .. Len(h) : Len(k[b]) = Len(h[b]) /\ (b # a => k[b] = h[b])

\* A slice of an array that nobody wrote to has the elements it had.
LEMMA Untouched ==
  ASSUME NEW h \in Heap, NEW k, NEW a, Only(a, h, k), NEW s, IsSlice(h, s)
  PROVE  /\ IsSlice(k, s)
         /\ s.array # 0 => Len(k[s.array]) = Len(h[s.array])
         /\ s.array = 0 \/ s.array # a => Contents(k, s) = Contents(h, s)
<1>1. s.array \in Nat /\ s.len \in Nat /\ Len(h) \in Nat /\ Len(k) \in Nat
  BY DEF IsSlice, Slice, Only, Heap
<1>2. CASE s.array = 0
  BY <1>1, <1>2 DEF IsSlice, Contents, Only
<1>3. CASE s.array # 0
  <2>1. s.array \in 1 .. Len(h) /\ s.array \in 0 .. Len(k)
    BY <1>1, <1>3 DEF IsSlice, Only
  <2>2. Len(k[s.array]) = Len(h[s.array])
    BY <2>1 DEF Only
  <2>3. s.array # a => k[s.array] = h[s.array]
    BY <2>1 DEF Only
  <2> QED
    BY <1>3, <2>1, <2>2, <2>3 DEF IsSlice, Contents
<1> QED
  BY <1>2, <1>3

\* The elements of a slice are a sequence of its length.
LEMMA ContentsAreCells ==
  ASSUME NEW h \in Heap, NEW s, IsSlice(h, s)
  PROVE  Contents(h, s) \in Seq(Cell) /\ Len(Contents(h, s)) = s.len
<1>1. s.len \in Nat
  BY DEF IsSlice, Slice
<1>2. \A i \in 1 .. s.len : h[s.array][i] \in Cell
  <2> SUFFICES ASSUME NEW i \in 1 .. s.len PROVE h[s.array][i] \in Cell
    OBVIOUS
  <2>1. s.array \in 1 .. Len(h) /\ s.len <= Len(h[s.array])
    BY <1>1 DEF IsSlice, Heap
  <2>2. h[s.array] \in Seq(Cell)
    BY <2>1 DEF Heap
  <2> QED
    BY <1>1, <2>1, <2>2
<1> QED
  BY <1>1, <1>2 DEF Contents

\* A new array holds what it was made for, and leaves the others alone.
LEMMA FreshSlice ==
  ASSUME NEW h \in Heap, NEW ms \in Seq(Cell)
  PROVE  /\ Only(0, h, Fresh(h, ms).heap)
         /\ IsSlice(Fresh(h, ms).heap, Fresh(h, ms).slice)
         /\ Fresh(h, ms).slice.array \in {0, Len(h) + 1}
         /\ Contents(Fresh(h, ms).heap, Fresh(h, ms).slice) = ms
<1>1. CASE ms = <<>>
  <2>1. Fresh(h, ms) = [heap |-> h, slice |-> nil]
    BY <1>1 DEF Fresh
  <2> QED
    BY <1>1, <2>1 DEF Only, IsSlice, Slice, Contents, nil, Heap
<1>2. CASE ms # <<>>
  <2> DEFINE k == Append(h, ms)
             s == [array |-> Len(h) + 1, len |-> Len(ms)]
  <2>1. Fresh(h, ms).heap = k /\ Fresh(h, ms).slice = s
    BY <1>2 DEF Fresh
  <2>2. /\ k \in Heap /\ Len(k) = Len(h) + 1 /\ Len(h) \in Nat
        /\ k[Len(h) + 1] = ms /\ \A b \in 1 .. Len(h) : k[b] = h[b]
    BY DEF Heap
  <2> HIDE DEF k
  <2>3. Only(0, h, k)
    BY <2>2 DEF Only
  <2>4. IsSlice(k, s)
    BY <2>2 DEF IsSlice, Slice
  <2>5. Contents(k, s) = ms
    BY <2>2 DEF Contents
  <2> QED
    BY <2>1, <2>3, <2>4, <2>5
<1> QED
  BY <1>1, <1>2

\* What append does to a slice s and the heap: nothing, or s moves to a new
\* array, or it stays and the cells behind it are overwritten.
Appended(h, s, ms, k, t) ==
  /\ k \in Heap /\ IsSlice(k, t) /\ Contents(k, t) = Contents(h, s) \o ms
  /\ \/ Only(0, h, k) /\ t = s
     \/ Only(0, h, k) /\ t.array = Len(h) + 1
     \/ /\ Only(s.array, h, k) /\ t.array = s.array
        /\ s.array # 0 /\ s.len < Len(h[s.array])

\* append returns the old elements and the new ones, in the array of the slice
\* while there is room and in a new one otherwise.
LEMMA AppendSlice ==
  ASSUME NEW h \in Heap, NEW s, IsSlice(h, s), NEW ms \in Seq(Cell),
         NEW spare \in Nat
  PROVE  Appended(h, s, ms, append(h, s, ms, spare).heap,
                  append(h, s, ms, spare).slice)
<1> DEFINE need == s.len + Len(ms)
           old == Contents(h, s)
<1>1. /\ s.array \in 0 .. Len(h) /\ s.len \in Nat /\ Len(h) \in Nat
      /\ Len(ms) \in Nat /\ need \in Nat
      /\ s \in Slice
  BY DEF IsSlice, Slice, Heap
<1>2. old \in Seq(Cell) /\ Len(old) = s.len
  BY ContentsAreCells
<1>3. \A i \in 1 .. s.len : old[i] = h[s.array][i]
  BY DEF Contents
<1> HIDE DEF old
<1>4. /\ old \o ms \in Seq(Cell) /\ Len(old \o ms) = need
      /\ \A i \in 1 .. need : (old \o ms)[i] = IF i <= s.len THEN h[s.array][i]
                                             ELSE ms[i - s.len]
  <2>1. /\ old \o ms \in Seq(Cell) /\ Len(old \o ms) = Len(old) + Len(ms)
        /\ \A i \in 1 .. Len(old) + Len(ms) :
             (old \o ms)[i] = IF i <= Len(old) THEN old[i] ELSE ms[i - Len(old)]
    BY <1>2, ConcatProperties
  <2> QED
    BY <1>1, <1>2, <1>3, <2>1
<1>5. CASE ms = <<>>
  <2>1. append(h, s, ms, spare) = [heap |-> h, slice |-> s]
    BY <1>5 DEF append
  <2>2. old \o ms = old
    BY <1>2, <1>5
  <2> QED
    BY <2>1, <2>2 DEF Appended, Only, old, Heap
<1>6. CASE ms # <<>> /\ HasRoom(h, s, Len(ms))
  <2> DEFINE a == [i \in DOMAIN h[s.array] |->
                     IF i \in s.len + 1 .. need THEN ms[i - s.len]
                     ELSE h[s.array][i]]
             k == [h EXCEPT ![s.array] = a]
             t == [s EXCEPT !.len = need]
  <2>1. append(h, s, ms, spare).heap = k /\ append(h, s, ms, spare).slice = t
    BY <1>6 DEF append
  <2>2. /\ s.array \in 1 .. Len(h) /\ need <= Len(h[s.array])
        /\ h[s.array] \in Seq(Cell) /\ Len(ms) > 0
    BY <1>1, <1>6, EmptySeq DEF HasRoom, Heap
  <2>3. a \in Seq(Cell) /\ Len(a) = Len(h[s.array])
    <3> DEFINE n == Len(h[s.array])
    <3>1. n \in Nat /\ DOMAIN h[s.array] = 1 .. n
      BY <2>2
    <3>2. \A i \in 1 .. n : a[i] \in Cell
      BY <1>1, <2>2, <3>1
    <3>3. a = [i \in 1 .. n |-> a[i]]
      BY <3>1
    <3> HIDE DEF a, n
    <3>4. a \in Seq(Cell) /\ Len(a) = n
      BY <3>1, <3>2, <3>3
    <3> QED
      BY <3>4 DEF n
  <2>4. \A i \in 1 .. need : a[i] = (old \o ms)[i]
    <3> SUFFICES ASSUME NEW i \in 1 .. need PROVE a[i] = (old \o ms)[i]
      OBVIOUS
    <3>1. i \in DOMAIN h[s.array] /\ (i <= s.len <=> i \notin s.len + 1 .. need)
      BY <1>1, <2>2
    <3> HIDE DEF need
    <3>2. a[i] = IF i \in s.len + 1 .. need THEN ms[i - s.len]
                 ELSE h[s.array][i]
      BY <3>1
    <3> HIDE DEF a
    <3> QED
      BY <1>4, <3>1, <3>2
  <2> HIDE DEF a
  <2>5. /\ k \in Heap /\ Len(k) = Len(h) /\ k[s.array] = a
        /\ \A b \in 1 .. Len(h) : b # s.array => k[b] = h[b]
    BY <2>2, <2>3, ExceptSeq DEF Heap
  <2>6. t \in Slice /\ t.array = s.array /\ t.len = need
    BY <1>1 DEF Slice
  <2> HIDE DEF k, t
  <2>7. Only(s.array, h, k)
    BY <2>2, <2>3, <2>5 DEF Only
  <2>8. IsSlice(k, t)
    BY <1>1, <2>2, <2>3, <2>5, <2>6 DEF IsSlice
  <2>9. Contents(k, t) = old \o ms
    <3>1. Contents(k, t) \in Seq(Cell) /\ Len(Contents(k, t)) = need
      BY <2>5, <2>6, <2>8, ContentsAreCells
    <3>2. \A i \in 1 .. need : Contents(k, t)[i] = a[i]
      BY <2>5, <2>6 DEF Contents
    <3> QED
      BY <1>4, <2>4, <3>1, <3>2, SeqEqual
  <2> QED
    BY <1>1, <2>1, <2>2, <2>5, <2>6, <2>7, <2>8, <2>9 DEF Appended, old
<1>7. CASE ms # <<>> /\ ~HasRoom(h, s, Len(ms))
  <2> DEFINE a == [i \in 1 .. need + spare |->
                     IF i <= s.len THEN h[s.array][i]
                     ELSE IF i <= need THEN ms[i - s.len] ELSE None]
             k == Append(h, a)
             t == [array |-> Len(h) + 1, len |-> need]
  <2>1. append(h, s, ms, spare).heap = k /\ append(h, s, ms, spare).slice = t
    BY <1>7 DEF append
  <2>2. \A i \in 1 .. s.len : h[s.array][i] \in Cell
    BY <1>2, <1>3
  <2>3. a \in Seq(Cell) /\ Len(a) = need + spare
    <3>1. \A i \in 1 .. need + spare : a[i] \in Cell
      BY <1>1, <2>2 DEF Cell
    <3>2. a = [i \in 1 .. need + spare |-> a[i]] /\ need + spare \in Nat
      BY <1>1
    <3> HIDE DEF a, need
    <3> QED
      BY <3>1, <3>2
  <2>4. \A i \in 1 .. need : a[i] = (old \o ms)[i]
    BY <1>1, <1>4
  <2> HIDE DEF a
  <2>5. /\ k \in Heap /\ Len(k) = Len(h) + 1 /\ k[Len(h) + 1] = a
        /\ \A b \in 1 .. Len(h) : k[b] = h[b]
    BY <2>3 DEF Heap
  <2> HIDE DEF k
  <2>6. Only(0, h, k)
    BY <1>1, <2>5 DEF Only
  <2>7. IsSlice(k, t)
    BY <1>1, <2>3, <2>5 DEF IsSlice, Slice
  <2>8. Contents(k, t) = old \o ms
    <3>1. Contents(k, t) \in Seq(Cell) /\ Len(Contents(k, t)) = need
      BY <2>5, <2>7, ContentsAreCells
    <3>2. \A i \in 1 .. need : Contents(k, t)[i] = a[i]
      BY <2>5 DEF Contents
    <3> QED
      BY <1>4, <2>4, <3>1, <3>2, SeqEqual
  <2> QED
    BY <2>1, <2>5, <2>6, <2>7, <2>8 DEF Appended, old
<1> QED
  BY <1>5, <1>6, <1>7

-----------------------------------------------------------------------------
(* Who may write to which array.                                           *)

\* An array that the program has not lent has one user that may append to it;
\* the chain of a route is in an array that nobody appends to.
Separate ==
  /\ middleware.array # 0 =>
       /\ middleware.array \notin lent /\ middleware.array # own.array
       /\ \A g \in DOMAIN groups : groups[g].middleware.array # middleware.array
  /\ \A g \in DOMAIN groups : groups[g].middleware.array \notin lent \cup {0} =>
       /\ groups[g].middleware.array # own.array
       /\ \A k \in DOMAIN groups :
            k # g => groups[k].middleware.array # groups[g].middleware.array
  /\ \A r \in DOMAIN routes : routes[r].chain.array # 0 =>
       /\ routes[r].chain.array \notin lent
       /\ routes[r].chain.array # middleware.array
       /\ routes[r].chain.array # own.array
       /\ \A g \in DOMAIN groups :
            groups[g].middleware.array # routes[r].chain.array

\* A slice of an array that was lent has no room behind it.
Full ==
  /\ own.array \in lent => own.len = Len(heap[own.array])
  /\ \A g \in DOMAIN groups : groups[g].middleware.array \in lent =>
       groups[g].middleware.len = Len(heap[groups[g].middleware.array])

\* The program keeps handlers in its slice.
OwnHandlers == Contents(heap, own) \in Seq(Handlers)

\* The inductive invariant.
IInv ==
  /\ TypeOK /\ OwnHandlers /\ Separate /\ Full
  /\ MiddlewareAsDeclared /\ ChainsAsDeclared

\* Every slice of an array other than a has what it had.
Kept(a) ==
  \A s : IsSlice(heap, s) =>
    /\ IsSlice(heap', s)
    /\ s.array # 0 => Len(heap'[s.array]) = Len(heap[s.array])
    /\ s.array = 0 \/ s.array # a => Contents(heap', s) = Contents(heap, s)

\* A step that writes to the array a alone leaves the slices of other arrays as
\* they are.
LEMMA OnlyKeeps ==
  ASSUME TypeOK, NEW a, Only(a, heap, heap')
  PROVE  Kept(a) /\ heap' \in Heap /\ Len(heap) \in Nat /\ Len(heap) <= Len(heap')
<1>1. heap \in Heap
  BY DEF TypeOK, Heap, Cell
<1>2. Kept(a)
  BY <1>1, Untouched DEF Kept
<1> QED
  BY <1>1, <1>2 DEF Only, Heap

\* Arrays that were lent keep their size,
LEMMA SizesStay ==
  ASSUME TypeOK, NEW a, Kept(a)
  PROVE  /\ own.array \in lent => Len(heap'[own.array]) = Len(heap[own.array])
         /\ \A g \in DOMAIN groups : groups[g].middleware.array \in lent =>
              Len(heap'[groups[g].middleware.array])
                = Len(heap[groups[g].middleware.array])
<1>1. 0 \notin lent
  BY DEF TypeOK
<1>2. ASSUME NEW s, IsSlice(heap, s), s.array \in lent
      PROVE  Len(heap'[s.array]) = Len(heap[s.array])
  BY <1>1, <1>2 DEF Kept
<1> QED
  BY <1>2 DEF TypeOK

\* so that full slices stay full.
LEMMA FullStays ==
  ASSUME TypeOK, Full, NEW a, Kept(a), UNCHANGED <<own, groups, lent>>
  PROVE  Full'
<1>1. own.array \in lent => own.len = Len(heap'[own.array])
  BY SizesStay DEF TypeOK, Full
<1>2. ASSUME NEW g \in DOMAIN groups, groups[g].middleware.array \in lent
      PROVE  groups[g].middleware.len = Len(heap'[groups[g].middleware.array])
  BY <1>2, SizesStay DEF TypeOK, Full
<1> QED
  BY <1>1, <1>2 DEF Full

\* The initial state: no arrays.
LEMMA InitIInv == Init => IInv
<1> SUFFICES ASSUME Init PROVE IInv
  OBVIOUS
<1>1. <<>> \in Heap /\ <<>> \in Seq(RouteGroup) /\ <<>> \in Seq(Registered)
      /\ <<>> \in Seq(Handlers) /\ Len(<<>>) = 0 /\ DOMAIN <<>> = {}
  BY DEF Heap
<1>2. IsSlice(heap, nil)
  BY <1>1 DEF IsSlice, Slice, nil, Init
<1>3. Contents(heap, nil) = <<>>
  BY DEF Contents, nil
<1>4. TypeOK
  BY <1>1, <1>2 DEF Init, TypeOK, Heap, Cell
<1> QED
  BY <1>1, <1>3, <1>4 DEF Init, IInv, OwnHandlers, Separate, Full, nil,
     MiddlewareAsDeclared, ChainsAsDeclared

\* Handlers are cells.
LEMMA HandlersAreCells == ASSUME NEW ms \in Seq(Handlers) PROVE ms \in Seq(Cell)
BY SeqMonotonic DEF Cell

\* Router.Use: an array of the router's own, or a new one.
LEMMA UseKeeps ==
  ASSUME IInv, NEW ms \in Seq(Handlers), NEW spare \in Nat, Use(ms, spare)
  PROVE  IInv'
<1>1. /\ TypeOK /\ heap \in Heap /\ IsSlice(heap, middleware)
      /\ used \in Seq(Handlers) /\ Contents(heap, middleware) = used
  BY DEF IInv, TypeOK, Heap, Cell, MiddlewareAsDeclared
<1>2. /\ used' = used \o ms /\ UNCHANGED <<groups, routes, own, lent, panicked>>
  BY DEF Use
<1>3. Appended(heap, middleware, ms, heap', middleware')
  BY <1>1, HandlersAreCells, AppendSlice DEF Use
<1>4. PICK a : /\ Only(a, heap, heap')
               /\ \/ a = 0 /\ middleware' = middleware
                  \/ a = 0 /\ middleware'.array = Len(heap) + 1
                  \/ /\ a = middleware.array /\ a # 0
                     /\ middleware'.array = middleware.array
  BY <1>3 DEF Appended
<1>5. /\ Kept(a) /\ heap' \in Heap /\ Len(heap) \in Nat
      /\ Len(heap) <= Len(heap') /\ Len(heap') \in Nat
  BY <1>1, <1>4, OnlyKeeps DEF Heap
<1>6. /\ IsSlice(heap', middleware') /\ Contents(heap', middleware') = used'
      /\ used' \in Seq(Handlers)
  BY <1>1, <1>2, <1>3 DEF Appended
<1>7. /\ a # 0 => a = middleware.array
      /\ middleware'.array \in {middleware.array, Len(heap) + 1}
  BY <1>4
<1>8. TypeOK'
  BY <1>1, <1>2, <1>5, <1>6 DEF TypeOK, Kept, Heap, Cell
<1>9. OwnHandlers' /\ Full'
  <2>1. OwnHandlers'
    BY <1>1, <1>2, <1>5, <1>7 DEF IInv, OwnHandlers, Kept, TypeOK, Separate
  <2>2. Full'
    BY <1>1, <1>2, <1>5, FullStays DEF IInv
  <2> QED
    BY <2>1, <2>2
<1>10. MiddlewareAsDeclared' /\ ChainsAsDeclared'
  <2>1. /\ \A g \in DOMAIN groups : IsSlice(heap, groups[g].middleware)
        /\ \A r \in DOMAIN routes : IsSlice(heap, routes[r].chain)
    BY <1>1 DEF TypeOK
  <2>2. ASSUME NEW g \in DOMAIN groups
        PROVE  Contents(heap', groups[g].middleware) = groups[g].declared
    <3>1. groups[g].middleware.array # a \/ groups[g].middleware.array = 0
      BY <1>7 DEF IInv, Separate
    <3>2. Contents(heap', groups[g].middleware) = Contents(heap, groups[g].middleware)
      BY <1>5, <2>1, <3>1 DEF Kept
    <3> QED
      BY <3>2 DEF IInv, MiddlewareAsDeclared
  <2>3. ASSUME NEW r \in DOMAIN routes
        PROVE  Contents(heap', routes[r].chain) = routes[r].declared
    <3>1. routes[r].chain.array # a \/ routes[r].chain.array = 0
      BY <1>7 DEF IInv, Separate
    <3>2. Contents(heap', routes[r].chain) = Contents(heap, routes[r].chain)
      BY <1>5, <2>1, <3>1 DEF Kept
    <3> QED
      BY <3>2 DEF IInv, ChainsAsDeclared
  <2> QED
    BY <1>2, <1>6, <2>2, <2>3 DEF MiddlewareAsDeclared, ChainsAsDeclared
<1>11. Separate'
  <2>1. /\ own.array <= Len(heap) /\ lent \subseteq 1 .. Len(heap)
        /\ \A g \in DOMAIN groups : groups[g].middleware.array <= Len(heap)
        /\ \A r \in DOMAIN routes : routes[r].chain.array <= Len(heap)
    BY <1>1 DEF TypeOK, IsSlice
  <2>2. Separate
    BY DEF IInv
  <2>3. CASE middleware'.array = middleware.array
    BY <1>2, <2>2, <2>3 DEF Separate
  <2>4. CASE middleware'.array = Len(heap) + 1
    <3>1. /\ own.array # Len(heap) + 1 /\ Len(heap) + 1 \notin lent
          /\ \A g \in DOMAIN groups : groups[g].middleware.array # Len(heap) + 1
          /\ \A r \in DOMAIN routes : routes[r].chain.array # Len(heap) + 1
      BY <1>5, <2>1
    <3> QED
      BY <1>2, <2>2, <2>4, <3>1 DEF Separate
  <2> QED
    BY <1>7, <2>3, <2>4
<1> QED
  BY <1>8, <1>9, <1>10, <1>11 DEF IInv

\* A group with an array of its own, or without any.
LEMMA AddGroup ==
  ASSUME IInv, NEW G \in RouteGroup, groups' = Append(groups, G),
         Only(0, heap, heap'), IsSlice(heap', G.middleware),
         Contents(heap', G.middleware) = G.declared,
         G.middleware.array \in {0, Len(heap) + 1},
         UNCHANGED <<middleware, routes, own, lent, panicked, used>>
  PROVE  IInv'
<1>1. /\ TypeOK /\ groups \in Seq(RouteGroup) /\ Len(groups) \in Nat
      /\ lent \subseteq 1 .. Len(heap)
  BY DEF IInv, TypeOK
<1>2. Kept(0) /\ heap' \in Heap /\ Len(heap) \in Nat /\ Len(heap) <= Len(heap')
      /\ Len(heap') \in Nat
  BY <1>1, OnlyKeeps DEF Heap
<1>3. /\ groups' \in Seq(RouteGroup) /\ DOMAIN groups = 1 .. Len(groups)
      /\ DOMAIN groups' = 1 .. Len(groups) + 1
      /\ groups'[Len(groups) + 1] = G
      /\ \A g \in 1 .. Len(groups) : groups'[g] = groups[g]
  BY <1>1
<1>4. \A g \in DOMAIN groups' :
        \/ g \in DOMAIN groups /\ groups'[g] = groups[g]
        \/ g = Len(groups) + 1 /\ groups'[g] = G
  BY <1>1, <1>3
<1>5. TypeOK'
  <2>1. \A g \in DOMAIN groups' : IsSlice(heap', groups'[g].middleware)
    BY <1>1, <1>2, <1>4 DEF TypeOK, Kept
  <2>2. /\ \A r \in DOMAIN routes : IsSlice(heap', routes[r].chain)
        /\ IsSlice(heap', middleware) /\ IsSlice(heap', own)
    BY <1>1, <1>2 DEF TypeOK, Kept
  <2> QED
    <3>1. lent \subseteq 1 .. Len(heap')
      BY <1>1, <1>2
    <3>2. panicked \in BOOLEAN /\ used \in Seq(Handlers) /\ routes \in Seq(Registered)
      BY <1>1 DEF TypeOK
    <3>3. heap' \in Seq(Seq(Handlers \cup {None}))
      BY <1>2 DEF Heap, Cell
    <3> QED
      BY <1>3, <2>1, <2>2, <3>1, <3>2, <3>3 DEF TypeOK
<1>6. OwnHandlers'
  BY <1>1, <1>2 DEF IInv, OwnHandlers, Kept, TypeOK
<1>7. Full'
  <2>1. own.array \in lent => own.len = Len(heap'[own.array])
    BY <1>1, <1>2, SizesStay DEF IInv, Full
  <2>2. \A g \in DOMAIN groups : groups[g].middleware.array \in lent =>
          groups[g].middleware.len = Len(heap'[groups[g].middleware.array])
    BY <1>1, <1>2, SizesStay DEF IInv, Full
  <2>3. G.middleware.array \notin lent
    BY <1>1, <1>2
  <2> QED
    BY <1>4, <2>1, <2>2, <2>3 DEF Full
<1>8. MiddlewareAsDeclared'
  <2>1. Contents(heap', middleware) = used
    BY <1>1, <1>2 DEF IInv, MiddlewareAsDeclared, Kept, TypeOK
  <2>2. \A g \in DOMAIN groups :
          Contents(heap', groups[g].middleware) = groups[g].declared
    BY <1>1, <1>2 DEF IInv, MiddlewareAsDeclared, Kept, TypeOK
  <2> QED
    BY <1>4, <2>1, <2>2 DEF MiddlewareAsDeclared
<1>9. ChainsAsDeclared'
  BY <1>1, <1>2 DEF IInv, ChainsAsDeclared, Kept, TypeOK
<1>10. Separate'
  <2>1. /\ G.middleware.array # 0 => G.middleware.array > Len(heap)
        /\ middleware.array <= Len(heap) /\ own.array <= Len(heap)
        /\ middleware.array \in Nat /\ own.array \in Nat
        /\ \A g \in DOMAIN groups : /\ groups[g].middleware.array <= Len(heap)
                                    /\ groups[g].middleware.array \in Nat
        /\ \A r \in DOMAIN routes : /\ routes[r].chain.array <= Len(heap)
                                    /\ routes[r].chain.array \in Nat
    BY <1>1, <1>2 DEF TypeOK, IsSlice
  <2>2. Separate /\ G.middleware.array \notin lent
    BY <1>1, <1>2 DEF IInv
  <2>3. ASSUME middleware.array # 0
        PROVE  /\ middleware.array \notin lent /\ middleware.array # own.array
               /\ \A g \in DOMAIN groups' :
                    groups'[g].middleware.array # middleware.array
    BY <1>2, <1>4, <2>1, <2>2, <2>3 DEF Separate
  <2>4. ASSUME NEW g \in DOMAIN groups',
               groups'[g].middleware.array \notin lent \cup {0}
        PROVE  /\ groups'[g].middleware.array # own.array
               /\ \A k \in DOMAIN groups' : k # g =>
                    groups'[k].middleware.array # groups'[g].middleware.array
    <3>1. CASE g \in DOMAIN groups /\ groups'[g] = groups[g]
      BY <1>2, <1>4, <2>1, <2>2, <2>4, <3>1 DEF Separate
    <3>2. CASE g = Len(groups) + 1 /\ groups'[g] = G
      BY <1>2, <1>4, <2>1, <2>4, <3>2
    <3> QED
      BY <1>4, <3>1, <3>2
  <2>5. ASSUME NEW r \in DOMAIN routes, routes[r].chain.array # 0
        PROVE  /\ routes[r].chain.array \notin lent
               /\ routes[r].chain.array # middleware.array
               /\ routes[r].chain.array # own.array
               /\ \A g \in DOMAIN groups' :
                    groups'[g].middleware.array # routes[r].chain.array
    BY <1>2, <1>4, <2>1, <2>2, <2>5 DEF Separate
  <2> QED
    BY <2>3, <2>4, <2>5 DEF Separate
<1> QED
  BY <1>5, <1>6, <1>7, <1>8, <1>9, <1>10 DEF IInv

\* The paths that TrimSuffix and joinPaths return are paths.
LEMMA PathTypes ==
  ASSUME NEW p \in Path, NEW q \in Path
  PROVE  /\ TrimSuffix(p) \in Path /\ TrimPrefix(p) \in Path
         /\ p \o q \in Path /\ joinPaths(p, q) \in Path
<1>1. /\ Len(p) \in Nat /\ p # <<>> => Len(p) > 0 
  BY EmptySeq DEF Path
<1>2. TrimSuffix(p) \in Path
  BY <1>1 DEF TrimSuffix, Path
<1>3. TrimPrefix(p) \in Path /\ TrimPrefix(q) \in Path
  BY DEF TrimPrefix, Path
<1>4. <<"/">> \in Path /\ p \o q \in Path
  BY DEF Path, Bytes
<1> QED
  BY <1>2, <1>3, <1>4, ConcatProperties DEF joinPaths, Path

\* Router.Group
LEMMA GroupKeeps ==
  ASSUME IInv, NEW prefix \in Path, NEW ms \in Seq(Handlers), Group(prefix, ms)
  PROVE  IInv'
<1>1. CASE Panic
  BY <1>1 DEF IInv, Panic, TypeOK, OwnHandlers, Separate, Full,
     MiddlewareAsDeclared, ChainsAsDeclared
<1>2. CASE ~Panic
  <2> DEFINE f == Fresh(heap, ms)
             G == [prefix |-> TrimSuffix(prefix), middleware |-> f.slice,
                   declared |-> ms, segments |-> <<prefix>>]
  <2>1. /\ heap' = f.heap /\ groups' = Append(groups, G)
        /\ UNCHANGED <<middleware, routes, own, lent, panicked, used>>
    BY <1>2 DEF Group, NewGroup
  <2>2. heap \in Heap /\ ms \in Seq(Cell)
    BY HandlersAreCells DEF IInv, TypeOK, Heap, Cell
  <2>3. /\ Only(0, heap, f.heap) /\ IsSlice(f.heap, f.slice)
        /\ f.slice.array \in {0, Len(heap) + 1}
        /\ Contents(f.heap, f.slice) = ms
    BY <2>2, FreshSlice
  <2> HIDE DEF f
  <2>4. G \in RouteGroup
    <3>1. TrimSuffix(prefix) \in Path /\ <<prefix>> \in Seq(Path)
      BY PathTypes
    <3> QED
      BY <2>3, <3>1 DEF RouteGroup, IsSlice
  <2>5. G.middleware = f.slice /\ G.declared = ms
    OBVIOUS
  <2> HIDE DEF G
  <2> QED
    BY <2>1, <2>3, <2>4, <2>5, AddGroup
<1> QED
  BY <1>1, <1>2

\* RouteGroup.Group, which copies the middleware it inherits.
LEMMA SubGroupKeeps ==
  ASSUME IInv, NEW g \in DOMAIN groups, NEW prefix \in Path,
         NEW ms \in Seq(Handlers), SubGroup(g, prefix, ms)
  PROVE  IInv'
<1>1. CASE Panic
  BY <1>1 DEF IInv, Panic, TypeOK, OwnHandlers, Separate, Full,
     MiddlewareAsDeclared, ChainsAsDeclared
<1>2. CASE ~Panic
  <2> DEFINE all == groups[g].declared \o ms
             f == Fresh(heap, all)
             G == [prefix |-> groups[g].prefix \o TrimSuffix(prefix),
                   middleware |-> f.slice, declared |-> all,
                   segments |-> Append(groups[g].segments, prefix)]
  <2>1. /\ heap \in Heap /\ groups[g] \in RouteGroup
        /\ Contents(heap, groups[g].middleware) = groups[g].declared
    BY DEF IInv, TypeOK, Heap, Cell, MiddlewareAsDeclared
  <2>2. /\ heap' = f.heap /\ groups' = Append(groups, G)
        /\ UNCHANGED <<middleware, routes, own, lent, panicked, used>>
    BY <1>2, <2>1 DEF SubGroup, NewGroup, Inherit
  <2>3. all \in Seq(Handlers) /\ all \in Seq(Cell)
    BY <2>1, HandlersAreCells DEF RouteGroup
  <2> HIDE DEF all
  <2>4. /\ Only(0, heap, f.heap) /\ IsSlice(f.heap, f.slice)
        /\ f.slice.array \in {0, Len(heap) + 1}
        /\ Contents(f.heap, f.slice) = all
    BY <2>1, <2>3, FreshSlice
  <2> HIDE DEF f
  <2>5. /\ groups[g].prefix \o TrimSuffix(prefix) \in Path
        /\ Append(groups[g].segments, prefix) \in Seq(Path)
    <3>1. groups[g].prefix \in Path /\ groups[g].segments \in Seq(Path)
      BY <2>1 DEF RouteGroup
    <3>2. TrimSuffix(prefix) \in Path
      BY PathTypes
    <3>3. groups[g].prefix \o TrimSuffix(prefix) \in Path
      BY <3>1, <3>2, PathTypes
    <3>4. Append(groups[g].segments, prefix) \in Seq(Path)
      BY <3>1
    <3> QED
      BY <3>3, <3>4
  <2>6. G \in RouteGroup
    BY <2>3, <2>4, <2>5 DEF RouteGroup, IsSlice
  <2>7. G.middleware = f.slice /\ G.declared = all
    OBVIOUS
  <2> HIDE DEF G
  <2> QED
    BY <2>2, <2>4, <2>6, <2>7, AddGroup
<1> QED
  BY <1>1, <1>2

\* Router.Group with the program's slice: a slice without room is lent.
LEMMA GroupFromOwnKeeps ==
  ASSUME IInv, NEW prefix \in Path, GroupFromOwn(prefix)
  PROVE  IInv'
<1>1. CASE Panic
  BY <1>1 DEF IInv, Panic, TypeOK, OwnHandlers, Separate, Full,
     MiddlewareAsDeclared, ChainsAsDeclared
<1>2. CASE ~Panic
  <2> DEFINE G == [prefix |-> TrimSuffix(prefix), middleware |-> own,
                   declared |-> Contents(heap, own), segments |-> <<prefix>>]
  <2>1. /\ groups' = Append(groups, G) /\ lent' = lent \cup {own.array}
        /\ UNCHANGED <<heap, middleware, routes, own, panicked, used>>
        /\ own # nil /\ ~HasRoom(heap, own, 1)
    BY <1>2 DEF GroupFromOwn, NewGroup
  <2>2. /\ TypeOK /\ OwnHandlers /\ Separate /\ Full /\ IsSlice(heap, own)
        /\ own \in Slice /\ groups \in Seq(RouteGroup) /\ Len(groups) \in Nat
        /\ lent \subseteq 1 .. Len(heap) /\ Len(heap) \in Nat
        /\ MiddlewareAsDeclared
    BY DEF IInv, TypeOK, IsSlice
  <2>3. own.array \in 1 .. Len(heap) /\ own.len = Len(heap[own.array])
    <3>1. own.array # 0
      <4> SUFFICES ASSUME own.array = 0 PROVE FALSE
        OBVIOUS
      <4>1. own.len = 0
        BY <2>2 DEF IsSlice
      <4> QED
        BY <2>1, <2>2, <4>1 DEF nil, Slice
    <3>2. own.array \in 1 .. Len(heap) /\ own.len <= Len(heap[own.array])
      BY <2>2, <3>1 DEF IsSlice
    <3>3. Len(heap[own.array]) \in Nat /\ own.len \in Nat
      BY <2>2, <3>2 DEF TypeOK, Slice
    <3> QED
      BY <2>1, <3>1, <3>2, <3>3 DEF HasRoom
  <2>4. G \in RouteGroup
    <3>1. TrimSuffix(prefix) \in Path /\ <<prefix>> \in Seq(Path)
      BY PathTypes
    <3> QED
      BY <2>2, <3>1 DEF RouteGroup, OwnHandlers
  <2>5. G.middleware = own /\ G.declared = Contents(heap, own)
    OBVIOUS
  <2> HIDE DEF G
  <2>6. /\ groups' \in Seq(RouteGroup)
        /\ \A g \in DOMAIN groups' :
             \/ g \in DOMAIN groups /\ groups'[g] = groups[g]
             \/ g = Len(groups) + 1 /\ groups'[g] = G
    BY <2>1, <2>2, <2>4
  <2>7. TypeOK'
    BY <2>1, <2>2, <2>3, <2>5, <2>6 DEF TypeOK
  <2>8. OwnHandlers' /\ MiddlewareAsDeclared' /\ ChainsAsDeclared'
    BY <2>1, <2>2, <2>5, <2>6
    DEF IInv, OwnHandlers, MiddlewareAsDeclared, ChainsAsDeclared
  <2>9. Full'
    <3>1. own.len = Len(heap[own.array])
      BY <2>3
    <3>2. ASSUME NEW g \in DOMAIN groups, groups[g].middleware.array = own.array,
                 own.array \notin lent
          PROVE  FALSE
      BY <2>2, <2>3, <3>2 DEF Separate
    <3> QED
      BY <2>1, <2>2, <2>5, <2>6, <3>1, <3>2 DEF Full
  <2>10. Separate'
    <3>1. ASSUME middleware.array # 0
          PROVE  /\ middleware.array \notin lent' /\ middleware.array # own.array
                 /\ \A g \in DOMAIN groups' :
                      groups'[g].middleware.array # middleware.array
      BY <2>1, <2>2, <2>5, <2>6, <3>1 DEF Separate
    <3>2. ASSUME NEW g \in DOMAIN groups',
                 groups'[g].middleware.array \notin lent' \cup {0}
          PROVE  /\ groups'[g].middleware.array # own.array
                 /\ \A k \in DOMAIN groups' : k # g =>
                      groups'[k].middleware.array # groups'[g].middleware.array
      <4>1. g \in DOMAIN groups /\ groups'[g] = groups[g]
        BY <2>1, <2>5, <2>6, <3>2
      <4> QED
        BY <2>1, <2>2, <2>5, <2>6, <3>2, <4>1 DEF Separate
    <3>3. ASSUME NEW r \in DOMAIN routes, routes[r].chain.array # 0
          PROVE  /\ routes[r].chain.array \notin lent'
                 /\ routes[r].chain.array # middleware.array
                 /\ routes[r].chain.array # own.array
                 /\ \A g \in DOMAIN groups' :
                      groups'[g].middleware.array # routes[r].chain.array
      BY <2>1, <2>2, <2>5, <2>6, <3>3 DEF Separate
    <3> QED
      BY <2>1, <3>1, <3>2, <3>3 DEF Separate
  <2> QED
    BY <2>7, <2>8, <2>9, <2>10 DEF IInv
<1> QED
  BY <1>1, <1>2

\* RouteGroup.Use: a slice with room behind it is in an array of its own.
LEMMA GroupUseKeeps ==
  ASSUME IInv, NEW g \in DOMAIN groups, NEW ms \in Seq(Handlers),
         NEW spare \in Nat, GroupUse(g, ms, spare)
  PROVE  IInv'
<1> DEFINE s == groups[g].middleware
           t == append(heap, s, ms, spare).slice
           G == [groups[g] EXCEPT !.middleware = t, !.declared = @ \o ms]
<1>1. /\ TypeOK /\ heap \in Heap /\ IsSlice(heap, s) /\ s \in Slice
      /\ groups \in Seq(RouteGroup) /\ groups[g] \in RouteGroup
      /\ g \in 1 .. Len(groups) /\ Len(heap) \in Nat
      /\ Separate /\ Full /\ lent \subseteq 1 .. Len(heap)
      /\ MiddlewareAsDeclared /\ ChainsAsDeclared /\ OwnHandlers
  <2>1. /\ TypeOK /\ Separate /\ Full /\ OwnHandlers
        /\ MiddlewareAsDeclared /\ ChainsAsDeclared
    BY DEF IInv
  <2>2. /\ heap \in Heap /\ IsSlice(heap, s) /\ groups \in Seq(RouteGroup)
        /\ lent \subseteq 1 .. Len(heap)
    BY <2>1 DEF TypeOK, Heap, Cell
  <2>3. groups[g] \in RouteGroup /\ g \in 1 .. Len(groups)
    BY <2>2
  <2>4. s \in Slice /\ Len(heap) \in Nat
    BY <2>2 DEF IsSlice, Heap
  <2> QED
    BY <2>1, <2>2, <2>3, <2>4
<1>2. /\ groups' = [groups EXCEPT ![g] = G]
      /\ UNCHANGED <<middleware, routes, own, lent, panicked, used>>
  BY DEF GroupUse
<1>3. Appended(heap, s, ms, heap', t)
  BY <1>1, HandlersAreCells, AppendSlice DEF GroupUse
<1> HIDE DEF t
<1>4. G \in RouteGroup /\ G.middleware = t /\ G.declared = groups[g].declared \o ms
  <2>1. t \in Slice
    BY <1>3 DEF Appended, IsSlice
  <2>2. groups[g].declared \o ms \in Seq(Handlers)
    BY <1>1, ConcatProperties DEF RouteGroup
  <2> QED
    BY <1>1, <2>1, <2>2 DEF RouteGroup
<1> HIDE DEF G
<1>5. /\ groups' \in Seq(RouteGroup) /\ DOMAIN groups' = DOMAIN groups
      /\ groups'[g] = G /\ \A k \in DOMAIN groups : k # g => groups'[k] = groups[k]
  BY <1>1, <1>2, <1>4
<1>6. PICK a : /\ Only(a, heap, heap')
               /\ \/ a = 0 /\ t = s
                  \/ a = 0 /\ t.array = Len(heap) + 1
                  \/ /\ a = s.array /\ a # 0 /\ t.array = s.array
                     /\ s.len < Len(heap[s.array])
  BY <1>3 DEF Appended
<1>7. /\ Kept(a) /\ heap' \in Heap /\ Len(heap) <= Len(heap')
      /\ Len(heap') \in Nat
  BY <1>1, <1>6, OnlyKeeps DEF Heap
<1>8. /\ IsSlice(heap', t) /\ Contents(heap', t) = G.declared
  BY <1>1, <1>3, <1>4 DEF Appended, MiddlewareAsDeclared
<1>9. a # 0 => a = s.array /\ a \notin lent
  <2> SUFFICES ASSUME a # 0, s.array \in lent PROVE FALSE
    BY <1>6
  <2>1. s.len = Len(heap[s.array]) /\ s.len \in Nat
    BY <1>1 DEF Full, Slice
  <2> QED
    BY <1>6, <2>1
<1>10. a # 0 => /\ a # middleware.array /\ a # own.array
                /\ \A k \in DOMAIN groups :
                     k # g => groups[k].middleware.array # a
                /\ \A r \in DOMAIN routes : routes[r].chain.array # a
  BY <1>1, <1>9 DEF Separate
<1>11. TypeOK'
  <2>1. \A k \in DOMAIN groups' : IsSlice(heap', groups'[k].middleware)
    BY <1>1, <1>4, <1>5, <1>7, <1>8 DEF TypeOK, Kept
  <2>2. /\ \A r \in DOMAIN routes : IsSlice(heap', routes[r].chain)
        /\ IsSlice(heap', middleware) /\ IsSlice(heap', own)
    BY <1>1, <1>7 DEF TypeOK, Kept
  <2> QED
    BY <1>1, <1>2, <1>5, <1>7, <2>1, <2>2 DEF TypeOK, Heap, Cell
<1>12. OwnHandlers' /\ ChainsAsDeclared'
  BY <1>1, <1>2, <1>7, <1>10 DEF OwnHandlers, ChainsAsDeclared, Kept, TypeOK
<1>13. MiddlewareAsDeclared'
  <2>1. Contents(heap', middleware) = used
    BY <1>1, <1>7, <1>10 DEF MiddlewareAsDeclared, Kept, TypeOK
  <2>2. \A k \in DOMAIN groups : k # g =>
          Contents(heap', groups[k].middleware) = groups[k].declared
    BY <1>1, <1>7, <1>10 DEF MiddlewareAsDeclared, Kept, TypeOK
  <2> QED
    BY <1>2, <1>4, <1>5, <1>8, <2>1, <2>2 DEF MiddlewareAsDeclared
<1>14. Full'
  <2>1. own.array \in lent => own.len = Len(heap'[own.array])
    BY <1>1, <1>7, SizesStay DEF Full
  <2>2. \A k \in DOMAIN groups : groups[k].middleware.array \in lent =>
          groups[k].middleware.len = Len(heap'[groups[k].middleware.array])
    BY <1>1, <1>7, SizesStay DEF Full
  <2>3. t.array \in lent => t = s
    BY <1>1, <1>6, <1>9
  <2> QED
    BY <1>2, <1>4, <1>5, <2>1, <2>2, <2>3 DEF Full
<1>15. Separate'
  <2>1. /\ t.array = s.array \/ t.array > Len(heap)
        /\ middleware.array <= Len(heap) /\ own.array <= Len(heap)
        /\ middleware.array \in Nat /\ own.array \in Nat /\ t.array \in Nat
        /\ \A k \in DOMAIN groups : /\ groups[k].middleware.array <= Len(heap)
                                    /\ groups[k].middleware.array \in Nat
        /\ \A r \in DOMAIN routes : /\ routes[r].chain.array <= Len(heap)
                                    /\ routes[r].chain.array \in Nat
    <3>1. t.array = s.array \/ t.array > Len(heap)
      BY <1>1, <1>6
    <3>2. \A u : IsSlice(heap, u) => u.array <= Len(heap) /\ u.array \in Nat
      BY <1>1 DEF IsSlice
    <3>3. t.array \in Nat
      BY <1>8 DEF IsSlice, Slice
    <3> QED
      BY <1>1, <3>1, <3>2, <3>3 DEF TypeOK
  <2>2. \A k \in DOMAIN groups' :
          \/ groups'[k].middleware.array = groups[k].middleware.array
          \/ k = g /\ groups'[k].middleware.array > Len(heap)
    BY <1>4, <1>5, <2>1
  <2>3. ASSUME middleware.array # 0
        PROVE  /\ middleware.array \notin lent /\ middleware.array # own.array
               /\ \A k \in DOMAIN groups' :
                    groups'[k].middleware.array # middleware.array
    BY <1>1, <1>5, <2>1, <2>2, <2>3 DEF Separate
  <2>4. ASSUME NEW k \in DOMAIN groups',
               groups'[k].middleware.array \notin lent \cup {0}
        PROVE  /\ groups'[k].middleware.array # own.array
               /\ \A j \in DOMAIN groups' : j # k =>
                    groups'[j].middleware.array # groups'[k].middleware.array
    <3>1. CASE groups'[k].middleware.array = groups[k].middleware.array
      <4>1. /\ groups[k].middleware.array # own.array
            /\ groups[k].middleware.array <= Len(heap)
            /\ \A j \in DOMAIN groups' : j # k =>
                 groups[j].middleware.array # groups[k].middleware.array
        BY <1>1, <1>5, <2>1, <2>4, <3>1 DEF Separate
      <4> QED
        BY <1>1, <1>5, <2>1, <2>2, <3>1, <4>1
    <3>2. CASE k = g /\ groups'[k].middleware.array > Len(heap)
      BY <1>1, <1>5, <2>1, <2>2, <3>2
    <3> QED
      BY <2>2, <3>1, <3>2
  <2>5. ASSUME NEW r \in DOMAIN routes, routes[r].chain.array # 0
        PROVE  /\ routes[r].chain.array \notin lent
               /\ routes[r].chain.array # middleware.array
               /\ routes[r].chain.array # own.array
               /\ \A k \in DOMAIN groups' :
                    groups'[k].middleware.array # routes[r].chain.array
    BY <1>1, <1>5, <2>1, <2>2, <2>5 DEF Separate
  <2> QED
    BY <1>2, <2>3, <2>4, <2>5 DEF Separate
<1> QED
  BY <1>11, <1>12, <1>13, <1>14, <1>15 DEF IInv

\* Handle, of the router or of a group: the chain is a copy.
LEMMA HandleKeeps ==
  ASSUME IInv, NEW path \in Path, NEW hs \in Seq(Handlers),
         NEW declared, declared = hs, NEW segments \in Seq(Path),
         RouterHandle(path, hs, declared, segments)
  PROVE  IInv'
<1>1. CASE Panic
  BY <1>1 DEF IInv, Panic, TypeOK, OwnHandlers, Separate, Full,
     MiddlewareAsDeclared, ChainsAsDeclared
<1>2. CASE ~Panic
  <2> DEFINE all == used \o hs
             f == Fresh(heap, all)
             R == [path |-> path, chain |-> f.slice, declared |-> all,
                   segments |-> segments]
  <2>1. /\ TypeOK /\ heap \in Heap /\ used \in Seq(Handlers)
        /\ Contents(heap, middleware) = used /\ lent \subseteq 1 .. Len(heap)
        /\ routes \in Seq(Registered) /\ Len(routes) \in Nat
        /\ Separate /\ ChainsAsDeclared /\ Len(heap) \in Nat
    BY DEF IInv, TypeOK, Heap, Cell, MiddlewareAsDeclared
  <2>2. /\ heap' = f.heap /\ routes' = Append(routes, R)
        /\ UNCHANGED <<middleware, groups, own, lent, panicked, used>>
    BY <1>2, <2>1 DEF RouterHandle, compose
  <2>3. all \in Seq(Handlers) /\ all \in Seq(Cell)
    BY <2>1, HandlersAreCells
  <2> HIDE DEF all
  <2>4. /\ Only(0, heap, f.heap) /\ IsSlice(f.heap, f.slice)
        /\ f.slice.array \in {0, Len(heap) + 1}
        /\ Contents(f.heap, f.slice) = all
    BY <2>1, <2>3, FreshSlice
  <2> HIDE DEF f
  <2>5. R \in Registered /\ R.chain = f.slice /\ R.declared = all
    BY <2>3, <2>4 DEF Registered, IsSlice
  <2> HIDE DEF R
  <2>6. /\ routes' \in Seq(Registered)
        /\ \A r \in DOMAIN routes' :
             \/ r \in DOMAIN routes /\ routes'[r] = routes[r]
             \/ routes'[r] = R
    BY <2>1, <2>2, <2>5
  <2>7. /\ Kept(0) /\ heap' \in Heap /\ Len(heap) <= Len(heap')
        /\ Len(heap') \in Nat
    BY <2>1, <2>2, <2>4, OnlyKeeps DEF Heap
  <2>8. TypeOK'
    <3>1. \A r \in DOMAIN routes' : IsSlice(heap', routes'[r].chain)
      BY <2>1, <2>2, <2>4, <2>5, <2>6, <2>7 DEF TypeOK, Kept
    <3>2. /\ \A g \in DOMAIN groups : IsSlice(heap', groups[g].middleware)
          /\ IsSlice(heap', middleware) /\ IsSlice(heap', own)
      BY <2>1, <2>7 DEF TypeOK, Kept
    <3> QED
      BY <2>1, <2>2, <2>6, <2>7, <3>1, <3>2 DEF TypeOK, Heap, Cell
  <2>9. OwnHandlers' /\ MiddlewareAsDeclared'
    BY <2>1, <2>2, <2>7
    DEF IInv, OwnHandlers, MiddlewareAsDeclared, Kept, TypeOK
  <2>10. Full'
    BY <2>1, <2>2, <2>7, FullStays DEF IInv
  <2>11. ChainsAsDeclared'
    <3>1. \A r \in DOMAIN routes :
            Contents(heap', routes[r].chain) = routes[r].declared
      BY <2>1, <2>7 DEF ChainsAsDeclared, Kept, TypeOK
    <3> QED
      BY <2>2, <2>4, <2>5, <2>6, <3>1 DEF ChainsAsDeclared
  <2>12. Separate'
    <3>1. \A u : IsSlice(heap, u) => u.array <= Len(heap) /\ u.array \in Nat
      BY <2>1 DEF IsSlice
    <3>2. ASSUME NEW r \in DOMAIN routes', routes'[r].chain.array # 0
          PROVE  /\ routes'[r].chain.array \notin lent
                 /\ routes'[r].chain.array # middleware.array
                 /\ routes'[r].chain.array # own.array
                 /\ \A g \in DOMAIN groups :
                      groups[g].middleware.array # routes'[r].chain.array
      <4>1. CASE r \in DOMAIN routes /\ routes'[r] = routes[r]
        BY <2>1, <3>2, <4>1 DEF Separate
      <4>2. CASE routes'[r] = R
        BY <2>1, <2>4, <2>5, <3>1, <3>2, <4>2 DEF TypeOK
      <4> QED
        BY <2>6, <4>1, <4>2
    <3> QED
      BY <2>1, <2>2, <3>2 DEF Separate
  <2> QED
    BY <2>8, <2>9, <2>10, <2>11, <2>12 DEF IInv
<1> QED
  BY <1>1, <1>2

\* The program appends to its own slice.
LEMMA OwnAppendKeeps ==
  ASSUME IInv, NEW m \in Handlers, NEW spare \in Nat, OwnAppend(m, spare)
  PROVE  IInv'
<1>1. /\ TypeOK /\ heap \in Heap /\ IsSlice(heap, own) /\ own \in Slice
      /\ Len(heap) \in Nat /\ <<m>> \in Seq(Handlers)
      /\ Separate /\ Full /\ lent \subseteq 1 .. Len(heap)
      /\ Contents(heap, own) \in Seq(Handlers)
  BY DEF IInv, TypeOK, Heap, Cell, IsSlice, OwnHandlers
<1>2. UNCHANGED <<middleware, groups, routes, lent, panicked, used>>
  BY DEF OwnAppend
<1>3. Appended(heap, own, <<m>>, heap', own')
  BY <1>1, HandlersAreCells, AppendSlice DEF OwnAppend
<1>4. PICK a : /\ Only(a, heap, heap')
               /\ \/ a = 0 /\ own' = own
                  \/ a = 0 /\ own'.array = Len(heap) + 1
                  \/ /\ a = own.array /\ a # 0 /\ own'.array = own.array
                     /\ own.len < Len(heap[own.array])
  BY <1>3 DEF Appended
<1>5. /\ Kept(a) /\ heap' \in Heap /\ Len(heap) <= Len(heap')
      /\ Len(heap') \in Nat
  BY <1>1, <1>4, OnlyKeeps DEF Heap
<1>6. IsSlice(heap', own') /\ Contents(heap', own') \in Seq(Handlers)
  BY <1>1, <1>3, ConcatProperties DEF Appended
<1>7. a # 0 => a = own.array /\ a \notin lent
  <2> SUFFICES ASSUME a # 0, own.array \in lent PROVE FALSE
    BY <1>4
  <2>1. own.len = Len(heap[own.array]) /\ own.len \in Nat
    BY <1>1 DEF Full, Slice
  <2> QED
    BY <1>4, <2>1
<1>8. a # 0 => /\ a # middleware.array
               /\ \A g \in DOMAIN groups : groups[g].middleware.array # a
               /\ \A r \in DOMAIN routes : routes[r].chain.array # a
  BY <1>1, <1>7 DEF Separate
<1>9. TypeOK'
  BY <1>1, <1>2, <1>5, <1>6 DEF TypeOK, Kept, Heap, Cell
<1>10. OwnHandlers' /\ MiddlewareAsDeclared' /\ ChainsAsDeclared'
  BY <1>1, <1>2, <1>5, <1>6, <1>8
  DEF IInv, OwnHandlers, MiddlewareAsDeclared, ChainsAsDeclared, Kept, TypeOK
<1>11. Full'
  <2>1. \A g \in DOMAIN groups : groups[g].middleware.array \in lent =>
          groups[g].middleware.len = Len(heap'[groups[g].middleware.array])
    BY <1>1, <1>5, SizesStay DEF Full
  <2>2. own.array \in lent => own.len = Len(heap'[own.array])
    BY <1>1, <1>5, SizesStay DEF Full
  <2>3. own'.array \in lent => own' = own
    BY <1>1, <1>4, <1>7
  <2> QED
    BY <1>2, <2>1, <2>2, <2>3 DEF Full
<1>12. Separate'
  <2>1. \A u : IsSlice(heap, u) => u.array <= Len(heap) /\ u.array \in Nat
    BY <1>1 DEF IsSlice
  <2>2. own'.array = own.array \/ own'.array > Len(heap)
    BY <1>1, <1>4
  <2>3. CASE own'.array = own.array
    BY <1>1, <1>2, <2>3 DEF Separate
  <2>4. CASE own'.array > Len(heap)
    BY <1>1, <1>2, <2>1, <2>4 DEF Separate, TypeOK
  <2> QED
    BY <2>2, <2>3, <2>4
<1> QED
  BY <1>9, <1>10, <1>11, <1>12 DEF IInv

\* The program changes an element of its own slice.
LEMMA OwnSetKeeps ==
  ASSUME IInv, NEW i \in 1 .. own.len, NEW m \in Handlers, OwnSet(i, m)
  PROVE  IInv'
<1>1. /\ TypeOK /\ heap \in Heap /\ IsSlice(heap, own) /\ own \in Slice
      /\ Len(heap) \in Nat /\ own.len \in Nat /\ Separate
      /\ Contents(heap, own) \in Seq(Handlers) /\ own.array \notin lent
  <2>1. /\ TypeOK /\ Separate /\ own.array \notin lent
        /\ Contents(heap, own) \in Seq(Handlers)
    BY DEF IInv, OwnHandlers, OwnSet
  <2>2. heap \in Heap /\ IsSlice(heap, own)
    BY <2>1 DEF TypeOK, Heap, Cell
  <2>3. Len(heap) \in Nat /\ own \in Slice
    BY <2>2 DEF Heap, IsSlice
  <2> QED
    BY <2>1, <2>2, <2>3 DEF Slice
<1>2. UNCHANGED <<middleware, groups, routes, own, lent, panicked, used>>
  BY DEF OwnSet
<1>3. /\ own.array \in 1 .. Len(heap) /\ own.len <= Len(heap[own.array])
      /\ heap[own.array] \in Seq(Cell) /\ i \in 1 .. Len(heap[own.array])
  <2>1. own.array \in 1 .. Len(heap) /\ own.len <= Len(heap[own.array])
    BY <1>1 DEF IsSlice
  <2>2. heap[own.array] \in Seq(Cell) /\ Len(heap[own.array]) \in Nat
    BY <1>1, <2>1 DEF Heap
  <2> QED
    BY <1>1, <2>1, <2>2
<1> DEFINE a == [heap[own.array] EXCEPT ![i] = m]
<1>4. heap' = [heap EXCEPT ![own.array] = a]
  BY DEF OwnSet
<1>5. a \in Seq(Cell) /\ Len(a) = Len(heap[own.array])
      /\ \A j \in 1 .. Len(a) : a[j] = IF j = i THEN m ELSE heap[own.array][j]
  BY <1>3, ExceptSeq DEF Cell
<1> HIDE DEF a
<1>6. /\ heap' \in Heap /\ Len(heap') = Len(heap) /\ heap'[own.array] = a
      /\ \A b \in 1 .. Len(heap) : b # own.array => heap'[b] = heap[b]
  BY <1>1, <1>3, <1>4, <1>5, ExceptSeq DEF Heap
<1>7. Only(own.array, heap, heap')
  BY <1>1, <1>3, <1>5, <1>6 DEF Only
<1>8. Kept(own.array)
  BY <1>1, <1>7, OnlyKeeps
<1>9. OwnHandlers'
  <2>1. IsSlice(heap', own)
    BY <1>1, <1>8 DEF Kept
  <2>2. /\ Contents(heap', own) \in Seq(Cell)
        /\ Len(Contents(heap', own)) = own.len
    BY <1>6, <2>1, ContentsAreCells
  <2>3. \A j \in 1 .. own.len : heap[own.array][j] \in Handlers
    BY <1>1 DEF Contents
  <2>4. \A j \in 1 .. own.len : Contents(heap', own)[j] \in Handlers
    BY <1>1, <1>3, <1>5, <1>6, <2>3 DEF Contents
  <2>5. Contents(heap', own) \in Seq(Handlers)
    BY <1>1, <2>2, <2>4
  <2> QED
    BY <1>2, <2>5 DEF OwnHandlers
<1>10. /\ own.array # 0 /\ own.array # middleware.array
       /\ \A g \in DOMAIN groups : groups[g].middleware.array # own.array
       /\ \A r \in DOMAIN routes : routes[r].chain.array # own.array
  BY <1>1, <1>3 DEF Separate
<1>11. TypeOK'
  BY <1>1, <1>2, <1>6, <1>8 DEF TypeOK, Kept, Heap, Cell
<1>12. MiddlewareAsDeclared' /\ ChainsAsDeclared'
  BY <1>1, <1>2, <1>8, <1>10
  DEF IInv, MiddlewareAsDeclared, ChainsAsDeclared, Kept, TypeOK
<1>13. Full'
  BY <1>1, <1>2, <1>8, FullStays DEF IInv
<1>14. Separate'
  BY <1>1, <1>2 DEF Separate
<1> QED
  BY <1>9, <1>11, <1>12, <1>13, <1>14 DEF IInv

\* What the program passes to the API has the types the lemmas ask for.
LEMMA Arguments ==
  /\ \A ms \in Variadic : ms \in Seq(Handlers)
  /\ \A p \in Prefixes \cup Suffixes : p \in Path
  /\ \A n \in 0 .. MaxSpare : n \in Nat
<1>1. ASSUME NEW ms \in Variadic PROVE ms \in Seq(Handlers)
  <2>1. CASE ms = <<>>
    BY <2>1
  <2>2. ASSUME NEW m \in Handlers, ms = <<m>> PROVE ms \in Seq(Handlers)
    BY <2>2
  <2> QED
    BY <2>1, <2>2 DEF Variadic
<1>2. \A p \in Prefixes \cup Suffixes : p \in Path
  BY GroupsAssumption DEF Path
<1>3. \A n \in 0 .. MaxSpare : n \in Nat
  BY GroupsAssumption
<1> QED
  BY <1>1, <1>2, <1>3

\* RouteGroup.Handle
LEMMA GroupHandleKeeps ==
  ASSUME IInv, NEW g \in DOMAIN groups, NEW path \in Path,
         NEW hs \in Seq(Handlers), GroupHandle(g, path, hs)
  PROVE  IInv'
<1> DEFINE G == groups[g]
<1>1. G \in RouteGroup /\ Contents(heap, G.middleware) = G.declared
  BY DEF IInv, TypeOK, MiddlewareAsDeclared
<1>2. RouterHandle(joinPaths(G.prefix, path), G.declared \o hs,
                   G.declared \o hs, Append(G.segments, path))
  BY <1>1 DEF GroupHandle
<1>3. /\ G.prefix \in Path /\ G.segments \in Seq(Path)
      /\ G.declared \in Seq(Handlers)
  BY <1>1 DEF RouteGroup
<1> HIDE DEF G
<1>4. joinPaths(G.prefix, path) \in Path
  BY <1>3, PathTypes
<1>5. Append(G.segments, path) \in Seq(Path) /\ G.declared \o hs \in Seq(Handlers)
  BY <1>3, ConcatProperties
<1> QED
  BY <1>2, <1>4, <1>5, HandleKeeps

\* Every step keeps the invariant.
LEMMA StepIInv == IInv /\ [Next]_vars => IInv'
<1> SUFFICES ASSUME IInv, [Next]_vars PROVE IInv'
  OBVIOUS
<1>1. CASE OnRouter
  <2>1. ASSUME NEW ms \in Variadic, NEW spare \in 0 .. MaxSpare, Use(ms, spare)
        PROVE  IInv'
    BY <2>1, Arguments, UseKeeps
  <2>2. ASSUME NEW p \in Prefixes, NEW ms \in Variadic, Group(p, ms)
        PROVE  IInv'
    BY <2>2, Arguments, GroupKeeps
  <2>3. ASSUME NEW p \in Prefixes, GroupFromOwn(p) PROVE IInv'
    BY <2>3, Arguments, GroupFromOwnKeeps
  <2>4. ASSUME NEW p \in Suffixes, NEW hs \in Variadic \cup {Contents(heap, own)},
               Handle(p, hs)
        PROVE  IInv'
    <3>1. hs \in Seq(Handlers) /\ p \in Path
      BY Arguments DEF IInv, OwnHandlers
    <3>2. <<p>> \in Seq(Path)
      BY <3>1
    <3> QED
      BY <2>4, <3>1, <3>2, HandleKeeps DEF Handle
  <2> QED
    BY <1>1, <2>1, <2>2, <2>3, <2>4 DEF OnRouter
<1>2. ASSUME NEW g \in DOMAIN groups, OnGroup(g) PROVE IInv'
  <2>1. ASSUME NEW p \in Prefixes, NEW ms \in Variadic, SubGroup(g, p, ms)
        PROVE  IInv'
    BY <2>1, Arguments, SubGroupKeeps
  <2>2. ASSUME NEW ms \in Variadic, NEW spare \in 0 .. MaxSpare,
               GroupUse(g, ms, spare)
        PROVE  IInv'
    BY <2>2, Arguments, GroupUseKeeps
  <2>3. ASSUME NEW p \in Suffixes, NEW hs \in Variadic, GroupHandle(g, p, hs)
        PROVE  IInv'
    BY <2>3, Arguments, GroupHandleKeeps
  <2> QED
    BY <1>2, <2>1, <2>2, <2>3 DEF OnGroup
<1>3. CASE OnOwn
  <2>1. ASSUME NEW m \in Handlers, NEW spare \in 0 .. MaxSpare,
               OwnAppend(m, spare)
        PROVE  IInv'
    BY <2>1, Arguments, OwnAppendKeeps
  <2>2. ASSUME NEW i \in 1 .. own.len, NEW m \in Handlers, OwnSet(i, m)
        PROVE  IInv'
    BY <2>2, OwnSetKeeps
  <2> QED
    BY <1>3, <2>1, <2>2 DEF OnOwn
<1>4. CASE UNCHANGED vars
  BY <1>4 DEF vars, IInv, TypeOK, OwnHandlers, Separate, Full,
     MiddlewareAsDeclared, ChainsAsDeclared
<1> QED
  BY <1>1, <1>2, <1>3, <1>4 DEF Next

\* IInv holds in every reachable state.
LEMMA Invariance == Spec => []IInv
BY InitIInv, StepIInv, PTL DEF Spec

\* Slices stay within their arrays and lists keep their types.
THEOREM TypeCorrect == Spec => []TypeOK
<1>1. IInv => TypeOK
  BY DEF IInv
<1> QED
  BY <1>1, Invariance, PTL

\* The router and its groups have the middleware they were given, whatever
\* is appended to slices that share an array with theirs.
THEOREM MiddlewareIsKept == Spec => []MiddlewareAsDeclared
<1>1. IInv => MiddlewareAsDeclared
  BY DEF IInv
<1> QED
  BY <1>1, Invariance, PTL

-----------------------------------------------------------------------------
(* Paths.                                                                  *)

\* f is the function that Joined computes, for the first n parts.
Joins(f, n, parts) ==
  f = [i \in 0 .. n |->
         IF i = 0 THEN <<>>
         ELSE IF Core(parts[i]) = <<>> THEN f[i - 1]
         ELSE f[i - 1] \o <<"/">> \o Core(parts[i])]

\* What it has at each place.
LEMMA JoinsSteps ==
  ASSUME NEW n \in Nat, NEW f, NEW parts, Joins(f, n, parts)
  PROVE  /\ DOMAIN f = 0 .. n /\ f[0] = <<>>
         /\ \A i \in 1 .. n :
              f[i] = IF Core(parts[i]) = <<>> THEN f[i - 1]
                     ELSE f[i - 1] \o <<"/">> \o Core(parts[i])
<1> DEFINE e(i) == IF i = 0 THEN <<>>
                   ELSE IF Core(parts[i]) = <<>> THEN f[i - 1]
                   ELSE f[i - 1] \o <<"/">> \o Core(parts[i])
<1>1. f = [i \in 0 .. n |-> e(i)]
  BY DEF Joins
<1> HIDE DEF e
<1>2. DOMAIN f = 0 .. n /\ \A i \in 0 .. n : f[i] = e(i)
  BY <1>1
<1> QED
  BY <1>2 DEF e

\* There is such a function.
LEMMA JoinsExists == \A n \in Nat : \A parts : \E f : Joins(f, n, parts)
<1> DEFINE S == {n \in Nat : \A parts : \E f : Joins(f, n, parts)}
<1>1. 0 \in S
  <2> SUFFICES ASSUME NEW parts PROVE \E f : Joins(f, 0, parts)
    OBVIOUS
  <2> WITNESS [i \in 0 .. 0 |-> <<>>]
  <2> QED
    BY DEF Joins
<1>2. ASSUME NEW n \in Nat, n \in S PROVE n + 1 \in S
  <2> SUFFICES ASSUME NEW parts PROVE \E f : Joins(f, n + 1, parts)
    OBVIOUS
  <2>1. PICK f : Joins(f, n, parts)
    BY <1>2
  <2> DEFINE e == IF Core(parts[n + 1]) = <<>> THEN f[n]
                  ELSE f[n] \o <<"/">> \o Core(parts[n + 1])
             g == [i \in 0 .. n + 1 |-> IF i = n + 1 THEN e ELSE f[i]]
             h(i) == IF i = 0 THEN <<>>
                     ELSE IF Core(parts[i]) = <<>> THEN g[i - 1]
                     ELSE g[i - 1] \o <<"/">> \o Core(parts[i])
  <2>2. g = [i \in 0 .. n + 1 |-> h(i)]
    <3>1. /\ f[0] = <<>>
          /\ \A i \in 1 .. n : f[i] = IF Core(parts[i]) = <<>> THEN f[i - 1]
                                      ELSE f[i - 1] \o <<"/">> \o Core(parts[i])
      BY <2>1, JoinsSteps
    <3> HIDE DEF e
    <3>2. /\ \A i \in 0 .. n : g[i] = f[i]
          /\ g[n + 1] = e /\ DOMAIN g = 0 .. n + 1
          /\ g = [i \in 0 .. n + 1 |-> g[i]]
      OBVIOUS
    <3> HIDE DEF g
    <3>3. ASSUME NEW i \in 0 .. n + 1 PROVE g[i] = h(i)
      <4>1. CASE i = 0
        <5>1. 0 \in 0 .. n
          OBVIOUS
        <5>2. g[0] = <<>>
          BY <3>1, <3>2, <5>1
        <5> QED
          BY <4>1, <5>2
      <4>2. CASE i = n + 1
        <5>1. i - 1 = n /\ n \in 0 .. n /\ i # 0
          BY <4>2
        <5>2. g[n] = f[n] /\ g[i] = e
          BY <3>2, <4>2, <5>1
        <5> QED
          BY <4>2, <5>1, <5>2 DEF e
      <4>3. CASE i \in 1 .. n
        <5>1. i - 1 \in 0 .. n /\ i # 0 /\ i \in 0 .. n
          BY <4>3
        <5>2. g[i] = f[i] /\ g[i - 1] = f[i - 1]
          BY <3>2, <5>1
        <5> QED
          BY <3>1, <4>3, <5>1, <5>2
      <4> QED
        BY <4>1, <4>2, <4>3
    <3> HIDE DEF h
    <3> QED
      BY <3>2, <3>3
  <2>3. Joins(g, n + 1, parts)
    BY <2>2 DEF Joins
  <2> QED
    BY <2>3
<1> HIDE DEF S
<1>3. Nat \subseteq S
  BY <1>1, <1>2, NaturalInduction
<1> QED
  BY <1>3 DEF S

\* It is the one that Joined uses.
LEMMA JoinedJoins ==
  ASSUME NEW parts, Len(parts) \in Nat
  PROVE  \E f : Joins(f, Len(parts), parts) /\ Joined(parts) = f[Len(parts)]
<1> DEFINE f == CHOOSE f : Joins(f, Len(parts), parts)
<1>1. Joins(f, Len(parts), parts)
  BY JoinsExists
<1>2. Joined(parts) = f[Len(parts)]
  BY DEF Joined, Joins
<1> QED
  BY <1>1, <1>2

\* It depends on the parts and on nothing else.
LEMMA JoinsUnique ==
  ASSUME NEW n \in Nat, NEW m \in Nat, n <= m, NEW f, NEW g, NEW s, NEW t,
         Joins(f, n, s), Joins(g, m, t), \A i \in 1 .. n : s[i] = t[i]
  PROVE  f[n] = g[n]
<1> DEFINE S == {i \in Nat : i <= n => f[i] = g[i]}
<1>1. 0 \in S
  BY DEF Joins
<1>2. ASSUME NEW i \in Nat, i \in S PROVE i + 1 \in S
  <2> SUFFICES ASSUME i + 1 <= n PROVE f[i + 1] = g[i + 1]
    OBVIOUS
  <2>1. f[i] = g[i] /\ s[i + 1] = t[i + 1]
    BY <1>2
  <2>2. i + 1 \in 1 .. n /\ i + 1 \in 1 .. m /\ (i + 1) - 1 = i
    OBVIOUS
  <2>3. f[i + 1] = IF Core(s[i + 1]) = <<>> THEN f[i]
                   ELSE f[i] \o <<"/">> \o Core(s[i + 1])
    BY <2>2, JoinsSteps
  <2>4. g[i + 1] = IF Core(t[i + 1]) = <<>> THEN g[i]
                   ELSE g[i] \o <<"/">> \o Core(t[i + 1])
    BY <2>2, JoinsSteps
  <2> QED
    BY <2>1, <2>3, <2>4
<1> HIDE DEF S
<1>3. Nat \subseteq S
  BY <1>1, <1>2, NaturalInduction
<1> QED
  BY <1>3 DEF S

\* One part more.
LEMMA JoinedAppend ==
  ASSUME NEW parts \in Seq(Path), NEW p \in Path
  PROVE  Joined(Append(parts, p)) =
           IF Core(p) = <<>> THEN Joined(parts)
           ELSE Joined(parts) \o <<"/">> \o Core(p)
<1> DEFINE n == Len(parts)
           more == Append(parts, p)
<1>1. /\ n \in Nat /\ Len(more) = n + 1 /\ more[n + 1] = p
      /\ \A i \in 1 .. n : parts[i] = more[i]
  BY AppendProperties
<1>2. PICK f : Joins(f, n, parts) /\ Joined(parts) = f[n]
  BY <1>1, JoinedJoins
<1> HIDE DEF more
<1>3. PICK g : Joins(g, n + 1, more) /\ Joined(more) = g[n + 1]
  BY <1>1, JoinedJoins
<1> HIDE DEF n
<1>4. f[n] = g[n]
  BY <1>1, <1>2, <1>3, JoinsUnique
<1>5. g[n + 1] = IF Core(p) = <<>> THEN g[n] ELSE g[n] \o <<"/">> \o Core(p)
  BY <1>1, <1>3 DEF Joins
<1> QED
  BY <1>2, <1>3, <1>4, <1>5 DEF more

\* A single path is joined to itself, with one slash before it.
LEMMA JoinedOne ==
  ASSUME NEW p \in Path
  PROVE  Joined(<<p>>) = IF Core(p) = <<>> THEN <<>> ELSE <<"/">> \o Core(p)
<1>1. Joined(<<>>) = <<>>
  <2>1. PICK f : Joins(f, Len(<<>>), <<>>) /\ Joined(<<>>) = f[Len(<<>>)]
    BY JoinedJoins
  <2> QED
    BY <2>1 DEF Joins
<1>2. <<p>> = Append(<<>>, p) /\ <<>> \in Seq(Path)
  OBVIOUS
<1>3. Core(p) \in Path
  BY PathTypes DEF Core
<1>4. <<>> \o <<"/">> = <<"/">>
  OBVIOUS
<1> QED
  BY <1>1, <1>2, <1>3, <1>4, JoinedAppend

\* A sequence that begins with a slash is that slash and the rest.
LEMMA SlashAndRest ==
  ASSUME NEW p \in Path, Rooted(p)
  PROVE  p = <<"/">> \o Tail(p) /\ Tail(p) \in Path
<1>1. Len(p) \in Nat \ {0} /\ p[1] = "/"
  BY EmptySeq DEF Path, Rooted
<1>2. /\ Tail(p) \in Path /\ Len(Tail(p)) = Len(p) - 1
      /\ \A i \in 1 .. Len(p) - 1 : Tail(p)[i] = p[i + 1]
  BY <1>1 DEF Path
<1> DEFINE q == <<"/">> \o Tail(p)
<1>3. <<"/">> \in Path /\ Len(<<"/">>) = 1 /\ <<"/">>[1] = "/"
  BY DEF Path, Bytes
<1>4. /\ q \in Path /\ Len(q) = 1 + (Len(p) - 1)
      /\ \A i \in 1 .. 1 + (Len(p) - 1) :
           q[i] = IF i <= 1 THEN <<"/">>[i] ELSE Tail(p)[i - 1]
  BY <1>2, <1>3, ConcatProperties DEF Path
<1> HIDE DEF q
<1>5. \A i \in 1 .. Len(p) : p[i] = q[i]
  BY <1>1, <1>2, <1>3, <1>4
<1>6. p = q
  BY <1>1, <1>4, <1>5, SeqEqual DEF Path
<1> QED
  BY <1>2, <1>6 DEF q

\* The last byte of a path that ends in a slash comes after the others.
LEMMA SlashAtEnd ==
  ASSUME NEW p \in Path, p # <<>>, p[Len(p)] = "/"
  PROVE  /\ TrimSuffix(p) \in Path /\ Len(TrimSuffix(p)) = Len(p) - 1
         /\ \A i \in 1 .. Len(p) - 1 : TrimSuffix(p)[i] = p[i]
         /\ p = TrimSuffix(p) \o <<"/">>
<1>1. Len(p) \in Nat \ {0} /\ TrimSuffix(p) = SubSeq(p, 1, Len(p) - 1)
  BY EmptySeq DEF Path, TrimSuffix
<1> DEFINE t == TrimSuffix(p)
           q == t \o <<"/">>
<1>2. /\ t \in Path /\ Len(t) = Len(p) - 1
      /\ \A i \in 1 .. Len(p) - 1 : t[i] = p[i]
  <2> DEFINE n == Len(p) - 1
  <2>1. n \in Nat /\ \A i \in 1 .. n : i \in 1 .. Len(p) /\ (i + 1) - 1 = i
    BY <1>1
  <2>2. p \in Seq(Bytes) /\ \A i \in 1 .. n : p[i] \in Bytes
    BY <2>1 DEF Path
  <2> HIDE DEF n
  <2>3. SubSeq(p, 1, n) = [i \in 1 .. n |-> p[i]]
    BY <2>1, <2>2
  <2>4. /\ SubSeq(p, 1, n) \in Seq(Bytes) /\ Len(SubSeq(p, 1, n)) = n
        /\ \A i \in 1 .. n : SubSeq(p, 1, n)[i] = p[i]
    BY <2>1, <2>2, <2>3
  <2>5. t = SubSeq(p, 1, n)
    BY <1>1 DEF n
  <2> HIDE DEF t
  <2>6. /\ t \in Seq(Bytes) /\ Len(t) = n /\ \A i \in 1 .. n : t[i] = p[i]
    BY <2>4, <2>5
  <2> QED
    BY <2>6 DEF n, Path
<1>3. <<"/">> \in Path /\ Len(<<"/">>) = 1 /\ <<"/">>[1] = "/"
  BY DEF Path, Bytes
<1> HIDE DEF t
<1>4. /\ q \in Path /\ Len(q) = (Len(p) - 1) + 1
      /\ \A i \in 1 .. (Len(p) - 1) + 1 :
           q[i] = IF i <= Len(p) - 1 THEN t[i] ELSE <<"/">>[i - (Len(p) - 1)]
  BY <1>2, <1>3, ConcatProperties DEF Path
<1> HIDE DEF q
<1>5. \A i \in 1 .. Len(p) : p[i] = q[i]
  BY <1>1, <1>2, <1>3, <1>4
<1>6. p = q
  BY <1>1, <1>4, <1>5, SeqEqual DEF Path
<1> QED
  BY <1>2, <1>6 DEF q, t

\* The prefix of a group, without its trailing slash, is a slash and its core.
LEMMA TrimmedPrefix ==
  ASSUME NEW p \in Path, Rooted(p), Single(p)
  PROVE  LET t == TrimSuffix(p)
         IN  /\ t = IF Core(p) = <<>> THEN <<>> ELSE <<"/">> \o Core(p)
             /\ t = <<>> \/ (Rooted(t) /\ t[Len(t)] # "/")
<1> DEFINE t == TrimSuffix(p)
<1>1. t \in Path /\ Len(t) \in Nat /\ Len(p) \in Nat \ {0} /\ p[1] = "/" /\ p # <<>>
  BY PathTypes, EmptySeq DEF Path, Rooted
<1>2. CASE p[Len(p)] = "/" /\ Len(p) = 1
  <2>1. Len(t) = 0 /\ t = <<>>
    BY <1>1, <1>2, SlashAtEnd, EmptySeq DEF Path
  <2> QED
    BY <2>1 DEF Core, TrimPrefix
<1>3. CASE p[Len(p)] # "/" \/ Len(p) # 1
  <2>1. t # <<>> /\ Len(t) > 0 /\ Rooted(t) /\ t[Len(t)] # "/" /\ Len(t) # 1
    <3>1. CASE p[Len(p)] = "/"
      <4>1. /\ Len(t) = Len(p) - 1 /\ Len(p) >= 2
            /\ \A i \in 1 .. Len(p) - 1 : t[i] = p[i]
        BY <1>1, <1>3, <3>1, SlashAtEnd
      <4>2. p[Len(p) - 1] # "/"
        <5>1. Len(p) - 1 \in 1 .. Len(p) - 1 /\ (Len(p) - 1) + 1 = Len(p)
          BY <1>1, <4>1
        <5> QED
          BY <3>1, <5>1 DEF Single
      <4> HIDE DEF t
      <4>3. /\ t[Len(t)] # "/" /\ t[1] = "/" /\ Len(t) >= 1
        BY <1>1, <4>1, <4>2
      <4>4. t # <<>>
        BY <4>3
      <4> QED
        BY <1>1, <4>3, <4>4 DEF Rooted
    <3>2. CASE p[Len(p)] # "/"
      <4>1. t = p /\ Len(p) # 1
        BY <1>1, <3>2 DEF TrimSuffix
      <4> HIDE DEF t
      <4> QED
        BY <1>1, <3>2, <4>1 DEF Rooted
    <3> QED
      BY <3>1, <3>2
  <2> HIDE DEF t
  <2>2. t = <<"/">> \o Tail(t) /\ Tail(t) \in Path
    BY <1>1, <2>1, SlashAndRest
  <2>3. Tail(t) # <<>>
    <3>1. Len(Tail(t)) = Len(t) - 1
      BY <1>1, <2>1 DEF Path
    <3> QED
      BY <1>1, <2>1, <3>1
  <2>4. Core(p) = Tail(t)
    BY <2>1 DEF Core, TrimPrefix, t, Rooted
  <2> QED
    BY <2>1, <2>2, <2>3, <2>4 DEF t
<1> QED
  BY <1>2, <1>3

\* The path of a route, without its leading slash, is its core and what a
\* trailing slash adds.
LEMMA TrimmedPath ==
  ASSUME NEW p \in Path, Single(p), p \notin {<<>>, <<"/">>}
  PROVE  /\ Core(p) # <<>> /\ Core(p) \in Path /\ Slash(p) \in Path
         /\ TrimPrefix(p) = Core(p) \o Slash(p)
<1> DEFINE t == TrimSuffix(p)
<1>1. t \in Path /\ Len(t) \in Nat /\ Len(p) \in Nat \ {0} /\ p # <<>>
      /\ (Len(p) = 1 => p[1] # "/")
  <2>1. t \in Path /\ Len(t) \in Nat /\ Len(p) \in Nat \ {0} /\ p # <<>>
    BY PathTypes, EmptySeq DEF Path
  <2>2. ASSUME Len(p) = 1, p[1] = "/" PROVE FALSE
    <3>1. <<"/">> \in Path /\ Len(<<"/">>) = 1 /\ <<"/">>[1] = "/"
      BY DEF Path, Bytes
    <3>2. p = <<"/">>
      BY <2>2, <3>1, SeqEqual DEF Path
    <3> QED
      BY <3>2
  <2> QED
    BY <2>1, <2>2
<1>2. Core(p) \in Path /\ Slash(p) \in Path /\ <<"/">> \in Path
  <2>1. <<"/">> \in Path /\ <<>> \in Path
    BY DEF Path, Bytes
  <2>2. TrimPrefix(t) \in Path
    BY <1>1, PathTypes
  <2> QED
    BY <2>1, <2>2 DEF Core, Slash
<1>3. CASE p[Len(p)] # "/"
  <2>1. t = p
    BY <1>1, <1>3 DEF TrimSuffix
  <2>2. Core(p) = TrimPrefix(p) /\ Slash(p) = <<>>
    BY <1>3, <2>1 DEF Core, Slash
  <2>3. TrimPrefix(p) # <<>>
    <3>1. CASE p[1] # "/"
      BY <1>1, <3>1 DEF TrimPrefix
    <3>2. CASE p[1] = "/"
      <4>1. TrimPrefix(p) = Tail(p) /\ Len(Tail(p)) = Len(p) - 1 /\ Len(p) # 1
        BY <1>1, <3>2 DEF TrimPrefix, Path
      <4> HIDE DEF t
      <4>2. Len(Tail(p)) # 0 /\ Len(<<>>) = 0
        BY <1>1, <4>1
      <4>3. Tail(p) # <<>>
        BY <4>2
      <4> QED
        BY <4>1, <4>3
    <3> QED
      BY <3>1, <3>2
  <2>4. Core(p) \o <<>> = Core(p)
    BY <1>2, ConcatEmptySeq DEF Path
  <2> QED
    BY <1>2, <2>2, <2>3, <2>4
<1>4. CASE p[Len(p)] = "/"
  <2>1. /\ Len(t) = Len(p) - 1 /\ p = t \o <<"/">>
        /\ \A i \in 1 .. Len(p) - 1 : t[i] = p[i]
    BY <1>1, <1>4, SlashAtEnd
  <2>2. Len(p) >= 2
    <3> HIDE DEF t
    <3>1. Len(p) \in Nat /\ Len(p) # 0 /\ Len(p) # 1
      BY <1>1, <1>4
    <3> QED
      BY <3>1
  <2>3. p[Len(p) - 1] # "/"
    <3>1. Len(p) - 1 \in 1 .. Len(p) - 1 /\ (Len(p) - 1) + 1 = Len(p)
      BY <1>1, <2>2
    <3> QED
      BY <1>4, <3>1 DEF Single
  <2> HIDE DEF t
  <2>4. t # <<>> /\ t[1] = p[1] /\ t[Len(t)] # "/" /\ Len(t) >= 1
    BY <1>1, <2>1, <2>2, <2>3
  <2>5. CASE p[1] # "/"
    <3>1. TrimPrefix(p) = p /\ TrimPrefix(t) = t
      BY <2>4, <2>5 DEF TrimPrefix
    <3>2. Core(p) = t /\ Slash(p) = <<"/">>
      BY <1>4, <2>4, <3>1 DEF Core, Slash, t
    <3> QED
      BY <1>2, <2>1, <2>4, <3>1, <3>2
  <2>6. CASE p[1] = "/"
    <3>1. TrimPrefix(p) = Tail(p) /\ TrimPrefix(t) = Tail(t)
      BY <1>1, <2>4, <2>6 DEF TrimPrefix
    <3>2. Len(Tail(t)) = Len(t) - 1 /\ Len(t) # 1 /\ Tail(t) \in Path
      BY <1>1, <2>4, <2>6 DEF Path
    <3>3. Core(p) = Tail(t) /\ Tail(t) # <<>>
      <4>1. Len(Tail(t)) # 0 /\ Len(<<>>) = 0
        BY <1>1, <3>2
      <4>2. Tail(t) # <<>>
        BY <4>1
      <4>3. Core(p) = TrimPrefix(t)
        BY DEF Core, t
      <4> QED
        BY <3>1, <4>2, <4>3
    <3>4. Slash(p) = <<"/">>
      BY <1>4, <3>3 DEF Slash
    <3>5. Tail(p) = Tail(t) \o <<"/">>
      <4>1. /\ Tail(p) \in Path /\ Len(Tail(p)) = Len(p) - 1
            /\ \A i \in 1 .. Len(p) - 1 : Tail(p)[i] = p[i + 1]
        BY <1>1 DEF Path
      <4>2. /\ \A i \in 1 .. Len(t) - 1 : Tail(t)[i] = t[i + 1]
        BY <1>1, <2>4 DEF Path
      <4> DEFINE q == Tail(t) \o <<"/">>
      <4>3. Len(<<"/">>) = 1 /\ <<"/">>[1] = "/"
        OBVIOUS
      <4>4. /\ q \in Path /\ Len(q) = Len(Tail(t)) + 1
            /\ \A i \in 1 .. Len(Tail(t)) + 1 :
                 q[i] = IF i <= Len(Tail(t)) THEN Tail(t)[i]
                        ELSE <<"/">>[i - Len(Tail(t))]
        BY <1>2, <3>2, <4>3, ConcatProperties DEF Path
      <4> HIDE DEF q
      <4>5. Len(q) = Len(p) - 1
        BY <1>1, <2>1, <3>2, <4>4
      <4>6. \A i \in 1 .. Len(p) - 1 : Tail(p)[i] = q[i]
        BY <1>1, <1>4, <2>1, <3>2, <4>1, <4>2, <4>3, <4>4
      <4>7. Tail(p) = q
        BY <4>1, <4>4, <4>5, <4>6, SeqEqual DEF Path
      <4> QED
        BY <4>7 DEF q
    <3> QED
      BY <1>2, <3>1, <3>3, <3>4, <3>5
  <2> QED
    BY <2>5, <2>6
<1> QED
  BY <1>3, <1>4
\* A path of slashes only has no core and adds no slash.
LEMMA NoCore ==
  ASSUME NEW p \in {<<>>, <<"/">>}
  PROVE  Core(p) = <<>> /\ Slash(p) = <<>>
<1>1. CASE p = <<>>
  BY <1>1 DEF Core, Slash, TrimSuffix, TrimPrefix
<1>2. CASE p = <<"/">>
  <2>1. p \in Path /\ p # <<>> /\ Len(p) = 1 /\ p[Len(p)] = "/"
    BY <1>2 DEF Path, Bytes
  <2>2. TrimSuffix(p) \in Path /\ Len(TrimSuffix(p)) = 0
    BY <2>1, SlashAtEnd
  <2>3. TrimSuffix(p) = <<>>
    BY <2>2, EmptySeq DEF Path
  <2> QED
    BY <2>3 DEF Core, Slash, TrimPrefix
<1> QED
  BY <1>1, <1>2

\* Joining paths is associative.
LEMMA PathsAssociate ==
  ASSUME NEW p \in Path, NEW q \in Path, NEW r \in Path
  PROVE  (p \o q) \o r = p \o (q \o r)
BY ConcatAssociative DEF Path

\* What is joined is not empty.
LEMMA NotEmpty ==
  ASSUME NEW p \in Path, NEW q \in Path
  PROVE  p \o <<"/">> \o q # <<>>
<1>1. <<"/">> \in Path /\ Len(<<"/">>) = 1
  BY DEF Path, Bytes
<1>2. p \o <<"/">> \in Path /\ Len(p \o <<"/">>) = Len(p) + 1
  BY <1>1, ConcatProperties DEF Path
<1>3. Len(p \o <<"/">> \o q) = Len(p \o <<"/">>) + Len(q)
  BY <1>2, ConcatProperties DEF Path
<1>4. Len(p) \in Nat /\ Len(q) \in Nat
  BY DEF Path
<1>5. Len(p \o <<"/">> \o q) # 0 /\ Len(<<>>) = 0
  BY <1>2, <1>3, <1>4
<1> QED
  BY <1>5

\* The path the declared parts ask for.
Declared(parts) == IF Joined(parts) = <<>> THEN <<"/">>
                   ELSE Joined(parts) \o Slash(parts[Len(parts)])

\* A group's prefix is its parts joined, and does not end in a slash.
GroupPath(g) ==
  /\ g.prefix = Joined(g.segments)
  /\ g.prefix = <<>> \/ g.prefix[Len(g.prefix)] # "/"

\* joinPaths adds one part to those of a group.
LEMMA JoinDeclares ==
  ASSUME NEW g \in RouteGroup, GroupPath(g), NEW p \in Path, Single(p)
  PROVE  joinPaths(g.prefix, p) = Declared(Append(g.segments, p))
<1> DEFINE parts == Append(g.segments, p)
           prefix == g.prefix
<1>1. /\ prefix \in Path /\ g.segments \in Seq(Path) /\ prefix = Joined(g.segments)
      /\ prefix = <<>> \/ prefix[Len(prefix)] # "/"
  BY DEF RouteGroup, GroupPath
<1>2. parts[Len(parts)] = p
  BY <1>1, AppendProperties
<1>3. Joined(parts) = IF Core(p) = <<>> THEN prefix
                      ELSE prefix \o <<"/">> \o Core(p)
  BY <1>1, JoinedAppend
<1> HIDE DEF parts, prefix
<1>4. CASE p \in {<<>>, <<"/">>}
  <2>1. Joined(parts) = prefix /\ Slash(p) = <<>>
    BY <1>3, <1>4, NoCore
  <2>2. prefix \o <<>> = prefix
    BY <1>1, ConcatEmptySeq DEF Path
  <2>3. joinPaths(prefix, p) = IF prefix = <<>> THEN <<"/">> ELSE prefix
    BY <1>4 DEF joinPaths
  <2> QED
    BY <1>2, <2>1, <2>2, <2>3 DEF Declared, prefix, parts
<1>5. CASE p \notin {<<>>, <<"/">>}
  <2>1. /\ Core(p) # <<>> /\ Core(p) \in Path /\ Slash(p) \in Path
        /\ TrimPrefix(p) = Core(p) \o Slash(p)
    BY <1>5, TrimmedPath
  <2>2. TrimSuffix(prefix) = prefix
    BY <1>1 DEF TrimSuffix
  <2>3. joinPaths(prefix, p) = prefix \o <<"/">> \o (Core(p) \o Slash(p))
    BY <1>5, <2>1, <2>2 DEF joinPaths
  <2>4. prefix \o <<"/">> \in Path
    <3>1. <<"/">> \in Path
      BY DEF Path, Bytes
    <3> QED
      BY <1>1, <3>1, PathTypes
  <2>5. joinPaths(prefix, p) = (prefix \o <<"/">> \o Core(p)) \o Slash(p)
    BY <2>1, <2>3, <2>4, PathsAssociate
  <2>6. Joined(parts) = prefix \o <<"/">> \o Core(p) /\ Joined(parts) # <<>>
    BY <1>1, <1>3, <2>1, NotEmpty
  <2>7. joinPaths(prefix, p) = Declared(parts)
    BY <1>2, <2>5, <2>6 DEF Declared
  <2> QED
    BY <2>7 DEF parts, prefix
<1> QED
  BY <1>4, <1>5

\* A path given to the router stays as it is.
LEMMA RootDeclares ==
  ASSUME NEW p \in Path, Single(p), Rooted(p)
  PROVE  p = Declared(<<p>>)
<1>1. Len(<<p>>) = 1 /\ <<p>>[1] = p
  OBVIOUS
<1>2. Joined(<<p>>) = IF Core(p) = <<>> THEN <<>> ELSE <<"/">> \o Core(p)
  BY JoinedOne
<1>3. CASE p = <<"/">>
  <2>1. Core(p) = <<>>
    BY <1>3, NoCore
  <2> QED
    BY <1>2, <1>3, <2>1 DEF Declared
<1>4. CASE p # <<"/">>
  <2>1. p = <<"/">> \o Tail(p) /\ TrimPrefix(p) = Tail(p) /\ p # <<>>
    BY SlashAndRest DEF TrimPrefix, Rooted
  <2>2. /\ Core(p) # <<>> /\ Core(p) \in Path /\ Slash(p) \in Path
        /\ TrimPrefix(p) = Core(p) \o Slash(p)
    BY <1>4, <2>1, TrimmedPath
  <2>3. <<"/">> \in Path /\ <<>> \in Path /\ <<>> \o <<"/">> = <<"/">>
    BY DEF Path, Bytes
  <2>4. <<"/">> \o Core(p) # <<>>
    BY <2>2, <2>3, NotEmpty
  <2>5. p = (<<"/">> \o Core(p)) \o Slash(p)
    <3>1. (<<"/">> \o Core(p)) \o Slash(p) = <<"/">> \o (Core(p) \o Slash(p))
      BY <2>2, <2>3, PathsAssociate
    <3> QED
      BY <2>1, <2>2, <3>1
  <2> QED
    BY <1>1, <1>2, <2>2, <2>4, <2>5 DEF Declared
<1> QED
  BY <1>3, <1>4

\* The prefix of a group, and that of a group within it.
LEMMA GroupPaths ==
  ASSUME NEW p \in Path, Single(p), Rooted(p), NEW m, NEW d
  PROVE  /\ GroupPath([prefix |-> TrimSuffix(p), middleware |-> m,
                       declared |-> d, segments |-> <<p>>])
         /\ \A g \in RouteGroup : GroupPath(g) =>
              GroupPath([prefix |-> g.prefix \o TrimSuffix(p), middleware |-> m,
                         declared |-> d, segments |-> Append(g.segments, p)])
<1> DEFINE t == TrimSuffix(p)
<1>1. /\ t = IF Core(p) = <<>> THEN <<>> ELSE <<"/">> \o Core(p)
      /\ t = <<>> \/ t[Len(t)] # "/"
  BY TrimmedPrefix
<1>2. t \in Path /\ Core(p) \in Path /\ <<"/">> \in Path
  <2>1. t \in Path
    BY PathTypes
  <2>2. TrimPrefix(t) \in Path
    BY <2>1, PathTypes
  <2> QED
    BY <2>1, <2>2 DEF Core, Path, Bytes
<1>3. Joined(<<p>>) = t
  BY <1>1, JoinedOne
<1>4. ASSUME NEW g \in RouteGroup, GroupPath(g)
      PROVE  /\ g.prefix \o t = Joined(Append(g.segments, p))
             /\ g.prefix \o t = <<>> \/ (g.prefix \o t)[Len(g.prefix \o t)] # "/"
  <2>1. /\ g.prefix \in Path /\ g.segments \in Seq(Path)
        /\ g.prefix = Joined(g.segments)
        /\ g.prefix = <<>> \/ g.prefix[Len(g.prefix)] # "/"
    BY <1>4 DEF RouteGroup, GroupPath
  <2> DEFINE q == g.prefix
  <2> HIDE DEF t, q
  <2>2. Joined(Append(g.segments, p)) = IF Core(p) = <<>> THEN q
                                        ELSE q \o <<"/">> \o Core(p)
    BY <2>1, JoinedAppend DEF q
  <2>3. CASE t = <<>>
    <3>1. Core(p) = <<>>
      <4>1. <<>> \in Path /\ <<>> \o <<"/">> = <<"/">>
        BY DEF Path, Bytes
      <4>2. <<"/">> \o Core(p) # <<>>
        BY <1>2, <4>1, NotEmpty
      <4> QED
        BY <1>1, <2>3, <4>2
    <3>2. q \o t = q
      BY <2>1, <2>3, ConcatEmptySeq DEF Path, q
    <3> QED
      BY <2>1, <2>2, <3>1, <3>2 DEF q
  <2>4. CASE t # <<>>
    <3>1. Core(p) # <<>> /\ t = <<"/">> \o Core(p) /\ t[Len(t)] # "/"
      BY <1>1, <2>4
    <3>2. q \o t = q \o <<"/">> \o Core(p)
      <4>1. q \in Path
        BY <2>1 DEF q
      <4>2. (q \o <<"/">>) \o Core(p) = q \o (<<"/">> \o Core(p))
        BY <1>2, <4>1, PathsAssociate
      <4> QED
        BY <3>1, <4>2
    <3>3. Len(t) \in Nat /\ Len(t) # 0 /\ Len(q) \in Nat
      BY <1>2, <2>1, <2>4, EmptySeq DEF Path, q
    <3>4. /\ Len(q \o t) = Len(q) + Len(t)
          /\ \A i \in 1 .. Len(q) + Len(t) :
               (q \o t)[i] = IF i <= Len(q) THEN q[i] ELSE t[i - Len(q)]
      BY <1>2, <2>1, ConcatProperties DEF Path, q
    <3> DEFINE n == Len(q) + Len(t)
    <3>5. n \in 1 .. n /\ ~(n <= Len(q)) /\ n - Len(q) = Len(t)
      BY <3>3
    <3>6. (q \o t)[Len(q \o t)] = t[Len(t)]
      BY <3>4, <3>5
    <3> QED
      BY <2>2, <3>1, <3>2, <3>6 DEF q
  <2> QED
    BY <2>3, <2>4 DEF q
<1> HIDE DEF t
<1> QED
  BY <1>1, <1>3, <1>4 DEF GroupPath, t

-----------------------------------------------------------------------------
(* The paths of groups and routes are those declared.                      *)

\* What PathsAsDeclared needs to know of the groups.
PInv ==
  (\A p \in Prefixes \cup Suffixes : Single(p)) =>
    /\ \A g \in DOMAIN groups : GroupPath(groups[g])
    /\ \A r \in DOMAIN routes : routes[r].path = Declared(routes[r].segments)

\* A group added to the others.
LEMMA GroupAdded ==
  ASSUME IInv, NEW x, GroupPath(x), groups' = Append(groups, x),
         \A g \in DOMAIN groups : GroupPath(groups[g])
  PROVE  \A g \in DOMAIN groups' : GroupPath(groups'[g])
<1>1. groups \in Seq(RouteGroup)
  BY DEF IInv, TypeOK
<1>2. /\ DOMAIN groups = 1 .. Len(groups) /\ Len(groups) \in Nat
      /\ DOMAIN groups' = 1 .. Len(groups) + 1
      /\ groups'[Len(groups) + 1] = x
      /\ \A g \in 1 .. Len(groups) : groups'[g] = groups[g]
  BY <1>1, AppendProperties
<1>3. ASSUME NEW g \in DOMAIN groups' PROVE GroupPath(groups'[g])
  <2>1. CASE g = Len(groups) + 1
    BY <1>2, <2>1
  <2>2. CASE g \in 1 .. Len(groups)
    BY <1>2, <2>2
  <2> QED
    BY <1>2, <2>1, <2>2
<1> QED
  BY <1>3

\* A route added to the others.
LEMMA RouteAdded ==
  ASSUME IInv, NEW path, NEW hs, NEW declared, NEW segments,
         RouterHandle(path, hs, declared, segments),
         Rooted(path) => path = Declared(segments), PInv
  PROVE  PInv'
<1>1. CASE Panic
  BY <1>1 DEF PInv, Panic
<1>2. CASE Rooted(path) /\ ~Panic
  <2> DEFINE x == [path |-> path, chain |-> compose(hs).slice,
                   declared |-> used \o declared, segments |-> segments]
  <2>1. routes' = Append(routes, x) /\ groups' = groups
    BY <1>2 DEF RouterHandle
  <2>2. x.path = Declared(x.segments)
    BY <1>2
  <2> HIDE DEF x
  <2>3. routes \in Seq(Registered)
    BY DEF IInv, TypeOK
  <2>4. /\ DOMAIN routes = 1 .. Len(routes) /\ Len(routes) \in Nat
        /\ DOMAIN routes' = 1 .. Len(routes) + 1
        /\ routes'[Len(routes) + 1] = x
        /\ \A r \in 1 .. Len(routes) : routes'[r] = routes[r]
    BY <2>1, <2>3, AppendProperties
  <2> SUFFICES ASSUME \A p \in Prefixes \cup Suffixes : Single(p)
               PROVE  /\ \A g \in DOMAIN groups' : GroupPath(groups'[g])
                      /\ \A r \in DOMAIN routes' :
                           routes'[r].path = Declared(routes'[r].segments)
    BY DEF PInv
  <2>5. ASSUME NEW r \in DOMAIN routes'
        PROVE  routes'[r].path = Declared(routes'[r].segments)
    <3>1. CASE r = Len(routes) + 1
      BY <2>2, <2>4, <3>1
    <3>2. CASE r \in 1 .. Len(routes)
      BY <2>4, <3>2 DEF PInv
    <3> QED
      BY <2>4, <3>1, <3>2
  <2> QED
    BY <2>1, <2>5 DEF PInv
<1> QED
  BY <1>1, <1>2 DEF RouterHandle

\* Every step keeps the paths.
LEMMA StepPInv == IInv /\ PInv /\ [Next]_vars => PInv'
<1> SUFFICES ASSUME IInv, PInv, [Next]_vars,
                    \A p \in Prefixes \cup Suffixes : Single(p)
             PROVE  PInv'
  BY DEF PInv
<1>0. /\ \A g \in DOMAIN groups : GroupPath(groups[g])
      /\ \A r \in DOMAIN routes : routes[r].path = Declared(routes[r].segments)
      /\ \A g \in DOMAIN groups : groups[g] \in RouteGroup
  BY DEF PInv, IInv, TypeOK
<1>1. CASE UNCHANGED <<groups, routes>>
  BY <1>0, <1>1 DEF PInv
<1>2. ASSUME NEW x, GroupPath(x), groups' = Append(groups, x), routes' = routes
      PROVE  PInv'
  BY <1>0, <1>2, GroupAdded DEF PInv
<1>3. ASSUME NEW p \in Prefixes, NEW ms \in Variadic, Group(p, ms)
      PROVE  PInv'
  <2>1. CASE Rooted(p)
    <3>1. p \in Path /\ Single(p)
      BY Arguments
    <3> DEFINE x == [prefix |-> TrimSuffix(p), middleware |-> Fresh(heap, ms).slice,
                     declared |-> ms, segments |-> <<p>>]
    <3>2. groups' = Append(groups, x) /\ routes' = routes
      BY <1>3, <2>1 DEF Group, NewGroup
    <3>3. GroupPath(x)
      BY <2>1, <3>1, GroupPaths
    <3> HIDE DEF x
    <3> QED
      BY <1>2, <3>2, <3>3
  <2> QED
    BY <1>1, <1>3, <2>1 DEF Group, Panic
<1>4. ASSUME NEW p \in Prefixes, GroupFromOwn(p) PROVE PInv'
  <2>1. CASE Rooted(p)
    <3>1. p \in Path /\ Single(p)
      BY Arguments
    <3> DEFINE x == [prefix |-> TrimSuffix(p), middleware |-> own,
                     declared |-> Contents(heap, own), segments |-> <<p>>]
    <3>2. groups' = Append(groups, x) /\ routes' = routes
      BY <1>4, <2>1 DEF GroupFromOwn, NewGroup
    <3>3. GroupPath(x)
      BY <2>1, <3>1, GroupPaths
    <3> HIDE DEF x
    <3> QED
      BY <1>2, <3>2, <3>3
  <2> QED
    BY <1>1, <1>4, <2>1 DEF GroupFromOwn, Panic
<1>5. ASSUME NEW g \in DOMAIN groups, NEW p \in Prefixes, NEW ms \in Variadic,
             SubGroup(g, p, ms)
      PROVE  PInv'
  <2>1. CASE Rooted(p)
    <3>1. p \in Path /\ Single(p)
      BY Arguments
    <3> DEFINE x == [prefix |-> groups[g].prefix \o TrimSuffix(p),
                     middleware |-> Inherit(groups[g], ms).slice,
                     declared |-> groups[g].declared \o ms,
                     segments |-> Append(groups[g].segments, p)]
    <3>2. groups' = Append(groups, x) /\ routes' = routes
      BY <1>5, <2>1 DEF SubGroup, NewGroup
    <3>3. GroupPath(x)
      BY <1>0, <2>1, <3>1, GroupPaths
    <3> HIDE DEF x
    <3> QED
      BY <1>2, <3>2, <3>3
  <2> QED
    BY <1>1, <1>5, <2>1 DEF SubGroup, Panic
<1>6. ASSUME NEW g \in DOMAIN groups, NEW ms, NEW spare, GroupUse(g, ms, spare)
      PROVE  PInv'
  <2>1. /\ groups' = [groups EXCEPT
                        ![g].middleware = append(heap, groups[g].middleware, ms, spare).slice,
                        ![g].declared = @ \o ms]
        /\ routes' = routes
    BY <1>6 DEF GroupUse
  <2>2. /\ DOMAIN groups' = DOMAIN groups
        /\ \A i \in DOMAIN groups : /\ groups'[i].prefix = groups[i].prefix
                                    /\ groups'[i].segments = groups[i].segments
    BY <1>0, <2>1 DEF RouteGroup
  <2> QED
    BY <1>0, <2>1, <2>2 DEF PInv, GroupPath
<1>7. ASSUME NEW p \in Suffixes, NEW hs, Handle(p, hs) PROVE PInv'
  <2>1. p \in Path /\ Single(p)
    BY Arguments
  <2>2. Rooted(p) => p = Declared(<<p>>)
    BY <2>1, RootDeclares
  <2> QED
    BY <1>7, <2>2, RouteAdded DEF Handle
<1>8. ASSUME NEW g \in DOMAIN groups, NEW p \in Suffixes, NEW hs,
             GroupHandle(g, p, hs)
      PROVE  PInv'
  <2>1. p \in Path /\ Single(p)
    BY Arguments
  <2>2. joinPaths(groups[g].prefix, p) = Declared(Append(groups[g].segments, p))
    BY <1>0, <2>1, JoinDeclares
  <2>3. RouterHandle(joinPaths(groups[g].prefix, p),
                     Contents(heap, groups[g].middleware) \o hs,
                     groups[g].declared \o hs, Append(groups[g].segments, p))
    BY <1>8 DEF GroupHandle
  <2> QED
    BY <2>2, <2>3, RouteAdded
<1>9. CASE OnRouter
  BY <1>1, <1>3, <1>4, <1>7, <1>9 DEF OnRouter, Use
<1>10. ASSUME NEW g \in DOMAIN groups, OnGroup(g) PROVE PInv'
  BY <1>5, <1>6, <1>8, <1>10 DEF OnGroup
<1>11. CASE OnOwn
  BY <1>1, <1>11 DEF OnOwn, OwnAppend, OwnSet
<1> QED
  BY <1>1, <1>9, <1>10, <1>11 DEF Next, vars

\* A route keeps the chain and the path it was registered with, for any
\* handlers, groups and paths and any order of calls.
THEOREM RoutesAreKept == Spec => []RoutesAsDeclared
<1>1. Init => PInv
  BY DEF Init, PInv
<1>2. IInv /\ PInv => RoutesAsDeclared
  BY DEF IInv, PInv, RoutesAsDeclared, PathsAsDeclared, Declared
<1> QED
  BY <1>1, <1>2, Invariance, StepPInv, PTL DEF Spec
=============================================================================
