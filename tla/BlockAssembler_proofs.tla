------------------------ MODULE BlockAssembler_proofs ------------------------
(***************************************************************************)
(* What feed() makes of an assembler, chunk by chunk, and what it keeps:   *)
(* the facts the proofs about the assembler's users rest on.               *)
(***************************************************************************)
EXTENDS BlockAssembler, WellFoundedInduction, TLAPS

-----------------------------------------------------------------------------
(* Lists.  A recursive function is what its definition says once there is  *)
(* a function that satisfies it; that and all else about the elements a    *)
(* list is made of goes by induction, over sets of numbers.                *)

Less == {p \in Nat \X Nat : p[1] < p[2]}

LEMMA LessWellFounded == IsWellFoundedOn(Less, Nat)
<1>1. Less = OpToRel(<, Nat)
  BY DEF Less, OpToRel
<1> QED BY <1>1, NatLessThanWellFounded

LEMMA Induction ==
    ASSUME NEW S, 0 \in S, \A n \in Nat : n \in S => n + 1 \in S
    PROVE  Nat \subseteq S
<1> SUFFICES ASSUME Nat \ S # {} PROVE FALSE
  OBVIOUS
<1>1. PICK x \in Nat \ S : \A y \in Nat \ S : ~ (<<y, x>> \in Less)
  BY LessWellFounded, WFMin
<1>2. x - 1 \in Nat /\ <<x - 1, x>> \in Less /\ (x - 1) + 1 = x
  BY DEF Less
<1> QED BY <1>1, <1>2

\* What the elements of s at P are after the first n of s.
Picking(g, s, P, N) ==
    g = [n \in 0..N |-> IF n = 0 THEN << >>
                         ELSE IF n \in P THEN Append(g[n - 1], s[n]) ELSE g[n - 1]]

LEMMA PickingExists == \A s, P : \A N \in Nat : \E g : Picking(g, s, P, N)
<1> SUFFICES ASSUME NEW s, NEW P PROVE \A N \in Nat : \E g : Picking(g, s, P, N)
  OBVIOUS
<1> DEFINE S == {N \in Nat : \E g : Picking(g, s, P, N)}
<1>1. 0 \in S
  <2> DEFINE g == [n \in 0..0 |-> << >>]
  <2>1. Picking(g, s, P, 0)
    BY DEF Picking
  <2> QED BY <2>1
<1>2. ASSUME NEW N \in Nat, N \in S PROVE N + 1 \in S
  <2>1. PICK g : Picking(g, s, P, N)
    BY <1>2
  <2> DEFINE last == IF N + 1 \in P THEN Append(g[N], s[N + 1]) ELSE g[N]
             h == [n \in 0..(N + 1) |-> IF n = N + 1 THEN last ELSE g[n]]
  <2>2. Picking(h, s, P, N + 1)
    <3>1. \A n \in 0..N : h[n] = g[n]
      OBVIOUS
    <3>2. ASSUME NEW n \in 0..(N + 1)
          PROVE  h[n] = IF n = 0 THEN << >>
                        ELSE IF n \in P THEN Append(h[n - 1], s[n]) ELSE h[n - 1]
      <4>1. CASE n = N + 1
        <5>1. h[n - 1] = g[N] /\ h[n] = last
          BY <4>1
        <5> QED BY <4>1, <5>1
      <4>2. CASE n = 0
        BY <2>1, <3>1, <4>2 DEF Picking
      <4>3. CASE n \in 1..N
        <5>1. n - 1 \in 0..N /\ n \in 0..N
          BY <4>3
        <5>2. g[n] = IF n = 0 THEN << >>
                     ELSE IF n \in P THEN Append(g[n - 1], s[n]) ELSE g[n - 1]
          BY <2>1, <5>1 DEF Picking
        <5> QED BY <3>1, <4>3, <5>1, <5>2
      <4> QED BY <4>1, <4>2, <4>3
    <3>3. DOMAIN h = 0..(N + 1) /\ h = [n \in 0..(N + 1) |-> h[n]]
      OBVIOUS
    <3> HIDE DEF h
    <3> QED BY <3>2, <3>3 DEF Picking
  <2> QED BY <2>2
<1> HIDE DEF S
<1>3. Nat \subseteq S
  BY <1>1, <1>2, Induction
<1> QED BY <1>3 DEF S

LEMMA PickDef ==
    ASSUME NEW T, NEW s \in Seq(T), NEW P
    PROVE  \E g : Picking(g, s, P, Len(s)) /\ Pick(s, P) = g[Len(s)]
<1> DEFINE g == CHOOSE g : Picking(g, s, P, Len(s))
<1>1. Picking(g, s, P, Len(s))
  BY PickingExists
<1>2. Pick(s, P) = g[Len(s)]
  BY DEF Pick, Picking
<1> QED BY <1>1, <1>2

\* Pick, element by element.
LEMMA PickingSteps ==
    ASSUME NEW s, NEW P, NEW N \in Nat, NEW g, Picking(g, s, P, N)
    PROVE  /\ g[0] = << >>
           /\ \A n \in 0..(N - 1) :
                g[n + 1] = IF n + 1 \in P THEN Append(g[n], s[n + 1]) ELSE g[n]
<1>1. ASSUME NEW n \in 0..N
      PROVE  g[n] = IF n = 0 THEN << >>
                    ELSE IF n \in P THEN Append(g[n - 1], s[n]) ELSE g[n - 1]
  BY DEF Picking
<1>2. ASSUME NEW n \in 0..(N - 1)
      PROVE  g[n + 1] = IF n + 1 \in P THEN Append(g[n], s[n + 1]) ELSE g[n]
  <2>1. n + 1 \in 0..N /\ n + 1 # 0 /\ (n + 1) - 1 = n
    OBVIOUS
  <2> QED BY <1>1, <2>1
<1> QED BY <1>1, <1>2

LEMMA PickingTyped ==
    ASSUME NEW T, NEW s \in Seq(T), NEW P, NEW g, Picking(g, s, P, Len(s))
    PROVE  \A n \in 0..Len(s) : g[n] \in Seq(T)
<1> DEFINE S == {n \in Nat : n <= Len(s) => g[n] \in Seq(T)}
<1>0. g[0] = << >> /\ \A n \in 0..(Len(s) - 1) :
                        g[n + 1] = IF n + 1 \in P THEN Append(g[n], s[n + 1]) ELSE g[n]
  BY PickingSteps
<1>1. 0 \in S
  <2>1. << >> \in Seq(T)
    OBVIOUS
  <2> QED BY <1>0, <2>1
<1>2. ASSUME NEW n \in Nat, n \in S PROVE n + 1 \in S
  <2> SUFFICES ASSUME n + 1 <= Len(s) PROVE g[n + 1] \in Seq(T)
    OBVIOUS
  <2>1. n \in 0..(Len(s) - 1) /\ g[n] \in Seq(T) /\ s[n + 1] \in T
    BY <1>2
  <2>2. Append(g[n], s[n + 1]) \in Seq(T)
    BY <2>1
  <2> QED BY <1>0, <2>1, <2>2
<1> HIDE DEF S
<1>3. Nat \subseteq S
  BY <1>1, <1>2, Induction
<1> QED BY <1>3 DEF S

LEMMA PickTyped ==
    ASSUME NEW T, NEW s \in Seq(T), NEW P
    PROVE  Pick(s, P) \in Seq(T)
BY PickDef, PickingTyped

\* What is picked depends on the elements there are and on nothing after them.
LEMMA PickingPrefix ==
    ASSUME NEW s, NEW t, NEW P, NEW Q, NEW N \in Nat, NEW M \in Nat, N <= M,
           \A n \in 1..N : t[n] = s[n] /\ (n \in Q <=> n \in P),
           NEW g, Picking(g, s, P, N), NEW h, Picking(h, t, Q, M)
    PROVE  \A n \in 0..N : h[n] = g[n]
<1> DEFINE S == {n \in Nat : n <= N => h[n] = g[n]}
<1>0. /\ g[0] = << >> /\ h[0] = << >>
      /\ \A n \in 0..(N - 1) : g[n + 1] = IF n + 1 \in P THEN Append(g[n], s[n + 1]) ELSE g[n]
      /\ \A n \in 0..(M - 1) : h[n + 1] = IF n + 1 \in Q THEN Append(h[n], t[n + 1]) ELSE h[n]
  BY PickingSteps
<1>1. 0 \in S
  BY <1>0
<1>2. ASSUME NEW n \in Nat, n \in S PROVE n + 1 \in S
  <2> SUFFICES ASSUME n + 1 <= N PROVE h[n + 1] = g[n + 1]
    OBVIOUS
  <2>1. n \in 0..(N - 1) /\ n \in 0..(M - 1) /\ n + 1 \in 1..N /\ h[n] = g[n]
    BY <1>2
  <2>2. t[n + 1] = s[n + 1] /\ (n + 1 \in Q <=> n + 1 \in P)
    BY <2>1
  <2> QED BY <1>0, <2>1, <2>2
<1> HIDE DEF S
<1>3. Nat \subseteq S
  BY <1>1, <1>2, Induction
<1> QED BY <1>3 DEF S

LEMMA PickEmpty == \A P : Pick(<< >>, P) = << >>
<1> SUFFICES ASSUME NEW P PROVE Pick(<< >>, P) = << >>
  OBVIOUS
<1>1. PICK g : Picking(g, << >>, P, Len(<< >>)) /\ Pick(<< >>, P) = g[Len(<< >>)]
  <2>1. << >> \in Seq({})
    OBVIOUS
  <2> QED BY <2>1, PickDef
<1>2. Picking(g, << >>, P, 0) /\ Pick(<< >>, P) = g[0]
  BY <1>1
<1>3. ASSUME NEW s, Picking(g, s, P, 0) PROVE g[0] = << >>
  <2> DEFINE next(n) == IF n \in P THEN Append(g[n - 1], s[n]) ELSE g[n - 1]
  <2>1. g = [n \in 0..0 |-> IF n = 0 THEN << >> ELSE next(n)]
    BY ONLY <1>3 DEF Picking
  <2> HIDE DEF next
  <2>2. 0 \in 0..0
    OBVIOUS
  <2> QED BY ONLY <2>1, <2>2
<1> QED BY ONLY <1>2, <1>3

\* One more element is picked, or is not.
LEMMA PickAppend ==
    ASSUME NEW T, NEW s \in Seq(T), NEW e \in T, NEW P, NEW Q,
           \A n \in 1..Len(s) : n \in Q <=> n \in P
    PROVE  Pick(Append(s, e), Q) = IF Len(s) + 1 \in Q THEN Append(Pick(s, P), e) ELSE Pick(s, P)
<1> DEFINE t == Append(s, e)
<1>1. /\ t \in Seq(T) /\ Len(t) = Len(s) + 1 /\ t[Len(s) + 1] = e
      /\ \A n \in 1..Len(s) : t[n] = s[n]
  OBVIOUS
<1> HIDE DEF t
<1>2. PICK g : Picking(g, s, P, Len(s)) /\ Pick(s, P) = g[Len(s)]
  BY PickDef
<1>3. PICK h : Picking(h, t, Q, Len(t)) /\ Pick(t, Q) = h[Len(t)]
  BY <1>1, PickDef
<1>4. h[Len(s)] = g[Len(s)]
  <2>1. Len(s) \in Nat /\ Len(t) \in Nat /\ Len(s) <= Len(t)
    BY <1>1
  <2>2. \A n \in 1..Len(s) : t[n] = s[n] /\ (n \in Q <=> n \in P)
    BY <1>1
  <2>3. Picking(g, s, P, Len(s)) /\ Picking(h, t, Q, Len(t))
    BY <1>2, <1>3
  <2> DEFINE N == Len(s)
             M == Len(t)
  <2> HIDE DEF N, M
  <2>4. \A n \in 0..N : h[n] = g[n]
    <3>1. N \in Nat /\ M \in Nat /\ N <= M /\ Picking(g, s, P, N) /\ Picking(h, t, Q, M)
      BY <2>1, <2>3 DEF N, M
    <3>2. \A n \in 1..N : t[n] = s[n] /\ (n \in Q <=> n \in P)
      BY <2>2 DEF N
    <3> QED BY <3>1, <3>2, PickingPrefix
  <2> QED BY <2>1, <2>4 DEF N
<1>5. h[Len(s) + 1] = IF Len(s) + 1 \in Q THEN Append(h[Len(s)], t[Len(s) + 1]) ELSE h[Len(s)]
  <2>1. Len(t) \in Nat /\ Len(s) \in 0..(Len(t) - 1)
    BY <1>1
  <2> QED BY <1>3, <2>1, PickingSteps
<1> QED BY <1>1, <1>2, <1>3, <1>4, <1>5 DEF t

\* Every element picked is one of those at P, they come in the order they have
\* in s, and none is left out: from is where they come from.
From(from, r, s, P) ==
    /\ from \in [1..Len(r) -> P \cap 1..Len(s)]
    /\ \A n \in 1..Len(r) : r[n] = s[from[n]]
    /\ \A m, n \in 1..Len(r) : m < n => from[m] < from[n]
    /\ \A p \in P \cap 1..Len(s) : \E n \in 1..Len(r) : from[n] = p

LEMMA PickFrom ==
    ASSUME NEW T, NEW s \in Seq(T), NEW P
    PROVE  \E from : From(from, Pick(s, P), s, P)
<1> DEFINE Upto(n) == P \cap 1..n
           Good(from, r, n) ==
             /\ from \in [1..Len(r) -> Upto(n)]
             /\ \A k \in 1..Len(r) : r[k] = s[from[k]]
             /\ \A k, l \in 1..Len(r) : k < l => from[k] < from[l]
             /\ \A p \in Upto(n) : \E k \in 1..Len(r) : from[k] = p
<1>1. PICK g : Picking(g, s, P, Len(s)) /\ Pick(s, P) = g[Len(s)]
  BY PickDef
<1>2. g[0] = << >> /\ \A n \in 0..(Len(s) - 1) :
                        g[n + 1] = IF n + 1 \in P THEN Append(g[n], s[n + 1]) ELSE g[n]
  BY <1>1, PickingSteps
<1>3. \A n \in 0..Len(s) : g[n] \in Seq(T)
  BY <1>1, PickingTyped
<1> DEFINE S == {n \in Nat : n <= Len(s) => \E from : Good(from, g[n], n)}
<1>4. 0 \in S
  <2> DEFINE f == [k \in 1..0 |-> k]
  <2>1. Good(f, << >>, 0)
    OBVIOUS
  <2> HIDE DEF Good, f
  <2> QED BY <1>2, <2>1
<1>5. ASSUME NEW n \in Nat, n \in S PROVE n + 1 \in S
  <2> SUFFICES ASSUME n + 1 <= Len(s) PROVE \E from : Good(from, g[n + 1], n + 1)
    OBVIOUS
  <2>1. n \in 0..(Len(s) - 1) /\ n \in 0..Len(s) /\ g[n] \in Seq(T) /\ s[n + 1] \in T
    BY <1>3
  <2>2. PICK f : Good(f, g[n], n)
    BY <1>5, <2>1
  <2>3. CASE n + 1 \notin P
    <3>1. Upto(n + 1) = Upto(n) /\ g[n + 1] = g[n]
      BY <1>2, <2>1, <2>3
    <3> HIDE DEF Upto
    <3> QED BY <2>2, <3>1
  <2>4. CASE n + 1 \in P
    <3> DEFINE r == g[n]
               h == [k \in 1..(Len(r) + 1) |-> IF k = Len(r) + 1 THEN n + 1 ELSE f[k]]
    <3>0. g[n + 1] = Append(r, s[n + 1])
      BY <1>2, <2>1, <2>4
    <3>1. Upto(n + 1) = Upto(n) \cup {n + 1}
      BY <2>4
    <3>2. /\ Len(Append(r, s[n + 1])) = Len(r) + 1 /\ Len(r) \in Nat
          /\ \A k \in 1..Len(r) : Append(r, s[n + 1])[k] = r[k]
          /\ Append(r, s[n + 1])[Len(r) + 1] = s[n + 1]
      BY <2>1
    <3>3. (\A k \in 1..Len(r) : h[k] = f[k] /\ f[k] \in Upto(n) /\ f[k] < n + 1) /\ h[Len(r) + 1] = n + 1
      <4>1. f \in [1..Len(r) -> Upto(n)] /\ \A p \in Upto(n) : p < n + 1
        BY <2>2
      <4> HIDE DEF r, Upto
      <4> QED BY <3>2, <4>1
    <3>4. 1..(Len(r) + 1) = 1..Len(r) \cup {Len(r) + 1}
      BY <3>2
    <3>5. h \in [1..(Len(r) + 1) -> Upto(n + 1)]
      <4> HIDE DEF Upto, r
      <4> QED BY <3>1, <3>3, <3>4
    <3> HIDE DEF h, Upto, r
    <3>6. \A k, l \in 1..(Len(r) + 1) : k < l => h[k] < h[l]
      BY <2>2, <3>2, <3>3, <3>4 DEF r
    <3>7. \A p \in Upto(n + 1) : \E k \in 1..(Len(r) + 1) : h[k] = p
      BY <2>2, <3>1, <3>3, <3>4 DEF r
    <3>8. \A k \in 1..(Len(r) + 1) : Append(r, s[n + 1])[k] = s[h[k]]
      BY <2>2, <3>2, <3>3, <3>4 DEF r
    <3> QED BY <3>0, <3>2, <3>5, <3>6, <3>7, <3>8
  <2> QED BY <2>3, <2>4
<1> HIDE DEF S
<1>6. Nat \subseteq S
  BY <1>4, <1>5, Induction
<1> QED BY <1>1, <1>6 DEF S, From

-----------------------------------------------------------------------------
(* The assembler.                                                          *)

\* The chunks about a block, and all of them.
DeltaTypes == {"text-delta", "reasoning-delta", "tool-call-delta"}
OfBlock == DeltaTypes \cup {"block-start", "block-end"}

ChunkOK(k) ==
    /\ k.type \in OfBlock \cup {"usage", "finish"}
    /\ k.type \in OfBlock => k.index \in Indexes
    /\ k.type \in DeltaTypes => k.text \in Deltas

HasFields(a) == DOMAIN a = {"next", "open", "text", "blocks", "usage", "finish"}

IsAssembler(a) ==
    /\ HasFields(a)
    /\ a.next \in Nat
    /\ a.open \in [Indexes -> BlockTypes \cup {None}]
    /\ a.text \in [Indexes -> Seq(Deltas)]
    /\ a.blocks \in [Indexes -> Block \cup {None}]

\* A block is opened once, and is open or finished but not both.
OpenedOnce(a) ==
    \A i \in Indexes : /\ a.open[i] # None => i < a.next /\ a.blocks[i] = None
                       /\ a.blocks[i] # None => i < a.next

AssemblerInv(a) == IsAssembler(a) /\ OpenedOnce(a)

LEMMA DeltaOfTypes ==
    /\ DOMAIN DeltaOf = DeltaTypes
    /\ DeltaOf["text-delta"] = "text"
    /\ DeltaOf["reasoning-delta"] = "reasoning"
    /\ DeltaOf["tool-call-delta"] = "tool-call"
BY DEF DeltaOf, DeltaTypes

LEMMA NewAssemblerInv == AssemblerInv(NewAssembler)
BY DEF AssemblerInv, IsAssembler, HasFields, OpenedOnce, NewAssembler

LEMMA WireTyped == \A b \in BlockTypes : WireType(b) \in WireTypes
BY DEF BlockTypes, WireType, WireTypes

\* feed(), one kind of chunk at a time, field by field.
LEMMA FeedStart ==
    ASSUME NEW a, HasFields(a), NEW k, k.type = "block-start"
    PROVE  /\ DOMAIN Feed(a, k) = DOMAIN a
           /\ Feed(a, k).next = a.next + 1 /\ Feed(a, k).open = [a.open EXCEPT ![k.index] = k.block]
           /\ Feed(a, k).text = a.text /\ Feed(a, k).blocks = a.blocks
           /\ Feed(a, k).usage = a.usage /\ Feed(a, k).finish = a.finish
<1>1. Feed(a, k) = [a EXCEPT !.open[k.index] = k.block, !.next = @ + 1]
  BY DeltaOfTypes DEF Feed, DeltaTypes
<1> QED BY <1>1 DEF HasFields

LEMMA FeedDelta ==
    ASSUME NEW a, HasFields(a), NEW k, k.type \in DeltaTypes
    PROVE  /\ DOMAIN Feed(a, k) = DOMAIN a
           /\ Feed(a, k).next = a.next /\ Feed(a, k).open = a.open
           /\ Feed(a, k).text = [a.text EXCEPT ![k.index] = Append(@, k.text)] /\ Feed(a, k).blocks = a.blocks
           /\ Feed(a, k).usage = a.usage /\ Feed(a, k).finish = a.finish
<1>1. Feed(a, k) = [a EXCEPT !.text[k.index] = Append(@, k.text)]
  BY DeltaOfTypes DEF Feed, DeltaTypes
<1> QED BY <1>1 DEF HasFields

LEMMA FeedEnd ==
    ASSUME NEW a, HasFields(a), NEW k, k.type = "block-end"
    PROVE  /\ DOMAIN Feed(a, k) = DOMAIN a
           /\ Feed(a, k).next = a.next /\ Feed(a, k).open = [a.open EXCEPT ![k.index] = None]
           /\ Feed(a, k).text = a.text
           /\ Feed(a, k).blocks = [a.blocks EXCEPT ![k.index] = [type |-> WireType(a.open[k.index]), text |-> a.text[k.index]]]
           /\ Feed(a, k).usage = a.usage /\ Feed(a, k).finish = a.finish
<1>1. Feed(a, k) = [a EXCEPT !.open[k.index] = None,
                             !.blocks[k.index] = [type |-> WireType(a.open[k.index]), text |-> a.text[k.index]]]
  BY DeltaOfTypes DEF Feed, DeltaTypes
<1> QED BY <1>1 DEF HasFields

LEMMA FeedUsage ==
    ASSUME NEW a, HasFields(a), NEW k, k.type = "usage"
    PROVE  /\ DOMAIN Feed(a, k) = DOMAIN a
           /\ Feed(a, k).next = a.next /\ Feed(a, k).open = a.open
           /\ Feed(a, k).text = a.text /\ Feed(a, k).blocks = a.blocks
           /\ Feed(a, k).usage = k.kind /\ Feed(a, k).finish = a.finish
<1>1. Feed(a, k) = [a EXCEPT !.usage = k.kind]
  BY DeltaOfTypes DEF Feed, DeltaTypes
<1> QED BY <1>1 DEF HasFields

LEMMA FeedFinish ==
    ASSUME NEW a, HasFields(a), NEW k, k.type = "finish"
    PROVE  /\ DOMAIN Feed(a, k) = DOMAIN a
           /\ Feed(a, k).next = a.next /\ Feed(a, k).open = a.open
           /\ Feed(a, k).text = a.text /\ Feed(a, k).blocks = a.blocks
           /\ Feed(a, k).usage = a.usage /\ Feed(a, k).finish = k.kind
<1>1. Feed(a, k) = [a EXCEPT !.finish = k.kind]
  BY DeltaOfTypes DEF Feed, DeltaTypes
<1> QED BY <1>1 DEF HasFields

\* A block that ends is one of the types a block may have.
LEMMA EndedBlock ==
    ASSUME NEW a, AssemblerInv(a), NEW i \in Indexes, a.open[i] # None
    PROVE  [type |-> WireType(a.open[i]), text |-> a.text[i]] \in Block
BY WireTyped DEF AssemblerInv, IsAssembler, Block

\* A chunk that is accepted keeps the assembler sound.
LEMMA FeedKeeps ==
    ASSUME NEW a, AssemblerInv(a), NEW k, ChunkOK(k), Legal(a, k)
    PROVE  AssemblerInv(Feed(a, k))
<1> DEFINE i == k.index
           b == Feed(a, k)
<1>0. IsAssembler(a) /\ OpenedOnce(a)
  BY DEF AssemblerInv
<1>1. CASE k.type = "block-start"
  <2>1. i \in Indexes /\ i = a.next /\ k.block \in BlockTypes
    BY <1>1, DeltaOfTypes DEF ChunkOK, OfBlock, Legal, DeltaTypes
  <2>2. /\ DOMAIN b = DOMAIN a /\ b.next = a.next + 1 /\ b.text = a.text /\ b.blocks = a.blocks
        /\ b.open = [a.open EXCEPT ![i] = k.block]
    BY <1>0, <1>1, FeedStart DEF IsAssembler
  <2> HIDE DEF b
  <2>3. IsAssembler(b)
    BY <1>0, <2>1, <2>2 DEF IsAssembler, HasFields
  <2>4. OpenedOnce(b)
    BY <1>0, <2>1, <2>2, AssemblerAssumption DEF IsAssembler, HasFields, OpenedOnce
  <2> QED BY <2>3, <2>4 DEF AssemblerInv, b
<1>2. CASE k.type \in DeltaTypes
  <2>1. i \in Indexes /\ k.text \in Deltas
    BY <1>2 DEF ChunkOK, OfBlock
  <2>2. /\ DOMAIN b = DOMAIN a /\ b.next = a.next /\ b.open = a.open /\ b.blocks = a.blocks
        /\ b.text = [a.text EXCEPT ![i] = Append(@, k.text)]
    BY <1>0, <1>2, FeedDelta DEF IsAssembler
  <2> HIDE DEF b
  <2>3. b.text \in [Indexes -> Seq(Deltas)]
    BY <1>0, <2>1, <2>2 DEF IsAssembler, HasFields
  <2>4. IsAssembler(b) /\ OpenedOnce(b)
    BY <1>0, <2>2, <2>3 DEF IsAssembler, HasFields, OpenedOnce
  <2> QED BY <2>4 DEF AssemblerInv, b
<1>3. CASE k.type = "block-end"
  <2> DEFINE ended == [type |-> WireType(a.open[i]), text |-> a.text[i]]
  <2>1. i \in Indexes /\ a.open[i] # None
    BY <1>3, DeltaOfTypes DEF ChunkOK, OfBlock, Legal, DeltaTypes
  <2>2. ended \in Block
    BY <2>1, EndedBlock
  <2>3. /\ DOMAIN b = DOMAIN a /\ b.next = a.next /\ b.text = a.text
        /\ b.open = [a.open EXCEPT ![i] = None] /\ b.blocks = [a.blocks EXCEPT ![i] = ended]
    BY <1>0, <1>3, FeedEnd DEF IsAssembler
  <2> HIDE DEF b, ended
  <2>4. IsAssembler(b)
    BY <1>0, <2>1, <2>2, <2>3 DEF IsAssembler, HasFields
  <2>5. ASSUME NEW j \in Indexes
        PROVE  /\ b.open[j] # None => j < b.next /\ b.blocks[j] = None
               /\ b.blocks[j] # None => j < b.next
    <3>1. CASE j = i
      <4>1. b.open[j] = None
        BY <1>0, <2>1, <2>3, <3>1 DEF IsAssembler, HasFields
      <4>2. j < b.next
        BY <1>0, <2>1, <2>3, <3>1 DEF OpenedOnce
      <4> QED BY <4>1, <4>2
    <3>2. CASE j # i
      <4>1. b.open[j] = a.open[j] /\ b.blocks[j] = a.blocks[j] /\ b.next = a.next
        BY <1>0, <2>3, <3>2 DEF IsAssembler, HasFields
      <4> QED BY <1>0, <4>1 DEF OpenedOnce
    <3> QED BY <3>1, <3>2
  <2> QED BY <2>4, <2>5 DEF AssemblerInv, OpenedOnce, b
<1>4. CASE k.type = "usage"
  <2>1. /\ DOMAIN b = DOMAIN a /\ b.next = a.next /\ b.open = a.open /\ b.text = a.text
        /\ b.blocks = a.blocks
    BY <1>0, <1>4, FeedUsage DEF IsAssembler
  <2> HIDE DEF b
  <2>2. IsAssembler(b) /\ OpenedOnce(b)
    BY <1>0, <2>1 DEF IsAssembler, HasFields, OpenedOnce
  <2> QED BY <2>2 DEF AssemblerInv, b
<1>5. CASE k.type = "finish"
  <2>1. /\ DOMAIN b = DOMAIN a /\ b.next = a.next /\ b.open = a.open /\ b.text = a.text
        /\ b.blocks = a.blocks
    BY <1>0, <1>5, FeedFinish DEF IsAssembler
  <2> HIDE DEF b
  <2>2. IsAssembler(b) /\ OpenedOnce(b)
    BY <1>0, <2>1 DEF IsAssembler, HasFields, OpenedOnce
  <2> QED BY <2>2 DEF AssemblerInv, b
<1> QED BY <1>1, <1>2, <1>3, <1>4, <1>5 DEF ChunkOK, OfBlock

=============================================================================
