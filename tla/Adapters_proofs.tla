--------------------------- MODULE Adapters_proofs ---------------------------
(***************************************************************************)
(* Theorems about Adapters, for any number of streams:                     *)
(*   - cancel() reaches the stream it is meant for, because the finally    *)
(*     block leaves the adapter as stream() expects to find it, whatever   *)
(*     the provider sends (CancelIsHeard);                                 *)
(*   - the assembler accepts the streams that follow the protocol, all of  *)
(*     them and nothing else (ProtocolIsEnforced), and puts each block     *)
(*     together from its own deltas (BlocksAreAssembled);                  *)
(*   - the two adapters follow the protocol but for the ends of calls      *)
(*     (ProtocolIsKept), are complete exactly if the provider named, or    *)
(*     closed, its calls (ValidMeansClosed), and lose no delta             *)
(*     (NothingIsLost), for chat items in any order and a Responses stream *)
(*     whose provider keeps its protocol.                                  *)
(***************************************************************************)
EXTENDS Adapters, BlockAssembler_proofs, FiniteSetTheorems, TLAPS

CancelInv ==
    /\ cancelled \in BOOLEAN /\ active \in BOOLEAN /\ asked \in BOOLEAN
    /\ pc \in {"create", "stream", "broken", "tail", "ended", "raised"}
    /\ pc = "create" => ~cancelled /\ ~active /\ ~asked
    /\ pc = "stream" => (cancelled <=> asked) /\ (active <=> ~cancelled)
    /\ pc \in {"ended", "raised"} => ~cancelled /\ ~active

\* The steps of a stream in which the adapter's state is not touched: the
\* provider's next item of either adapter.
LEMMA ReceiveKeeps ==
    ASSUME CancelInv,
           \/ \E k \in Completions!Item : Completions!Receive(k)
           \/ \E k \in Responses!Event : Responses!Receive(k)
    PROVE  CancelInv'
BY DEF CancelInv, Completions!Receive, Responses!Receive, Completions!adapterVars, Responses!adapterVars

\* The ends of both adapters' streams leave through the finally block.
LEMMA CloseKeeps ==
    ASSUME CancelInv, Completions!CloseStream \/ Responses!CloseStream
    PROVE  CancelInv'
BY DEF CancelInv, Completions!CloseStream, Responses!CloseStream, Over, Completions!Over, Responses!Over

\* What the adapters have in common.
LEMMA CommonKeeps ==
    ASSUME CancelInv, Common
    PROVE  CancelInv'
<1>1. CASE Created
  BY <1>1 DEF CancelInv, Created
<1>2. CASE LoopEnds
  BY <1>2 DEF CancelInv, LoopEnds, adapterVars
<1>3. CASE Fails \/ TaskCancelled
  BY <1>3 DEF CancelInv, Fails, TaskCancelled, Over
<1>4. CASE Cancel
  BY <1>4 DEF CancelInv, Cancel
<1>5. CASE NextStream
  BY <1>5 DEF CancelInv, NextStream, adapterVars
<1>6. QED
  BY <1>1, <1>2, <1>3, <1>4, <1>5 DEF Common

\* A step of either adapter, or of a consumer fed with any chunks.
LEMMA HandlerKeeps ==
    ASSUME CancelInv, [HandlerNext]_vars
    PROVE  CancelInv'
<1>1. CASE UNCHANGED vars
  BY <1>1 DEF CancelInv, vars, baseVars, adapterVars
<1>2. CASE Common
  BY <1>2, CommonKeeps
<1>3. CASE Completions!Step \/ Responses!Step
  BY <1>3, ReceiveKeeps, CloseKeeps DEF Completions!Step, Responses!Step
<1>4. CASE UNCHANGED <<adapterVars, pc, streamVars, asked, streams>>
  BY <1>4 DEF CancelInv, adapterVars
<1>5. QED
  BY <1>1, <1>2, <1>3, <1>4 DEF HandlerNext

\* base.py:97: a stream is broken off by a cancel() made while it was read, and
\* by no other.
THEOREM CancelIsHeard == Spec => []CancelReaches
<1>1. HandlerInit => CancelInv
  BY DEF HandlerInit, Init, CancelInv
<1>2. CancelInv /\ [HandlerNext]_vars => CancelInv'
  BY HandlerKeeps
<1>3. CancelInv => CancelReaches
  BY DEF CancelInv, CancelReaches
<1>4. QED
  BY <1>1, <1>2, <1>3, PTL DEF Spec

-----------------------------------------------------------------------------
(* The assembler against the protocol.  The protocol is a statement about  *)
(* the list of chunks; the assembler has forgotten the list and kept a     *)
(* count, the open blocks and whether there was a finish.  Remembers says  *)
(* what these three mean on the list: with it, the next chunk is legal for *)
(* the assembler exactly if the list still follows the protocol with it.   *)

Starts(s, n) == {q \in 1..n : s[q].type = "block-start"}

StartsAt(s, p, i) == s[p].type = "block-start" /\ s[p].index = i
EndsAt(s, p, i) == s[p].type = "block-end" /\ s[p].index = i

\* Of the first n chunks, p starts block i, which is not ended after it.
OpensAt(s, n, i, p) == StartsAt(s, p, i) /\ ~\E e \in (p + 1)..n : EndsAt(s, e, i)

\* After n chunks block i is open, as a block of type b.
OpenAs(s, n, i, b) == \E p \in 1..n : OpensAt(s, n, i, p) /\ s[p].block = b

\* Each block starts at one place.
StartedOnce(s) == \A p, q \in 1..Len(s) : \A i : StartsAt(s, p, i) /\ StartsAt(s, q, i) => p = q

\* What the protocol asks of the chunk at position p, given those before it.
Proper(s, p) ==
    /\ \A q \in 1..(p - 1) : s[q].type # "finish"
    /\ s[p].type = "block-start" =>
         s[p].block \in BlockTypes /\ s[p].index = Cardinality(Starts(s, p - 1))
    /\ s[p].type \in DeltaTypes => OpenAs(s, p - 1, s[p].index, DeltaOf[s[p].type])
    /\ s[p].type = "block-end" =>
         \E b \in BlockTypes : OpenAs(s, p - 1, s[p].index, b) /\ s[p].block \in {None, WireType(b)}

AllProper(s) == \A p \in 1..Len(s) : Proper(s, p)

Remembers(a, s) ==
    /\ a.next = Cardinality(Starts(s, Len(s)))
    /\ \A p \in Starts(s, Len(s)) : s[p].index < a.next /\ s[p].block \in BlockTypes
    /\ \A i \in Indexes, b \in BlockTypes : a.open[i] = b <=> OpenAs(s, Len(s), i, b)
    /\ a.finish # None <=> \E p \in 1..Len(s) : s[p].type = "finish"

LEMMA StartsFinite ==
    ASSUME NEW s, NEW n \in Nat
    PROVE  IsFiniteSet(Starts(s, n)) /\ Cardinality(Starts(s, n)) \in Nat
<1>1. IsFiniteSet(1..n) /\ Starts(s, n) \subseteq 1..n
  BY FS_Interval DEF Starts
<1> QED BY <1>1, FS_Subset, FS_CardinalityType

\* Blocks numbered by the starts before them have different numbers.
LEMMA NumberedOnce ==
    ASSUME NEW s \in Seq(Custom!Chunk),
           \A p \in 1..Len(s) : s[p].type = "block-start" => s[p].index = Cardinality(Starts(s, p - 1))
    PROVE  StartedOnce(s)
<1>1. ASSUME NEW p \in 1..Len(s), NEW q \in 1..Len(s), p < q,
             s[p].type = "block-start", s[q].type = "block-start"
      PROVE  s[p].index # s[q].index
  <2>1. p \in Starts(s, q - 1) /\ p \notin Starts(s, p - 1)
    BY <1>1 DEF Starts
  <2>2. Starts(s, p - 1) \subseteq Starts(s, q - 1)
    BY <1>1 DEF Starts
  <2>3. IsFiniteSet(Starts(s, q - 1)) /\ p - 1 \in Nat /\ q - 1 \in Nat
    BY StartsFinite
  <2>4. Cardinality(Starts(s, p - 1)) # Cardinality(Starts(s, q - 1))
    BY <2>1, <2>2, <2>3, FS_Subset
  <2> QED BY <1>1, <2>4
<1> QED BY <1>1 DEF StartedOnce, StartsAt

LEMMA SameCardinality == \A S : Custom!Cardinality(S) = Cardinality(S)
BY DEF Custom!Cardinality, Cardinality

\* The protocol as AnyAdapter states it, position by position.
LEMMA FollowsIsProper ==
    ASSUME received \in Seq(Custom!Chunk)
    PROVE  Custom!Follows <=> AllProper(received)
<1> DEFINE s == received
           Numbered == \A p \in 1..Len(s) : s[p].type = "block-start" =>
                         s[p].block \in BlockTypes /\ s[p].index = Cardinality(Starts(s, p - 1))
           Counted == \A p \in Custom!Positions : Custom!Is(p, "block-start") =>
                        /\ received[p].block \in Custom!BlockTypes
                        /\ received[p].index = Custom!Cardinality({q \in 1..(p - 1) : Custom!Is(q, "block-start")})
           Start(i) == CHOOSE p \in 1..Len(s) : StartsAt(s, p, i)
<1>1. \A p : Starts(s, p - 1) = {q \in 1..(p - 1) : Custom!Is(q, "block-start")}
  BY DEF Starts, Custom!Is
<1>2. DOMAIN Custom!DeltaOf = DeltaTypes /\ Custom!DeltaOf = DeltaOf /\ Custom!BlockTypes = BlockTypes
  BY DeltaOfTypes DEF Custom!DeltaOf, DeltaOf, Custom!BlockTypes, BlockTypes
<1>3. Counted <=> Numbered
  <2>1. \A p : Custom!Is(p, "block-start") <=> s[p].type = "block-start"
    BY DEF Custom!Is
  <2>2. \A p : Custom!Cardinality({q \in 1..(p - 1) : Custom!Is(q, "block-start")}) = Cardinality(Starts(s, p - 1))
    BY <1>1, SameCardinality
  <2>3. Custom!Positions = 1..Len(s)
    BY DEF Custom!Positions
  <2> QED BY <1>2, <2>1, <2>2, <2>3
<1>4. \A i : Custom!StartOf(i) = Start(i)
  BY DEF Custom!StartOf, Custom!At, Custom!Positions, StartsAt
<1>5. \A p, i : Custom!OpenBefore(p, i) <=> \E q \in 1..(p - 1) : OpensAt(s, p - 1, i, q)
  BY DEF Custom!OpenBefore, Custom!At, OpensAt, StartsAt, EndsAt
<1>6. ASSUME Numbered, NEW p \in 1..Len(s), NEW i, NEW b
      PROVE  OpenAs(s, p - 1, i, b) <=> Custom!OpenBefore(p, i) /\ s[Start(i)].block = b
  <2>1. StartedOnce(s)
    BY <1>6, NumberedOnce
  <2>2. ASSUME NEW q \in 1..(p - 1), OpensAt(s, p - 1, i, q) PROVE Start(i) = q
    <3>1. q \in 1..Len(s) /\ StartsAt(s, q, i)
      BY <2>2 DEF OpensAt
    <3>2. Start(i) \in 1..Len(s) /\ StartsAt(s, Start(i), i)
      BY <3>1
    <3> QED BY <2>1, <3>1, <3>2 DEF StartedOnce
  <2> QED BY <1>5, <2>2 DEF OpenAs
<1>7. Numbered => (Custom!Follows <=> AllProper(s))
  <2> SUFFICES ASSUME Numbered PROVE Custom!Follows <=> AllProper(s)
    OBVIOUS
  <2>1. (\A p \in 1..Len(s) : s[p].type = "finish" => p = Len(s))
          <=> \A p \in 1..Len(s) : \A q \in 1..(p - 1) : s[q].type # "finish"
    <3>1. ASSUME NEW p \in 1..Len(s), s[p].type = "finish", p # Len(s),
                 \A u \in 1..Len(s) : \A q \in 1..(u - 1) : s[q].type # "finish"
          PROVE  FALSE
      <4>1. p \in 1..(Len(s) - 1) /\ Len(s) \in 1..Len(s)
        BY <3>1
      <4> QED BY <3>1, <4>1
    <3>2. ASSUME NEW p \in 1..Len(s), NEW q \in 1..(p - 1), s[q].type = "finish",
                 \A u \in 1..Len(s) : s[u].type = "finish" => u = Len(s)
          PROVE  FALSE
      BY <3>2
    <3> QED BY <3>1, <3>2
  <2>2. ASSUME NEW p \in 1..Len(s), s[p].type \in DeltaTypes
        PROVE  (Custom!OpenBefore(p, s[p].index) /\ s[Start(s[p].index)].block = DeltaOf[s[p].type])
                 <=> OpenAs(s, p - 1, s[p].index, DeltaOf[s[p].type])
    BY <1>6
  <2>3. ASSUME NEW p \in 1..Len(s), s[p].type = "block-end"
        PROVE  (Custom!OpenBefore(p, s[p].index) /\ s[p].block \in {None, WireType(s[Start(s[p].index)].block)})
                 <=> \E b \in BlockTypes : OpenAs(s, p - 1, s[p].index, b) /\ s[p].block \in {None, WireType(b)}
    <3>1. ASSUME Custom!OpenBefore(p, s[p].index) PROVE s[Start(s[p].index)].block \in BlockTypes
      <4>1. PICK q \in 1..(p - 1) : OpensAt(s, p - 1, s[p].index, q)
        BY <1>5, <3>1
      <4>2. q \in 1..Len(s) /\ StartsAt(s, q, s[p].index)
        BY <4>1 DEF OpensAt
      <4>3. Start(s[p].index) \in 1..Len(s) /\ StartsAt(s, Start(s[p].index), s[p].index)
        BY <4>2
      <4> QED BY <4>3 DEF StartsAt
    <3> QED BY <1>6, <3>1
  <2> HIDE DEF Start
  <2>4. \A w : Custom!WireType(w) = WireType(w)
    BY DEF Custom!WireType, WireType
  <2>5. Custom!Follows <=>
          /\ \A p \in 1..Len(s) : s[p].type = "finish" => p = Len(s)
          /\ \A p \in 1..Len(s) : s[p].type \in DeltaTypes =>
               Custom!OpenBefore(p, s[p].index) /\ s[Start(s[p].index)].block = DeltaOf[s[p].type]
          /\ \A p \in 1..Len(s) : s[p].type = "block-end" =>
               Custom!OpenBefore(p, s[p].index) /\ s[p].block \in {None, WireType(s[Start(s[p].index)].block)}
    <3>1. /\ \A p, t : Custom!Is(p, t) <=> s[p].type = t
          /\ Custom!Positions = 1..Len(s)
      BY DEF Custom!Is, Custom!Positions
    <3>2. Custom!Follows <=>
            /\ \A p \in Custom!Positions : Custom!Is(p, "finish") => p = Len(received)
            /\ Counted
            /\ \A p \in Custom!Positions : received[p].type \in DOMAIN Custom!DeltaOf =>
                 /\ Custom!OpenBefore(p, received[p].index)
                 /\ received[Custom!StartOf(received[p].index)].block = Custom!DeltaOf[received[p].type]
            /\ \A p \in Custom!Positions : Custom!Is(p, "block-end") =>
                 /\ Custom!OpenBefore(p, received[p].index)
                 /\ received[p].block \in {None, Custom!WireType(received[Custom!StartOf(received[p].index)].block)}
      BY DEF Custom!Follows, Counted
    <3> HIDE DEF Counted
    <3> QED BY <1>2, <1>4, <1>3, <2>4, <3>1, <3>2
  <2> QED BY <2>1, <2>2, <2>3, <2>5 DEF AllProper, Proper
<1>8. Custom!Follows => Numbered
  <2>1. Custom!Follows => Counted
    BY DEF Custom!Follows, Counted
  <2> QED BY <1>3, <2>1
<1>9. AllProper(s) => Numbered
  BY DEF AllProper, Proper
<1> QED BY <1>7, <1>8, <1>9


\* One chunk more leaves what was said of the others as it is.
LEMMA AppendKeeps ==
    ASSUME NEW s \in Seq(Custom!Chunk), NEW k \in Custom!Chunk
    PROVE  /\ Append(s, k) \in Seq(Custom!Chunk) /\ Len(Append(s, k)) = Len(s) + 1
           /\ Append(s, k)[Len(s) + 1] = k
           /\ \A p \in 1..Len(s) : Append(s, k)[p] = s[p]
           /\ \A n \in 0..Len(s) : Starts(Append(s, k), n) = Starts(s, n)
           /\ \A n \in 0..Len(s) : \A i, b : OpenAs(Append(s, k), n, i, b) <=> OpenAs(s, n, i, b)
<1> DEFINE t == Append(s, k)
<1>1. /\ t \in Seq(Custom!Chunk) /\ Len(t) = Len(s) + 1
      /\ t[Len(s) + 1] = k /\ \A p \in 1..Len(s) : t[p] = s[p]
  OBVIOUS
<1> HIDE DEF t
<1>2. \A n \in 0..Len(s) : \A q \in 1..n : t[q] = s[q]
  BY <1>1
<1>3. \A n \in 0..Len(s) : Starts(t, n) = Starts(s, n)
  BY <1>2 DEF Starts
<1>4. ASSUME NEW n \in 0..Len(s), NEW i, NEW p \in 1..n
      PROVE  OpensAt(t, n, i, p) <=> OpensAt(s, n, i, p)
  <2>1. \A e \in (p + 1)..n : e \in 1..n
    BY <1>4
  <2> QED BY <1>2, <2>1 DEF OpensAt, StartsAt, EndsAt
<1>5. \A n \in 0..Len(s) : \A i, b : OpenAs(t, n, i, b) <=> OpenAs(s, n, i, b)
  BY <1>2, <1>4 DEF OpenAs
<1> QED BY <1>1, <1>3, <1>5 DEF t

LEMMA AllProperAppend ==
    ASSUME NEW s \in Seq(Custom!Chunk), NEW k \in Custom!Chunk
    PROVE  AllProper(Append(s, k)) <=> AllProper(s) /\ Proper(Append(s, k), Len(s) + 1)
<1> DEFINE t == Append(s, k)
<1>1. ASSUME NEW p \in 1..Len(s) PROVE Proper(t, p) <=> Proper(s, p)
  <2>1. t[p] = s[p] /\ p - 1 \in 0..Len(s) /\ \A q \in 1..(p - 1) : t[q] = s[q]
    BY <1>1, AppendKeeps
  <2>2. /\ Starts(t, p - 1) = Starts(s, p - 1)
        /\ \A i, b : OpenAs(t, p - 1, i, b) <=> OpenAs(s, p - 1, i, b)
    BY <2>1, AppendKeeps
  <2> HIDE DEF t
  <2> QED BY <2>1, <2>2 DEF Proper
<1>2. Len(t) = Len(s) + 1 /\ 1..Len(t) = 1..Len(s) \cup {Len(s) + 1}
  BY AppendKeeps
<1> HIDE DEF t
<1>3. AllProper(t) <=> AllProper(s) /\ Proper(t, Len(s) + 1)
  BY <1>1, <1>2 DEF AllProper
<1> QED BY <1>3 DEF t

\* The chunks a custom adapter may send.
LEMMA ChunkTyped ==
    ASSUME NEW k \in Custom!Chunk
    PROVE  /\ ChunkOK(k)
           /\ k.type = "finish" => k.kind # None
           /\ k.type # "finish" => k.type \in OfBlock \cup {"usage"}
<1>1. DOMAIN Custom!DeltaOf = DeltaTypes
  BY DEF Custom!DeltaOf, DeltaTypes
<1> QED BY <1>1, AdaptersAssumption DEF Custom!Chunk, ChunkOK, OfBlock, DeltaTypes

\* An assembler that remembers the list accepts a chunk exactly if it is
\* proper after the list.
LEMMA LegalIsProper ==
    ASSUME NEW s \in Seq(Custom!Chunk), NEW k \in Custom!Chunk, NEW a, IsAssembler(a), Remembers(a, s)
    PROVE  Legal(a, k) <=> Proper(Append(s, k), Len(s) + 1)
<1> DEFINE t == Append(s, k)
           n == Len(s)
<1>1. t[n + 1] = k /\ (\A p \in 1..n : t[p] = s[p]) /\ n \in 0..n /\ (n + 1) - 1 = n
  BY AppendKeeps
<1>2. Starts(t, n) = Starts(s, n) /\ \A i, b : OpenAs(t, n, i, b) <=> OpenAs(s, n, i, b)
  BY <1>1, AppendKeeps
<1> HIDE DEF t, n
<1>3. Proper(t, n + 1) <=>
        /\ \A q \in 1..n : s[q].type # "finish"
        /\ k.type = "block-start" => k.block \in BlockTypes /\ k.index = Cardinality(Starts(s, n))
        /\ k.type \in DeltaTypes => OpenAs(s, n, k.index, DeltaOf[k.type])
        /\ k.type = "block-end" =>
             \E b \in BlockTypes : OpenAs(s, n, k.index, b) /\ k.block \in {None, WireType(b)}
  BY <1>1, <1>2 DEF Proper
<1>4. ChunkOK(k) /\ (k.type \in OfBlock => k.index \in Indexes)
  BY ChunkTyped DEF ChunkOK
<1>5. a.finish = None <=> \A q \in 1..n : s[q].type # "finish"
  BY DEF Remembers, n
<1>6. \A i \in Indexes, b \in BlockTypes : a.open[i] = b <=> OpenAs(s, n, i, b)
  BY DEF Remembers, n
<1>7. CASE k.type = "block-start"
  <2>1. a.next = Cardinality(Starts(s, n))
    BY DEF Remembers, n
  <2> QED BY <1>3, <1>5, <1>7, <2>1, DeltaOfTypes DEF Legal, DeltaTypes, t, n
<1>8. CASE k.type \in DeltaTypes
  <2>1. k.index \in Indexes /\ DeltaOf[k.type] \in BlockTypes
    BY <1>4, <1>8, DeltaOfTypes DEF OfBlock, DeltaTypes, BlockTypes
  <2>2. a.open[k.index] = DeltaOf[k.type] <=> OpenAs(s, n, k.index, DeltaOf[k.type])
    BY <1>6, <2>1
  <2>3. Legal(a, k) <=> a.finish = None /\ a.open[k.index] = DeltaOf[k.type]
    BY <1>8, DeltaOfTypes DEF Legal, DeltaTypes
  <2>4. Proper(t, n + 1) <=>
          (\A q \in 1..n : s[q].type # "finish") /\ OpenAs(s, n, k.index, DeltaOf[k.type])
    BY <1>3, <1>8 DEF DeltaTypes
  <2> QED BY <1>5, <2>2, <2>3, <2>4 DEF t, n
<1>9. CASE k.type = "block-end"
  <2>1. k.index \in Indexes /\ a.open[k.index] \in BlockTypes \cup {None} /\ None \notin BlockTypes
    BY <1>4, <1>9, AssemblerAssumption DEF OfBlock, IsAssembler
  <2>2. (a.open[k.index] # None /\ k.block \in {None, WireType(a.open[k.index])}) <=>
          \E b \in BlockTypes : OpenAs(s, n, k.index, b) /\ k.block \in {None, WireType(b)}
    BY <1>6, <2>1
  <2>3. Legal(a, k) <=>
          /\ a.finish = None
          /\ a.open[k.index] # None /\ k.block \in {None, WireType(a.open[k.index])}
    BY <1>9, DeltaOfTypes DEF Legal, DeltaTypes
  <2>4. Proper(t, n + 1) <=>
          /\ \A q \in 1..n : s[q].type # "finish"
          /\ \E b \in BlockTypes : OpenAs(s, n, k.index, b) /\ k.block \in {None, WireType(b)}
    BY <1>3, <1>9 DEF DeltaTypes
  <2> QED BY <1>5, <2>2, <2>3, <2>4 DEF t, n
<1>10. CASE k.type \in {"usage", "finish"}
  BY <1>3, <1>5, <1>10, DeltaOfTypes DEF Legal, DeltaTypes, t, n
<1> QED BY <1>4, <1>7, <1>8, <1>9, <1>10 DEF ChunkOK, OfBlock


\* The blocks that are open after one chunk more.
LEMMA OpenAfterAppend ==
    ASSUME NEW s \in Seq(Custom!Chunk), NEW k \in Custom!Chunk, NEW i, NEW b
    PROVE  OpenAs(Append(s, k), Len(s) + 1, i, b) <=>
             \/ k.type = "block-start" /\ k.index = i /\ k.block = b
             \/ OpenAs(s, Len(s), i, b) /\ ~(k.type = "block-end" /\ k.index = i)
<1> DEFINE t == Append(s, k)
           n == Len(s)
<1>1. t[n + 1] = k /\ (\A p \in 1..n : t[p] = s[p]) /\ n \in Nat
  BY AppendKeeps
<1> HIDE DEF t, n
<1>2. OpensAt(t, n + 1, i, n + 1) <=> k.type = "block-start" /\ k.index = i
  <2>1. ((n + 1) + 1)..(n + 1) = {}
    BY <1>1
  <2> QED BY <1>1, <2>1 DEF OpensAt, StartsAt
<1>3. ASSUME NEW p \in 1..n
      PROVE  OpensAt(t, n + 1, i, p) <=> OpensAt(s, n, i, p) /\ ~(k.type = "block-end" /\ k.index = i)
  <2>1. (p + 1)..(n + 1) = ((p + 1)..n) \cup {n + 1} /\ \A e \in (p + 1)..n : e \in 1..n
    BY <1>1
  <2>2. (\E e \in (p + 1)..(n + 1) : EndsAt(t, e, i)) <=>
          (\E e \in (p + 1)..n : EndsAt(s, e, i)) \/ (k.type = "block-end" /\ k.index = i)
    BY <1>1, <2>1 DEF EndsAt
  <2> QED BY <1>1, <2>2 DEF OpensAt, StartsAt
<1>4. 1..(n + 1) = 1..n \cup {n + 1}
  BY <1>1
<1>5. OpenAs(t, n + 1, i, b) <=>
        \/ OpensAt(t, n + 1, i, n + 1) /\ k.block = b
        \/ \E p \in 1..n : OpensAt(t, n + 1, i, p) /\ s[p].block = b
  BY <1>1, <1>4 DEF OpenAs
<1>6. (\E p \in 1..n : OpensAt(t, n + 1, i, p) /\ s[p].block = b) <=>
        OpenAs(s, n, i, b) /\ ~(k.type = "block-end" /\ k.index = i)
  BY <1>3 DEF OpenAs
<1> QED BY <1>2, <1>5, <1>6 DEF t, n

\* feed() of a legal chunk remembers the list with it.
LEMMA FeedRemembers ==
    ASSUME NEW s \in Seq(Custom!Chunk), NEW k \in Custom!Chunk,
           NEW a, IsAssembler(a), Remembers(a, s), Legal(a, k)
    PROVE  Remembers(Feed(a, k), Append(s, k))
<1> DEFINE t == Append(s, k)
           n == Len(s)
           c == Feed(a, k)
           started == k.type = "block-start"
<1>1. /\ t[n + 1] = k /\ (\A p \in 1..n : t[p] = s[p]) /\ n \in Nat /\ Len(t) = n + 1
      /\ 1..(n + 1) = 1..n \cup {n + 1} /\ Starts(t, n) = Starts(s, n)
  BY AppendKeeps
<1>2. ChunkOK(k) /\ (k.type = "finish" => k.kind # None)
  BY ChunkTyped
<1>3. /\ a.next = Cardinality(Starts(s, n)) /\ a.next \in Nat
      /\ \A p \in Starts(s, n) : s[p].index < a.next /\ s[p].block \in BlockTypes
      /\ \A i \in Indexes, b \in BlockTypes : a.open[i] = b <=> OpenAs(s, n, i, b)
      /\ a.finish = None /\ a.open \in [Indexes -> BlockTypes \cup {None}]
  BY DEF Remembers, Legal, IsAssembler
<1>4. a.finish # None <=> \E p \in 1..n : s[p].type = "finish"
  BY DEF Remembers
<1>5. started => k.index = a.next /\ k.block \in BlockTypes
  BY DeltaOfTypes DEF Legal, DeltaTypes
<1>6. k.type \in {"block-start", "block-end", "usage", "finish"} \cup DeltaTypes
  BY <1>2 DEF ChunkOK, OfBlock
<1>7. /\ started => c.next = a.next + 1 /\ c.open = [a.open EXCEPT ![k.index] = k.block]
      /\ k.type = "block-end" => c.next = a.next /\ c.open = [a.open EXCEPT ![k.index] = None]
      /\ ~started /\ k.type # "block-end" => c.next = a.next /\ c.open = a.open
      /\ c.finish = IF k.type = "finish" THEN k.kind ELSE a.finish
  <2> HIDE DEF c
  <2>1. CASE started
    BY <2>1, FeedStart DEF c, IsAssembler
  <2>2. CASE k.type \in DeltaTypes
    <3>1. k.type \notin {"block-start", "block-end", "finish"}
      BY <2>2 DEF DeltaTypes
    <3> QED BY <2>2, <3>1, FeedDelta DEF c, IsAssembler
  <2>3. CASE k.type = "block-end"
    BY <2>3, FeedEnd DEF c, IsAssembler
  <2>4. CASE k.type = "usage"
    BY <2>4, FeedUsage DEF c, IsAssembler
  <2>5. CASE k.type = "finish"
    BY <2>5, FeedFinish DEF c, IsAssembler
  <2> QED BY <1>6, <2>1, <2>2, <2>3, <2>4, <2>5
<1>8. \A i, b : OpenAs(t, n + 1, i, b) <=>
        \/ started /\ k.index = i /\ k.block = b
        \/ OpenAs(s, n, i, b) /\ ~(k.type = "block-end" /\ k.index = i)
  BY OpenAfterAppend
<1>9. k.type \in OfBlock => k.index \in Indexes
  BY <1>2 DEF ChunkOK
<1>10. IsFiniteSet(Starts(s, n))
  BY <1>1, StartsFinite
<1> HIDE DEF t, n, c
<1>11. /\ c.next = Cardinality(Starts(t, n + 1))
       /\ \A p \in Starts(t, n + 1) : t[p].index < c.next /\ t[p].block \in BlockTypes
  <2>1. Starts(t, n + 1) = IF started THEN Starts(s, n) \cup {n + 1} ELSE Starts(s, n)
    BY <1>1 DEF Starts
  <2>2. n + 1 \notin Starts(s, n) /\ \A p \in Starts(s, n) : p \in 1..n
    BY <1>1 DEF Starts
  <2>3. CASE started
    <3>1. Cardinality(Starts(s, n) \cup {n + 1}) = Cardinality(Starts(s, n)) + 1
      BY <1>10, <2>2, FS_AddElement
    <3>2. c.next = Cardinality(Starts(t, n + 1)) /\ c.next = a.next + 1
      BY <1>3, <1>7, <2>1, <2>3, <3>1
    <3>3. ASSUME NEW p \in Starts(s, n) PROVE t[p].index < c.next /\ t[p].block \in BlockTypes
      <4>1. t[p] = s[p] /\ s[p].index < a.next /\ s[p].block \in BlockTypes
        BY <1>1, <1>3, <2>2
      <4>2. s[p].index \in Int
        <5>1. p \in 1..Len(s) /\ s[p] \in Custom!Chunk /\ s[p].type = "block-start"
          BY <2>2 DEF n, Starts
        <5>2. s[p].index \in Indexes
          BY <5>1, ChunkTyped DEF ChunkOK, OfBlock
        <5>3. Indexes \subseteq Int
          BY AssemblerAssumption
        <5> QED BY <5>2, <5>3
      <4> QED BY <1>3, <3>2, <4>1, <4>2
    <3>4. t[n + 1].index < c.next /\ t[n + 1].block \in BlockTypes
      BY <1>1, <1>3, <1>5, <2>3, <3>2
    <3> QED BY <2>1, <2>3, <3>2, <3>3, <3>4
  <2>4. CASE ~started
    <3>1. c.next = a.next /\ Starts(t, n + 1) = Starts(s, n)
      BY <1>7, <2>1, <2>4
    <3> QED BY <1>1, <1>3, <2>2, <3>1
  <2> QED BY <2>3, <2>4
<1>12. ASSUME NEW i \in Indexes, NEW b \in BlockTypes
       PROVE  c.open[i] = b <=> OpenAs(t, n + 1, i, b)
  <2>1. None # b
    BY AssemblerAssumption
  <2>2. CASE started
    <3>1. ~OpenAs(s, n, k.index, b)
      <4>1. ASSUME OpenAs(s, n, k.index, b) PROVE FALSE
        <5>1. PICK p \in 1..n : OpensAt(s, n, k.index, p)
          BY <4>1 DEF OpenAs
        <5>2. p \in Starts(s, n) /\ s[p].index = k.index
          BY <5>1 DEF OpensAt, StartsAt, Starts
        <5> QED BY <1>3, <1>5, <2>2, <5>2
      <4> QED BY <4>1
    <3>2. c.open = [a.open EXCEPT ![k.index] = k.block] /\ k.index \in Indexes
      BY <1>7, <1>9, <2>2 DEF OfBlock
    <3>3. OpenAs(t, n + 1, i, b) <=> (k.index = i /\ k.block = b) \/ OpenAs(s, n, i, b)
      BY <1>8, <2>2
    <3> QED BY <1>3, <3>1, <3>2, <3>3
  <2>3. CASE k.type = "block-end"
    <3>1. c.open = [a.open EXCEPT ![k.index] = None] /\ k.index \in Indexes
      BY <1>7, <1>9, <2>3 DEF OfBlock
    <3>2. OpenAs(t, n + 1, i, b) <=> OpenAs(s, n, i, b) /\ k.index # i
      BY <1>8, <2>3
    <3> QED BY <1>3, <2>1, <3>1, <3>2
  <2>4. CASE ~started /\ k.type # "block-end"
    <3>1. c.open = a.open
      BY <1>7, <2>4
    <3>2. OpenAs(t, n + 1, i, b) <=> OpenAs(s, n, i, b)
      BY <1>8, <2>4
    <3> QED BY <1>3, <3>1, <3>2
  <2> QED BY <2>2, <2>3, <2>4
<1>13. c.finish # None <=> \E p \in 1..(n + 1) : t[p].type = "finish"
  BY <1>1, <1>2, <1>3, <1>4, <1>7
<1>14. Remembers(c, t)
  BY <1>1, <1>11, <1>12, <1>13 DEF Remembers
<1> QED BY <1>14 DEF c, t

\* What the assembler says of the list it was fed.
ListInv ==
    /\ received \in Seq(Custom!Chunk) /\ refused \in BOOLEAN
    /\ IF refused THEN ~AllProper(received)
       ELSE AssemblerInv(asm) /\ AllProper(received) /\ Remembers(asm, received)

\* The methods as AnyAdapter has them are the same.
LEMMA SameAssembler ==
    \A a, k : /\ Custom!Legal(a, k) <=> Legal(a, k)
              /\ Custom!Feed(a, k) = Feed(a, k)
              /\ Custom!Valid(a) <=> Valid(a)
<1>1. Custom!DeltaOf = DeltaOf /\ Custom!BlockTypes = BlockTypes
  BY DEF Custom!DeltaOf, DeltaOf, Custom!BlockTypes, BlockTypes
<1>2. \A w : Custom!WireType(w) = WireType(w)
  BY DEF Custom!WireType, WireType
<1>3. \A a, k : Custom!Legal(a, k) <=> Legal(a, k)
  BY <1>1, <1>2 DEF Custom!Legal, Legal
<1>4. \A a, k : Custom!Feed(a, k) = Feed(a, k)
  BY <1>1, <1>2 DEF Custom!Feed, Feed
<1>5. \A a : Custom!Valid(a) <=> Valid(a)
  BY DEF Custom!Valid, Valid
<1> QED BY <1>3, <1>4, <1>5

LEMMA ListInit == HandlerInit => ListInv
<1> SUFFICES ASSUME HandlerInit PROVE ListInv
  OBVIOUS
<1>1. received = << >> /\ refused = FALSE /\ asm = NewAssembler
  BY DEF HandlerInit, Init
<1>2. 1..0 = {} /\ Starts(<< >>, 0) = {} /\ Cardinality({}) = 0 /\ Len(<< >>) = 0
  BY FS_EmptySet DEF Starts
<1>3. NewAssembler.next = 0 /\ NewAssembler.finish = None /\ \A i \in Indexes : NewAssembler.open[i] = None
  BY DEF NewAssembler
<1>4. \A i, b : ~OpenAs(<< >>, 0, i, b)
  BY <1>2 DEF OpenAs
<1>5. Remembers(NewAssembler, << >>)
  BY <1>2, <1>3, <1>4, AssemblerAssumption DEF Remembers
<1>6. AllProper(<< >>) /\ << >> \in Seq(Custom!Chunk)
  BY <1>2 DEF AllProper
<1> QED BY <1>1, <1>5, <1>6, NewAssemblerInv DEF ListInv

\* The next chunk of a custom adapter.
LEMMA ChunkKeeps ==
    ASSUME ListInv, NEW k \in Custom!Chunk, Custom!Receive(k)
    PROVE  ListInv'
<1>1. ~refused /\ received' = Append(received, k)
  BY DEF Custom!Receive
<1>2. received \in Seq(Custom!Chunk) /\ AssemblerInv(asm) /\ AllProper(received) /\ Remembers(asm, received)
  BY <1>1 DEF ListInv
<1>3. IsAssembler(asm)
  BY <1>2 DEF AssemblerInv
<1>4. AllProper(received') <=> Legal(asm, k)
  BY <1>1, <1>2, <1>3, AllProperAppend, LegalIsProper
<1>5. received' \in Seq(Custom!Chunk)
  BY <1>1, <1>2, AppendKeeps
<1>6. CASE Legal(asm, k)
  <2>1. asm' = Feed(asm, k) /\ refused' = refused
    BY <1>6, SameAssembler DEF Custom!Receive
  <2>2. AssemblerInv(asm')
    BY <1>2, <1>6, <2>1, ChunkTyped, FeedKeeps
  <2>3. Remembers(asm', received')
    BY <1>1, <1>2, <1>3, <1>6, <2>1, FeedRemembers
  <2>4. refused' = FALSE
    BY <1>1, <2>1 DEF ListInv
  <2> QED BY <1>4, <1>5, <1>6, <2>2, <2>3, <2>4 DEF ListInv
<1>7. CASE ~Legal(asm, k)
  <2>1. refused' = TRUE
    BY <1>7, SameAssembler DEF Custom!Receive
  <2> QED BY <1>4, <1>5, <1>7, <2>1 DEF ListInv
<1> QED BY <1>6, <1>7

\* Block by block, what is open for the assembler is open on the list.
LEMMA InvEnforces == ListInv => Custom!ProtocolEnforced
<1> SUFFICES ASSUME ListInv PROVE Custom!ProtocolEnforced
  OBVIOUS
<1> DEFINE s == received
           AllClosed == \A p \in 1..Len(s) : s[p].type = "block-start" => ~Custom!OpenBefore(Len(s) + 1, s[p].index)
<1>1. s \in Seq(Custom!Chunk) /\ refused \in BOOLEAN /\ (Custom!Follows <=> AllProper(s))
  BY FollowsIsProper DEF ListInv
<1>2. Custom!FailsFast
  BY <1>1 DEF Custom!FailsFast, ListInv
<1>3. ASSUME ~refused PROVE Valid(asm) <=> (\E p \in 1..Len(s) : s[p].type = "finish") /\ AllClosed
  <2>1. IsAssembler(asm) /\ Remembers(asm, s)
    BY <1>3 DEF ListInv, AssemblerInv
  <2>2. \A i : Custom!OpenBefore(Len(s) + 1, i) <=> \E q \in 1..Len(s) : OpensAt(s, Len(s), i, q)
    <3>1. (Len(s) + 1) - 1 = Len(s)
      BY <1>1
    <3> QED BY <3>1 DEF Custom!OpenBefore, Custom!At, OpensAt, StartsAt, EndsAt
  <2>3. ASSUME NEW i \in Indexes
        PROVE  asm.open[i] # None <=> Custom!OpenBefore(Len(s) + 1, i)
    <3>1. asm.open[i] # None <=> \E b \in BlockTypes : asm.open[i] = b
      BY <2>1, AssemblerAssumption DEF IsAssembler
    <3>2. asm.open[i] # None <=> \E b \in BlockTypes : OpenAs(s, Len(s), i, b)
      BY <2>1, <3>1 DEF Remembers
    <3>3. \A q \in 1..Len(s) : OpensAt(s, Len(s), i, q) => s[q].block \in BlockTypes
      BY <2>1 DEF Remembers, OpensAt, StartsAt, Starts
    <3> QED BY <2>2, <3>2, <3>3 DEF OpenAs
  <2>4. \A p \in 1..Len(s) : s[p].type = "block-start" => s[p].index \in Indexes
    BY <1>1, ChunkTyped DEF ChunkOK, OfBlock
  <2>5. ASSUME NEW i, Custom!OpenBefore(Len(s) + 1, i)
        PROVE  \E p \in 1..Len(s) : s[p].type = "block-start" /\ s[p].index = i
    BY <2>2, <2>5 DEF OpensAt, StartsAt
  <2>6. AllClosed <=> \A i \in Indexes : ~Custom!OpenBefore(Len(s) + 1, i)
    BY <2>4, <2>5
  <2>7. asm.finish # None <=> \E p \in 1..Len(s) : s[p].type = "finish"
    BY <2>1 DEF Remembers
  <2> QED BY <2>3, <2>6, <2>7 DEF Valid
<1>4. Custom!ValidWhenComplete
  <2>1. Custom!Positions = 1..Len(s) /\ \A p, t : Custom!Is(p, t) <=> s[p].type = t
    BY DEF Custom!Positions, Custom!Is
  <2>2. Custom!ValidWhenComplete <=>
          ((~refused /\ Valid(asm)) <=>
             Custom!Follows /\ (\E p \in 1..Len(s) : s[p].type = "finish") /\ AllClosed)
    BY <2>1, SameAssembler DEF Custom!ValidWhenComplete
  <2> QED BY <1>1, <1>2, <1>3, <2>2 DEF Custom!FailsFast
<1> QED BY <1>2, <1>4 DEF Custom!ProtocolEnforced

\* block_assembler.py: whatever chunks an adapter sends, feed() and validate()
\* accept the streams that follow the protocol, all of them and nothing else;
\* and a chunk that breaks it is refused at once.
THEOREM ProtocolIsEnforced == Spec => []ProtocolEnforced
<1> DEFINE Inv == api = "any" => ListInv
<1>1. HandlerInit => Inv
  BY ListInit
<1>2. Inv /\ [HandlerNext]_vars => Inv'
  <2> SUFFICES ASSUME Inv, [HandlerNext]_vars, api' = "any" PROVE ListInv'
    OBVIOUS
  <2>1. api = "any" /\ ListInv
    BY DEF HandlerNext, vars
  <2>2. CASE UNCHANGED vars
    BY <2>1, <2>2 DEF vars, baseVars, ListInv
  <2>3. CASE HandlerNext
    <3>1. PICK k \in Custom!Chunk : Custom!Receive(k)
      BY <2>1, <2>3 DEF HandlerNext, Custom!Next
    <3> QED BY <2>1, <3>1, ChunkKeeps
  <2> QED BY <2>2, <2>3
<1>3. Inv => ProtocolEnforced
  BY InvEnforces DEF ProtocolEnforced
<1>4. QED
  BY <1>1, <1>2, <1>3, PTL DEF Spec

-----------------------------------------------------------------------------
(* The adapters keep the protocol.                                         *)

\* The consumer after the first n chunks.
Feeding(f, c, chunks, N) ==
    f = [n \in 0..N |-> IF n = 0 THEN c ELSE Consume(f[n - 1], chunks[n])]

LEMMA FeedingExists == \A c, chunks : \A N \in Nat : \E f : Feeding(f, c, chunks, N)
<1> SUFFICES ASSUME NEW c, NEW chunks PROVE \A N \in Nat : \E f : Feeding(f, c, chunks, N)
  OBVIOUS
<1> DEFINE S == {N \in Nat : \E f : Feeding(f, c, chunks, N)}
<1>1. 0 \in S
  <2> DEFINE f == [n \in 0..0 |-> c]
  <2>1. Feeding(f, c, chunks, 0)
    BY DEF Feeding
  <2> QED BY <2>1
<1>2. ASSUME NEW N \in Nat, N \in S PROVE N + 1 \in S
  <2>1. PICK f : Feeding(f, c, chunks, N)
    BY <1>2
  <2> DEFINE h == [n \in 0..(N + 1) |-> IF n = N + 1 THEN Consume(f[N], chunks[N + 1]) ELSE f[n]]
  <2>2. \A n \in 0..N : h[n] = f[n]
    OBVIOUS
  <2>3. ASSUME NEW n \in 0..(N + 1)
        PROVE  h[n] = IF n = 0 THEN c ELSE Consume(h[n - 1], chunks[n])
    <3>1. CASE n = N + 1
      <4>1. h[n - 1] = f[N] /\ h[n] = Consume(f[N], chunks[N + 1])
        BY <3>1
      <4> QED BY <3>1, <4>1
    <3>2. CASE n \in 0..N
      <4>1. f[n] = IF n = 0 THEN c ELSE Consume(f[n - 1], chunks[n])
        BY <2>1, <3>2 DEF Feeding
      <4>2. n = 0 \/ (n - 1 \in 0..N /\ h[n - 1] = f[n - 1])
        BY <2>2, <3>2
      <4> QED BY <2>2, <3>2, <4>1, <4>2
    <3> QED BY <3>1, <3>2
  <2>4. h = [n \in 0..(N + 1) |-> h[n]]
    OBVIOUS
  <2> HIDE DEF h
  <2>5. Feeding(h, c, chunks, N + 1)
    BY <2>3, <2>4 DEF Feeding
  <2> QED BY <2>5
<1> HIDE DEF S
<1>3. Nat \subseteq S
  BY <1>1, <1>2, Induction
<1> QED BY <1>3 DEF S

\* What the consumer is after each of the chunks, FedWith being the last.
Consumer(f, chunks) ==
    /\ f[0] = [asm |-> asm, ok |-> ~refused]
    /\ \A n \in 0..(Len(chunks) - 1) : f[n + 1] = Consume(f[n], chunks[n + 1])
    /\ FedWith(chunks) = f[Len(chunks)]

LEMMA FedDef ==
    ASSUME NEW T, NEW chunks \in Seq(T)
    PROVE  \E f : Consumer(f, chunks)
<1> DEFINE c == [asm |-> asm, ok |-> ~refused]
           f == CHOOSE f : Feeding(f, c, chunks, Len(chunks))
<1>1. Feeding(f, c, chunks, Len(chunks))
  <2> HIDE DEF c
  <2>1. Len(chunks) \in Nat
    OBVIOUS
  <2>2. \A N \in Nat : \E g : Feeding(g, c, chunks, N)
    BY FeedingExists
  <2>3. \E g : Feeding(g, c, chunks, Len(chunks))
    BY <2>1, <2>2
  <2> QED BY <2>3
<1>2. FedWith(chunks) = f[Len(chunks)]
  BY DEF FedWith, Feeding
<1> HIDE DEF f
<1>3. ASSUME NEW n \in 0..Len(chunks)
      PROVE  f[n] = IF n = 0 THEN c ELSE Consume(f[n - 1], chunks[n])
  BY <1>1 DEF Feeding
<1>4. ASSUME NEW n \in 0..(Len(chunks) - 1)
      PROVE  f[n + 1] = Consume(f[n], chunks[n + 1])
  <2>1. n + 1 \in 0..Len(chunks) /\ n + 1 # 0 /\ (n + 1) - 1 = n
    OBVIOUS
  <2> QED BY <1>3, <2>1
<1>5. f[0] = c
  BY <1>3
<1> QED BY <1>2, <1>4, <1>5 DEF Consumer

LEMMA Consumed ==
    ASSUME NEW a, NEW k, Legal(a, k)
    PROVE  Consume([asm |-> a, ok |-> TRUE], k) = [asm |-> Feed(a, k), ok |-> TRUE]
BY DEF Consume

LEMMA YieldsOne ==
    ASSUME NEW k, ~refused, Legal(asm, k), Yields(<<k>>)
    PROVE  asm' = Feed(asm, k) /\ ~refused'
<1>1. <<k>> \in Seq({k}) /\ Len(<<k>>) = 1 /\ <<k>>[1] = k
  OBVIOUS
<1>2. PICK f : Consumer(f, <<k>>)
  BY <1>1, FedDef
<1>3. f[0] = [asm |-> asm, ok |-> TRUE] /\ f[0 + 1] = Consume(f[0], k) /\ FedWith(<<k>>) = f[1]
  <2>1. 0 \in 0..(Len(<<k>>) - 1) /\ 0 + 1 = 1
    BY <1>1
  <2>2. f[0 + 1] = Consume(f[0], <<k>>[0 + 1]) /\ FedWith(<<k>>) = f[Len(<<k>>)]
    BY <1>2, <2>1 DEF Consumer
  <2>3. f[0] = [asm |-> asm, ok |-> TRUE]
    <3>1. f[0] = [asm |-> asm, ok |-> ~refused]
      BY <1>2 DEF Consumer
    <3>2. (~refused) = TRUE
      OBVIOUS
    <3> QED BY <3>1, <3>2
  <2> QED BY <1>1, <2>1, <2>2, <2>3
<1>4. FedWith(<<k>>) = [asm |-> Feed(asm, k), ok |-> TRUE]
  BY <1>3, Consumed
<1>5. asm' = FedWith(<<k>>).asm /\ refused' = ~FedWith(<<k>>).ok
  BY DEF Yields
<1>6. FedWith(<<k>>).asm = Feed(asm, k) /\ FedWith(<<k>>).ok = TRUE
  BY <1>4
<1> QED BY <1>5, <1>6

LEMMA YieldsTwo ==
    ASSUME NEW k, NEW l, ~refused, Legal(asm, k), Legal(Feed(asm, k), l), Yields(<<k, l>>)
    PROVE  asm' = Feed(Feed(asm, k), l) /\ ~refused'
<1>1. <<k, l>> \in Seq({k, l}) /\ Len(<<k, l>>) = 2 /\ <<k, l>>[1] = k /\ <<k, l>>[2] = l
  OBVIOUS
<1>2. PICK f : Consumer(f, <<k, l>>)
  BY <1>1, FedDef
<1>3. /\ f[0] = [asm |-> asm, ok |-> TRUE]
      /\ f[1] = Consume(f[0], k) /\ f[2] = Consume(f[1], l) /\ FedWith(<<k, l>>) = f[2]
  <2>1. 0 \in 0..(Len(<<k, l>>) - 1) /\ 1 \in 0..(Len(<<k, l>>) - 1) /\ 0 + 1 = 1 /\ 1 + 1 = 2
    BY <1>1
  <2> QED BY <1>1, <1>2, <2>1 DEF Consumer
<1>4. f[1] = [asm |-> Feed(asm, k), ok |-> TRUE]
  BY <1>3, Consumed
<1>5. FedWith(<<k, l>>) = [asm |-> Feed(Feed(asm, k), l), ok |-> TRUE]
  BY <1>3, <1>4, Consumed
<1>6. asm' = FedWith(<<k, l>>).asm /\ refused' = ~FedWith(<<k, l>>).ok
  BY DEF Yields
<1>7. FedWith(<<k, l>>).asm = Feed(Feed(asm, k), l) /\ FedWith(<<k, l>>).ok = TRUE
  BY <1>5
<1> QED BY <1>6, <1>7

LEMMA DeltaChunkIs ==
    ASSUME NEW i, NEW block \in BlockTypes, NEW text
    PROVE  LET k == DeltaChunk(i, block, text)
           IN  k.type \in DeltaTypes /\ DeltaOf[k.type] = block /\ k.index = i /\ k.text = text
<1> DEFINE d == CHOOSE d \in DOMAIN DeltaOf : DeltaOf[d] = block
<1>1. \E e \in DOMAIN DeltaOf : DeltaOf[e] = block
  BY DeltaOfTypes DEF BlockTypes, DeltaTypes
<1>2. d \in DOMAIN DeltaOf /\ DeltaOf[d] = block
  BY <1>1
<1>3. DeltaChunk(i, block, text) = [type |-> d, index |-> i, text |-> text]
  BY DEF DeltaChunk
<1> HIDE DEF d
<1> QED BY <1>2, <1>3, DeltaOfTypes

\* The state of a stream that is not over: the blocks the assembler has open
\* are blocks of items, each item has its own, and the next one is new.
StreamOK ==
    /\ HasFields(asm)
    /\ asm.open \in [Indexes -> BlockTypes \cup {None}]
    /\ DOMAIN asm.text = Indexes /\ DOMAIN asm.blocks = Indexes
    /\ asm.text = [i \in Indexes |-> asm.text[i]] /\ asm.blocks = [i \in Indexes |-> asm.blocks[i]]
    /\ ~refused /\ asm.finish = None /\ asm.next = next_index /\ next_index \in Nat
    /\ blockOf \in [DOMAIN blockOf -> Indexes]
    /\ \A b \in DOMAIN blockOf : blockOf[b] < next_index
    /\ \A b, c \in DOMAIN blockOf : blockOf[b] = blockOf[c] => b = c
    /\ \A i \in Indexes : asm.open[i] # None => \E b \in DOMAIN blockOf : blockOf[b] = i
    /\ \A i \in Indexes : i >= next_index => asm.text[i] = << >>

\* A delta of an item whose block is open.
LEMMA DeltaKeeps ==
    ASSUME StreamOK, NEW i \in Indexes, NEW block \in BlockTypes, NEW text,
           asm.open[i] = block, i < next_index,
           Yields(<<DeltaChunk(i, block, text)>>), UNCHANGED <<blockOf, next_index>>
    PROVE  /\ StreamOK'
           /\ asm'.open = asm.open /\ asm'.blocks = asm.blocks
           /\ asm'.text = [asm.text EXCEPT ![i] = Append(@, text)]
<1> DEFINE k == DeltaChunk(i, block, text)
<1>1. k.type \in DeltaTypes /\ DeltaOf[k.type] = block /\ k.index = i /\ k.text = text
  BY DeltaChunkIs
<1> HIDE DEF k
<1>2. Legal(asm, k)
  BY <1>1, DeltaOfTypes DEF Legal, StreamOK
<1>3. asm' = Feed(asm, k) /\ ~refused'
  BY <1>2, YieldsOne DEF StreamOK, k
<1>4. /\ DOMAIN asm' = DOMAIN asm /\ asm'.next = asm.next /\ asm'.open = asm.open
      /\ asm'.text = [asm.text EXCEPT ![i] = Append(@, text)] /\ asm'.blocks = asm.blocks
      /\ asm'.finish = asm.finish
  <2>1. HasFields(asm)
    BY DEF StreamOK
  <2> QED BY <1>1, <1>3, <2>1, FeedDelta
<1>5. DOMAIN asm'.text = Indexes /\ asm'.text = [j \in Indexes |-> asm'.text[j]]
  BY <1>4 DEF StreamOK
<1>6. \A j \in Indexes : j >= next_index => asm'.text[j] = << >>
  BY <1>4, AssemblerAssumption DEF StreamOK
<1>7. StreamOK'
  <2>1. HasFields(asm')
    BY <1>4 DEF StreamOK, HasFields
  <2> QED BY ZenonT(60), <1>3, <1>4, <1>5, <1>6, <2>1 DEF StreamOK
<1> QED BY <1>4, <1>7

\* A block that is started: the assembler once it was fed its start.
Begun(a, i, block) ==
    /\ HasFields(a) /\ a.finish = None /\ a.next = next_index + 1
    /\ a.open = [asm.open EXCEPT ![i] = block] /\ a.text = asm.text /\ a.blocks = asm.blocks

LEMMA StartFed ==
    ASSUME StreamOK, NEW block \in BlockTypes
    PROVE  LET k == StartOf(next_index, block)
           IN  Legal(asm, k) /\ Begun(Feed(asm, k), next_index, block)
<1> DEFINE k == StartOf(next_index, block)
<1>1. k.type = "block-start" /\ k.index = next_index /\ k.block = block
  BY DEF StartOf
<1> HIDE DEF k
<1>2. Legal(asm, k)
  BY <1>1 DEF Legal, StreamOK
<1>3. HasFields(asm) /\ asm.finish = None /\ asm.next = next_index
  BY DEF StreamOK
<1>4. Begun(Feed(asm, k), next_index, block)
  BY <1>1, <1>3, FeedStart DEF Begun, HasFields
<1> QED BY <1>2, <1>4 DEF k

\* The next block is allotted to an item that had none.
LEMMA Allotted ==
    ASSUME StreamOK, NEW b, b \notin DOMAIN blockOf, next_index \in Indexes, Allot(b),
           HasFields(asm'), asm'.finish = None, asm'.next = next_index + 1, ~refused',
           NEW block \in BlockTypes \cup {None}, asm'.open = [asm.open EXCEPT ![next_index] = block],
           NEW text, asm'.text = [asm.text EXCEPT ![next_index] = text],
           DOMAIN asm'.blocks = Indexes, asm'.blocks = [i \in Indexes |-> asm'.blocks[i]]
    PROVE  /\ StreamOK'
           /\ DOMAIN blockOf' = DOMAIN blockOf \cup {b} /\ blockOf'[b] = next_index
           /\ \A c \in DOMAIN blockOf : blockOf'[c] = blockOf[c]
           /\ next_index' = next_index + 1
<1>1. /\ blockOf' = [k \in DOMAIN blockOf \cup {b} |-> IF k = b THEN next_index ELSE blockOf[k]]
      /\ next_index' = next_index + 1
  BY DEF Allot
<1>2. /\ DOMAIN blockOf' = DOMAIN blockOf \cup {b} /\ blockOf'[b] = next_index
      /\ \A c \in DOMAIN blockOf : blockOf'[c] = blockOf[c]
  BY <1>1
<1>3. /\ next_index \in Nat
      /\ blockOf \in [DOMAIN blockOf -> Indexes]
      /\ \A c \in DOMAIN blockOf : blockOf[c] < next_index /\ blockOf[c] \in Nat
  BY AssemblerAssumption DEF StreamOK
<1>4. /\ blockOf' \in [DOMAIN blockOf' -> Indexes]
      /\ \A c \in DOMAIN blockOf' : blockOf'[c] < next_index'
  BY <1>1, <1>2, <1>3
<1>5. \A c, d \in DOMAIN blockOf' : blockOf'[c] = blockOf'[d] => c = d
  <2>1. \A c, d \in DOMAIN blockOf : blockOf[c] = blockOf[d] => c = d
    BY DEF StreamOK
  <2>2. \A c \in DOMAIN blockOf : blockOf[c] # next_index
    BY <1>3
  <2> QED BY <1>2, <2>1, <2>2
<1>6. ASSUME NEW i \in Indexes, asm'.open[i] # None
      PROVE  \E c \in DOMAIN blockOf' : blockOf'[c] = i
  <2>1. CASE i = next_index
    BY <1>2, <2>1
  <2>2. CASE i # next_index
    <3>1. asm.open[i] # None
      BY <1>6, <2>2 DEF StreamOK
    <3>2. PICK c \in DOMAIN blockOf : blockOf[c] = i
      BY <3>1 DEF StreamOK
    <3> QED BY <1>2, <3>2
  <2> QED BY <2>1, <2>2
<1>7. ASSUME NEW i \in Indexes, i >= next_index' PROVE asm'.text[i] = << >>
  <2>1. i # next_index /\ i >= next_index
    BY <1>1, <1>3, <1>7, AssemblerAssumption
  <2> QED BY <2>1 DEF StreamOK
<1>8. /\ asm'.open \in [Indexes -> BlockTypes \cup {None}]
      /\ DOMAIN asm'.text = Indexes /\ asm'.text = [i \in Indexes |-> asm'.text[i]]
  BY DEF StreamOK
<1>9. StreamOK'
  BY <1>1, <1>3, <1>4, <1>5, <1>6, <1>7, <1>8 DEF StreamOK
<1> QED BY <1>1, <1>2, <1>9

\* A delta of an item: what Emit makes of the consumer.
LEMMA EmitKeeps ==
    ASSUME StreamOK, NEW b, NEW block \in BlockTypes, NEW text, Emit(b, block, text),
           IF b \in DOMAIN blockOf THEN asm.open[blockOf[b]] = block ELSE next_index \in Indexes
    PROVE  /\ StreamOK'
           /\ DOMAIN blockOf' = DOMAIN blockOf \cup {b}
           /\ \A c \in DOMAIN blockOf : blockOf'[c] = blockOf[c]
           /\ next_index' = IF b \in DOMAIN blockOf THEN next_index ELSE next_index + 1
           /\ asm'.open[blockOf'[b]] = block
           /\ asm'.text[blockOf'[b]] = Append(IF b \in DOMAIN blockOf THEN asm.text[blockOf[b]] ELSE << >>, text)
           /\ asm'.blocks = asm.blocks
           /\ \A c \in DOMAIN blockOf : c # b =>
                /\ asm'.open[blockOf[c]] = asm.open[blockOf[c]]
                /\ asm'.text[blockOf[c]] = asm.text[blockOf[c]]
<1>0. /\ \A c \in DOMAIN blockOf : blockOf[c] \in Indexes /\ blockOf[c] < next_index
      /\ \A c, d \in DOMAIN blockOf : blockOf[c] = blockOf[d] => c = d
      /\ DOMAIN asm.text = Indexes /\ asm.open \in [Indexes -> BlockTypes \cup {None}]
      /\ DOMAIN asm.blocks = Indexes /\ asm.blocks = [i \in Indexes |-> asm.blocks[i]]
      /\ HasFields(asm) /\ asm.text = [i \in Indexes |-> asm.text[i]]
  BY DEF StreamOK
<1>1. CASE b \in DOMAIN blockOf
  <2>1. /\ Yields(<<DeltaChunk(blockOf[b], block, text)>>) /\ UNCHANGED <<blockOf, next_index>>
        /\ asm.open[blockOf[b]] = block
    BY <1>1 DEF Emit
  <2>2. blockOf[b] \in Indexes /\ blockOf[b] < next_index
    BY <1>0, <1>1
  <2>3. /\ StreamOK' /\ asm'.open = asm.open /\ asm'.blocks = asm.blocks
        /\ asm'.text = [asm.text EXCEPT ![blockOf[b]] = Append(@, text)]
    BY <2>1, <2>2, DeltaKeeps
  <2>4. \A c \in DOMAIN blockOf : c # b => blockOf[c] # blockOf[b]
    BY <1>0, <1>1
  <2> QED BY ZenonT(60), <1>0, <1>1, <2>1, <2>2, <2>3, <2>4
<1>2. CASE b \notin DOMAIN blockOf
  <2> DEFINE k == StartOf(next_index, block)
             l == DeltaChunk(next_index, block, text)
             a == Feed(asm, k)
  <2>1. Yields(<<k, l>>) /\ Allot(b) /\ next_index \in Indexes
    BY <1>2 DEF Emit
  <2>2. Legal(asm, k) /\ Begun(a, next_index, block)
    BY StartFed
  <2>3. l.type \in DeltaTypes /\ DeltaOf[l.type] = block /\ l.index = next_index /\ l.text = text
    BY DeltaChunkIs
  <2> HIDE DEF k, l, a
  <2>4. /\ HasFields(a) /\ a.finish = None /\ a.next = next_index + 1
        /\ a.open = [asm.open EXCEPT ![next_index] = block] /\ a.text = asm.text /\ a.blocks = asm.blocks
    BY <2>2 DEF Begun
  <2>5. Legal(a, l)
    BY <1>0, <2>1, <2>3, <2>4, DeltaOfTypes DEF Legal
  <2>6. asm' = Feed(a, l) /\ ~refused'
    BY <2>1, <2>2, <2>5, YieldsTwo DEF StreamOK, a
  <2>7. /\ DOMAIN asm' = DOMAIN a /\ asm'.next = a.next /\ asm'.open = a.open
        /\ asm'.text = [a.text EXCEPT ![next_index] = Append(@, text)] /\ asm'.blocks = a.blocks
        /\ asm'.finish = a.finish
    BY <2>3, <2>4, <2>6, FeedDelta
  <2>8. asm.text[next_index] = << >>
    BY <2>1 DEF StreamOK
  <2>9. /\ HasFields(asm') /\ asm'.finish = None /\ asm'.next = next_index + 1
        /\ asm'.open = [asm.open EXCEPT ![next_index] = block] /\ asm'.blocks = asm.blocks
        /\ asm'.text = [asm.text EXCEPT ![next_index] = Append(<< >>, text)]
    <3>1. HasFields(asm')
      BY <2>4, <2>7 DEF HasFields
    <3>2. asm'.text = [asm.text EXCEPT ![next_index] = Append(<< >>, text)]
      BY <1>0, <2>1, <2>4, <2>7, <2>8
    <3> QED BY <2>4, <2>7, <3>1, <3>2
  <2>10. /\ StreamOK' /\ DOMAIN blockOf' = DOMAIN blockOf \cup {b} /\ blockOf'[b] = next_index
         /\ \A c \in DOMAIN blockOf : blockOf'[c] = blockOf[c]
         /\ next_index' = next_index + 1
    <3>1. block \in BlockTypes \cup {None} /\ DOMAIN asm'.blocks = Indexes
          /\ asm'.blocks = [i \in Indexes |-> asm'.blocks[i]]
      BY <1>0, <2>9
    <3> QED BY <1>2, <2>1, <2>6, <2>9, <3>1, Allotted
  <2>11. \A c \in DOMAIN blockOf : blockOf[c] # next_index
    BY <1>0, AssemblerAssumption DEF StreamOK
  <2> QED BY <1>0, <1>2, <2>1, <2>9, <2>10, <2>11
<1> QED BY <1>1, <1>2

LEMMA EndOfIs ==
    \A i, block : LET k == EndOf(i, block)
                  IN  k.type = "block-end" /\ k.index = i /\ k.block = WireType(block)
BY DEF EndOf

\* The block of index i as it is when it ends.
EndedAs(a, i) == [type |-> WireType(a.open[i]), text |-> a.text[i]]

\* The end of an open block.
LEMMA EndKeeps ==
    ASSUME StreamOK, NEW i \in Indexes, NEW block \in BlockTypes, asm.open[i] = block,
           Yields(<<EndOf(i, block)>>), UNCHANGED <<blockOf, next_index>>
    PROVE  /\ StreamOK'
           /\ asm'.open = [asm.open EXCEPT ![i] = None] /\ asm'.text = asm.text
           /\ asm'.blocks = [asm.blocks EXCEPT ![i] = EndedAs(asm, i)]
<1> DEFINE k == EndOf(i, block)
<1>1. k.type = "block-end" /\ k.index = i /\ k.block = WireType(block)
  BY EndOfIs
<1> HIDE DEF k
<1>2. block # None /\ HasFields(asm) /\ asm.finish = None
  BY AssemblerAssumption DEF StreamOK
<1>3. Legal(asm, k)
  BY <1>1, <1>2, DeltaOfTypes DEF Legal
<1>4. asm' = Feed(asm, k) /\ ~refused'
  BY <1>3, YieldsOne DEF StreamOK, k
<1>5. /\ DOMAIN asm' = DOMAIN asm /\ asm'.next = asm.next /\ asm'.open = [asm.open EXCEPT ![i] = None]
      /\ asm'.text = asm.text /\ asm'.blocks = [asm.blocks EXCEPT ![i] = EndedAs(asm, i)]
      /\ asm'.finish = asm.finish
  BY ZenonT(60), <1>1, <1>2, <1>4, FeedEnd DEF EndedAs
<1>6. /\ asm'.open \in [Indexes -> BlockTypes \cup {None}]
      /\ DOMAIN asm'.blocks = Indexes /\ asm'.blocks = [j \in Indexes |-> asm'.blocks[j]]
      /\ \A j \in Indexes : asm'.open[j] # None => asm.open[j] # None
  BY <1>5 DEF StreamOK
<1>7. HasFields(asm')
  BY <1>2, <1>5 DEF HasFields
<1>8. StreamOK'
  BY <1>4, <1>5, <1>6, <1>7 DEF StreamOK
<1> QED BY <1>5, <1>8

\* A block without a delta is started and ended.
LEMMA EmptyBlockKeeps ==
    ASSUME StreamOK, NEW b, b \notin DOMAIN blockOf, NEW block \in BlockTypes, next_index \in Indexes,
           Yields(<<StartOf(next_index, block), EndOf(next_index, block)>>), Allot(b)
    PROVE  /\ StreamOK'
           /\ DOMAIN blockOf' = DOMAIN blockOf \cup {b} /\ blockOf'[b] = next_index
           /\ \A c \in DOMAIN blockOf : blockOf'[c] = blockOf[c]
           /\ next_index' = next_index + 1
           /\ asm'.open = [asm.open EXCEPT ![next_index] = None] /\ asm'.text = asm.text
           /\ asm'.blocks = [asm.blocks EXCEPT ![next_index] = [type |-> WireType(block), text |-> << >>]]
<1> DEFINE k == StartOf(next_index, block)
           l == EndOf(next_index, block)
           a == Feed(asm, k)
           ended == [type |-> WireType(block), text |-> << >>]
<1>0. /\ DOMAIN asm.text = Indexes /\ asm.text = [i \in Indexes |-> asm.text[i]]
      /\ asm.open \in [Indexes -> BlockTypes \cup {None}]
      /\ DOMAIN asm.blocks = Indexes /\ asm.blocks = [i \in Indexes |-> asm.blocks[i]]
      /\ asm.text[next_index] = << >> /\ block # None
  BY AssemblerAssumption DEF StreamOK
<1>1. Legal(asm, k) /\ Begun(a, next_index, block)
  BY StartFed
<1>2. l.type = "block-end" /\ l.index = next_index /\ l.block = WireType(block)
  BY EndOfIs
<1> HIDE DEF k, l, a
<1>3. /\ HasFields(a) /\ a.finish = None /\ a.next = next_index + 1
      /\ a.open = [asm.open EXCEPT ![next_index] = block] /\ a.text = asm.text /\ a.blocks = asm.blocks
  BY <1>1 DEF Begun
<1>4. a.open[next_index] = block
  BY <1>0, <1>3
<1>5. Legal(a, l)
  BY <1>0, <1>2, <1>3, <1>4, DeltaOfTypes DEF Legal
<1>6. asm' = Feed(a, l) /\ ~refused'
  BY <1>1, <1>5, YieldsTwo DEF StreamOK, a, k, l
<1>7. /\ DOMAIN asm' = DOMAIN a /\ asm'.next = a.next /\ asm'.open = [a.open EXCEPT ![next_index] = None]
      /\ asm'.text = a.text
      /\ asm'.blocks = [a.blocks EXCEPT ![next_index] = [type |-> WireType(a.open[next_index]), text |-> a.text[next_index]]]
      /\ asm'.finish = a.finish
  <2>1. HasFields(a) /\ l.type = "block-end"
    BY <1>2, <1>3
  <2>2. /\ DOMAIN Feed(a, l) = DOMAIN a /\ Feed(a, l).next = a.next
        /\ Feed(a, l).open = [a.open EXCEPT ![l.index] = None] /\ Feed(a, l).text = a.text
        /\ Feed(a, l).blocks = [a.blocks EXCEPT ![l.index] = [type |-> WireType(a.open[l.index]), text |-> a.text[l.index]]]
        /\ Feed(a, l).finish = a.finish
    BY <2>1, FeedEnd
  <2>3. l.index = next_index
    BY <1>2
  <2> QED BY <1>6, <2>2, <2>3
<1> HIDE DEF ended
<1>8. /\ asm'.open = [asm.open EXCEPT ![next_index] = None] /\ asm'.text = asm.text
      /\ asm'.next = next_index + 1 /\ asm'.finish = None
  BY <1>0, <1>3, <1>7
<1>9. asm'.blocks = [asm.blocks EXCEPT ![next_index] = ended]
  BY <1>0, <1>3, <1>4, <1>7 DEF ended
<1>10. HasFields(asm') /\ asm'.text = [asm.text EXCEPT ![next_index] = << >>]
  <2>1. HasFields(asm')
    BY <1>3, <1>7 DEF HasFields
  <2>2. asm.text = [asm.text EXCEPT ![next_index] = << >>]
    BY <1>0
  <2> QED BY <1>8, <2>1, <2>2
<1>11. DOMAIN asm'.blocks = Indexes /\ asm'.blocks = [i \in Indexes |-> asm'.blocks[i]]
  BY <1>0, <1>9
<1>12. /\ StreamOK' /\ DOMAIN blockOf' = DOMAIN blockOf \cup {b} /\ blockOf'[b] = next_index
       /\ \A c \in DOMAIN blockOf : blockOf'[c] = blockOf[c]
       /\ next_index' = next_index + 1
  <2>1. None \in BlockTypes \cup {None}
    OBVIOUS
  <2> QED BY <1>6, <1>8, <1>10, <1>11, <2>1, Allotted
<1> QED BY <1>8, <1>9, <1>12 DEF ended

\* The assembler once the blocks S have been ended.
Closed(a, S) ==
    /\ HasFields(a) /\ a.finish = None /\ a.text = asm.text
    /\ a.open = [i \in Indexes |-> IF i \in S THEN None ELSE asm.open[i]]
    /\ a.blocks = [i \in Indexes |-> IF i \in S THEN EndedAs(asm, i) ELSE asm.blocks[i]]

LEMMA CloseOne ==
    ASSUME StreamOK, NEW a, NEW S, Closed(a, S), NEW i \in Indexes \ S, asm.open[i] # None,
           NEW k, k.type = "block-end", k.index = i, k.block = WireType(asm.open[i])
    PROVE  Legal(a, k) /\ Closed(Feed(a, k), S \cup {i})
<1>1. a.open[i] = asm.open[i] /\ a.text[i] = asm.text[i] /\ a.finish = None /\ HasFields(a)
  BY DEF Closed
<1>2. Legal(a, k)
  BY <1>1, DeltaOfTypes DEF Legal
<1>3. /\ DOMAIN Feed(a, k) = DOMAIN a
      /\ Feed(a, k).open = [a.open EXCEPT ![i] = None] /\ Feed(a, k).text = a.text
      /\ Feed(a, k).blocks = [a.blocks EXCEPT ![i] = [type |-> WireType(a.open[i]), text |-> a.text[i]]]
      /\ Feed(a, k).finish = a.finish
  <2>1. /\ DOMAIN Feed(a, k) = DOMAIN a
        /\ Feed(a, k).open = [a.open EXCEPT ![k.index] = None] /\ Feed(a, k).text = a.text
        /\ Feed(a, k).blocks = [a.blocks EXCEPT ![k.index] = [type |-> WireType(a.open[k.index]), text |-> a.text[k.index]]]
        /\ Feed(a, k).finish = a.finish
    <3>1. HasFields(a) /\ k.type = "block-end"
      BY <1>1
    <3> QED BY ONLY <3>1, FeedEnd
  <2> QED BY <2>1
<1> DEFINE b == Feed(a, k)
<1> HIDE DEF b
<1>4. b.open = [j \in Indexes |-> IF j \in S \cup {i} THEN None ELSE asm.open[j]]
  BY ZenonT(60), <1>3 DEF b, Closed
<1>5. b.blocks = [j \in Indexes |-> IF j \in S \cup {i} THEN EndedAs(asm, j) ELSE asm.blocks[j]]
  <2>1. EndedAs(asm, i) = [type |-> WireType(a.open[i]), text |-> a.text[i]]
    BY <1>1 DEF EndedAs
  <2>2. b.blocks = [a.blocks EXCEPT ![i] = EndedAs(asm, i)]
    BY <1>3, <2>1 DEF b
  <2> QED BY <2>2 DEF Closed
<1>6. HasFields(b) /\ b.finish = None /\ b.text = asm.text
  BY <1>1, <1>3 DEF b, HasFields, Closed
<1> QED BY <1>2, <1>4, <1>5, <1>6 DEF b, Closed

\* A list of the ends of the blocks S, one each.
EndChunk == [type: {"block-end"}, index: Nat, block: WireTypes]

EndsOnce(s, S) ==
    /\ s \in Seq(EndChunk)
    /\ \A n \in 1..Len(s) : s[n].index \in S /\ s[n].block = WireType(asm.open[s[n].index])
    /\ \A m, n \in 1..Len(s) : s[m].index = s[n].index => m = n
    /\ \A i \in S : i \in Indexes /\ asm.open[i] # None /\ \E n \in 1..Len(s) : s[n].index = i

\* What a stream ends with.
LastOf(last, kind) == last = <<FinishOf(kind)>> \/ last = <<Usage, FinishOf(kind)>>

\* The end of a stream: the blocks S are ended, and nothing is refused.
LEMMA TailYields ==
    ASSUME StreamOK, NEW S, NEW ends, EndsOnce(ends, S), NEW kind, NEW last, LastOf(last, kind),
           Yields(ends \o last)
    PROVE  /\ ~refused' /\ HasFields(asm') /\ asm'.finish = kind /\ asm'.text = asm.text
           /\ asm'.open = [i \in Indexes |-> IF i \in S THEN None ELSE asm.open[i]]
           /\ asm'.blocks = [i \in Indexes |-> IF i \in S THEN EndedAs(asm, i) ELSE asm.blocks[i]]
<1> DEFINE T == EndChunk \cup {Usage, FinishOf(kind)}
           s == ends \o last
           L == Len(ends)
           Sofar(n) == {ends[m].index : m \in 1..n}
<1>1. /\ ends \in Seq(EndChunk) /\ L \in Nat
      /\ last \in Seq(T) /\ Len(last) \in {1, 2}
      /\ last[Len(last)] = FinishOf(kind) /\ (Len(last) = 2 => last[1] = Usage)
  <2>1. ends \in Seq(EndChunk) /\ L \in Nat
    BY DEF EndsOnce
  <2>2. FinishOf(kind) \in T /\ Usage \in T
    OBVIOUS
  <2> HIDE DEF T
  <2>3. CASE last = <<FinishOf(kind)>>
    BY <2>1, <2>2, <2>3
  <2>4. CASE last = <<Usage, FinishOf(kind)>>
    BY <2>1, <2>2, <2>4
  <2> QED BY <2>3, <2>4 DEF LastOf
<1>2. /\ s \in Seq(T) /\ Len(s) = L + Len(last)
      /\ \A n \in 1..L : s[n] = ends[n]
      /\ s[L + 1] = last[1] /\ (Len(last) = 2 => s[L + 2] = last[2])
  <2>1. ends \in Seq(T)
    BY <1>1
  <2> HIDE DEF T
  <2> QED BY <1>1, <2>1
<1>3. PICK f : Consumer(f, s)
  BY <1>2, FedDef
<1> HIDE DEF T, s, L
<1>4. /\ f[0] = [asm |-> asm, ok |-> TRUE]
      /\ \A n \in 0..(Len(s) - 1) : f[n + 1] = Consume(f[n], s[n + 1])
      /\ FedWith(s) = f[Len(s)]
  <2>1. (~refused) = TRUE
    BY DEF StreamOK
  <2> QED BY <1>3, <2>1 DEF Consumer
<1> DEFINE Reached(n) == \E a : f[n] = [asm |-> a, ok |-> TRUE] /\ Closed(a, Sofar(n))
           Q == {n \in Nat : n <= L => Reached(n)}
<1>5. 0 \in Q
  <2>1. Sofar(0) = {}
    OBVIOUS
  <2>2. Closed(asm, {})
    BY DEF Closed, StreamOK
  <2>3. Reached(0)
    <3> HIDE DEF Sofar
    <3> QED BY <1>4, <2>1, <2>2
  <2> HIDE DEF Reached
  <2> QED BY <2>3
<1>6. ASSUME NEW n \in Nat, n \in Q PROVE n + 1 \in Q
  <2> SUFFICES ASSUME n + 1 <= L PROVE Reached(n + 1)
    <3> HIDE DEF Reached
    <3> QED OBVIOUS
  <2>0. Reached(n)
    <3> HIDE DEF Reached
    <3> QED BY <1>1, <1>6
  <2> HIDE DEF Sofar
  <2>1. PICK a : f[n] = [asm |-> a, ok |-> TRUE] /\ Closed(a, Sofar(n))
    BY <2>0
  <2> USE DEF Sofar
  <2> DEFINE k == ends[n + 1]
             i == k.index
  <2>2. n + 1 \in 1..L /\ n \in 0..(Len(s) - 1) /\ s[n + 1] = k
    BY <1>1, <1>2
  <2>3. /\ k \in EndChunk /\ i \in S /\ k.block = WireType(asm.open[i])
        /\ i \in Indexes /\ asm.open[i] # None
    BY <1>1, <2>2 DEF EndsOnce, L
  <2>4. i \notin Sofar(n)
    <3>1. ASSUME NEW m \in 1..n, ends[m].index = i PROVE FALSE
      <4>1. m \in 1..L /\ m # n + 1
        BY <1>1, <2>2
      <4> QED BY <2>2, <3>1, <4>1 DEF EndsOnce, L
    <3> QED BY <3>1
  <2>5. Sofar(n + 1) = Sofar(n) \cup {i}
    <3>1. 1..(n + 1) = 1..n \cup {n + 1}
      OBVIOUS
    <3> QED BY <3>1
  <2>6. k.type = "block-end"
    BY <2>3 DEF EndChunk
  <2> HIDE DEF Sofar, k
  <2>7. Legal(a, k) /\ Closed(Feed(a, k), Sofar(n) \cup {i})
    BY <2>1, <2>3, <2>4, <2>6, CloseOne
  <2>8. f[n + 1] = [asm |-> Feed(a, k), ok |-> TRUE]
    BY <1>4, <2>1, <2>2, <2>7, Consumed
  <2> QED BY <2>5, <2>7, <2>8
<1> HIDE DEF Q
<1>7. Nat \subseteq Q
  BY <1>5, <1>6, Induction
<1>8. PICK a : f[L] = [asm |-> a, ok |-> TRUE] /\ Closed(a, Sofar(L))
  <2>1. Reached(L)
    <3> HIDE DEF Reached
    <3> QED BY <1>1, <1>7 DEF Q
  <2> HIDE DEF Sofar
  <2> QED BY <2>1
<1>9. Sofar(L) = S
  BY DEF EndsOnce, L
<1> HIDE DEF Sofar
<1>10. HasFields(a) /\ a.finish = None /\ Closed(a, S)
  BY <1>8, <1>9 DEF Closed
<1> DEFINE k == FinishOf(kind)
           AtEnd(b) == /\ f[Len(s)] = [asm |-> b, ok |-> TRUE]
                      /\ HasFields(b) /\ b.finish = kind /\ b.text = a.text
                      /\ b.open = a.open /\ b.blocks = a.blocks
<1>11. k.type = "finish" /\ k.kind = kind /\ Usage.type = "usage"
  BY DEF FinishOf, Usage
<1> HIDE DEF k
<1>12. ASSUME NEW c, HasFields(c), c.finish = None
       PROVE  /\ Legal(c, k) /\ HasFields(Feed(c, k)) /\ Feed(c, k).finish = kind
              /\ Feed(c, k).text = c.text /\ Feed(c, k).open = c.open /\ Feed(c, k).blocks = c.blocks
  BY <1>11, <1>12, FeedFinish DEF Legal, HasFields
<1>13. /\ Legal(a, Usage) /\ HasFields(Feed(a, Usage)) /\ Feed(a, Usage).finish = None
       /\ Feed(a, Usage).text = a.text /\ Feed(a, Usage).open = a.open /\ Feed(a, Usage).blocks = a.blocks
  BY <1>10, <1>11, FeedUsage DEF Legal, HasFields
<1>14. \E b : AtEnd(b)
  <2>1. CASE Len(last) = 1
    <3>1. Len(s) = L + 1 /\ s[L + 1] = k /\ L \in 0..(Len(s) - 1)
      BY <1>1, <1>2, <2>1 DEF k
    <3>2. f[L + 1] = [asm |-> Feed(a, k), ok |-> TRUE]
      BY <1>4, <1>8, <1>10, <1>12, <3>1, Consumed
    <3>3. AtEnd(Feed(a, k))
      BY <1>10, <1>12, <3>1, <3>2
    <3> QED BY <3>3
  <2>2. CASE Len(last) = 2
    <3> DEFINE c == Feed(a, Usage)
    <3>1. /\ Len(s) = L + 2 /\ s[L + 1] = Usage /\ s[L + 2] = k
          /\ L \in 0..(Len(s) - 1) /\ L + 1 \in 0..(Len(s) - 1) /\ (L + 1) + 1 = L + 2
      BY <1>1, <1>2, <2>2 DEF k
    <3>2. f[L + 1] = [asm |-> c, ok |-> TRUE]
      BY <1>4, <1>8, <1>13, <3>1, Consumed
    <3>3. f[L + 2] = [asm |-> Feed(c, k), ok |-> TRUE]
      BY <1>4, <1>12, <1>13, <3>1, <3>2, Consumed
    <3> HIDE DEF c
    <3>4. /\ HasFields(Feed(c, k)) /\ Feed(c, k).finish = kind
          /\ Feed(c, k).text = a.text /\ Feed(c, k).open = a.open /\ Feed(c, k).blocks = a.blocks
      BY <1>12, <1>13 DEF c
    <3>5. AtEnd(Feed(c, k))
      BY <3>1, <3>3, <3>4
    <3> QED BY <3>5
  <2> QED BY <1>1, <2>1, <2>2
<1>15. PICK b : AtEnd(b)
  BY <1>14
<1>16. asm' = b /\ ~refused'
  <2>1. asm' = FedWith(s).asm /\ refused' = ~FedWith(s).ok
    BY DEF Yields, s
  <2>2. FedWith(s).asm = b /\ FedWith(s).ok = TRUE
    BY <1>4, <1>15
  <2> QED BY <2>1, <2>2
<1> QED BY <1>10, <1>15, <1>16 DEF Closed

\* The ends of the blocks of items of one type are one each.
LEMMA EndsOfOnce ==
    ASSUME StreamOK, NEW bs, bs \subseteq DOMAIN blockOf, NEW block \in BlockTypes,
           \A b \in bs : asm.open[blockOf[b]] = block
    PROVE  EndsOnce(EndsOf(bs, block), {blockOf[b] : b \in bs})
<1> DEFINE all == [n \in 1..next_index |-> EndOf(n - 1, block)]
           P == {blockOf[b] + 1 : b \in bs}
           S == {blockOf[b] : b \in bs}
           s == Pick(all, P)
<1>1. next_index \in Nat /\ block # None /\ WireType(block) \in WireTypes
  BY AssemblerAssumption, WireTyped DEF StreamOK
<1>2. ASSUME NEW b \in bs
      PROVE  blockOf[b] \in Indexes /\ blockOf[b] \in Nat /\ blockOf[b] + 1 \in 1..next_index
  BY AssemblerAssumption DEF StreamOK
<1>3. all \in Seq(EndChunk) /\ Len(all) = next_index
  <2>1. \A n \in 1..next_index : EndOf(n - 1, block) \in EndChunk
    BY <1>1 DEF EndOf, EndChunk
  <2> QED BY <1>1, <2>1
<1>4. \A n \in 1..next_index : all[n].index = n - 1 /\ all[n].block = WireType(block)
  BY EndOfIs
<1> HIDE DEF all
<1>5. s \in Seq(EndChunk)
  BY <1>3, PickTyped
<1>6. PICK from : From(from, s, all, P)
  BY <1>3, PickFrom
<1>7. /\ \A n \in 1..Len(s) : from[n] \in P /\ from[n] \in 1..next_index /\ s[n] = all[from[n]]
      /\ \A m, n \in 1..Len(s) : m < n => from[m] < from[n]
      /\ \A p \in P \cap 1..next_index : \E n \in 1..Len(s) : from[n] = p
  BY <1>3, <1>6 DEF From
<1> HIDE DEF s
<1>8. ASSUME NEW n \in 1..Len(s)
      PROVE  s[n].index \in S /\ s[n].index = from[n] - 1 /\ s[n].block = WireType(asm.open[s[n].index])
  <2>1. PICK b \in bs : from[n] = blockOf[b] + 1
    BY <1>7
  <2>2. s[n].index = from[n] - 1 /\ s[n].block = WireType(block)
    BY <1>4, <1>7
  <2>3. s[n].index = blockOf[b]
    BY <1>2, <2>1, <2>2
  <2> QED BY <2>2, <2>3
<1>9. \A m, n \in 1..Len(s) : s[m].index = s[n].index => m = n
  <2>1. ASSUME NEW m \in 1..Len(s), NEW n \in 1..Len(s), m # n PROVE from[m] # from[n]
    <3>1. from[m] \in Int /\ from[n] \in Int /\ (m < n \/ n < m)
      BY <1>5, <1>7, <2>1
    <3> QED BY <1>7, <3>1
  <2>2. \A n \in 1..Len(s) : from[n] \in Int
    BY <1>7
  <2> QED BY <1>8, <2>1, <2>2
<1>10. ASSUME NEW b \in bs
       PROVE  /\ blockOf[b] \in Indexes /\ asm.open[blockOf[b]] # None
              /\ \E n \in 1..Len(s) : s[n].index = blockOf[b]
  <2>1. blockOf[b] + 1 \in P \cap 1..next_index
    BY <1>2
  <2>2. PICK n \in 1..Len(s) : from[n] = blockOf[b] + 1
    BY <1>7, <2>1
  <2>3. s[n].index = blockOf[b]
    BY <1>2, <1>8, <2>2
  <2> QED BY <1>1, <1>2, <2>3
<1>11. EndsOnce(s, S)
  BY <1>5, <1>8, <1>9, <1>10 DEF EndsOnce
<1>12. EndsOf(bs, block) = s
  BY DEF EndsOf, s, all
<1> QED BY <1>11, <1>12

LEMMA EndsConcat ==
    ASSUME NEW s, NEW S, EndsOnce(s, S), NEW t, NEW U, EndsOnce(t, U), S \cap U = {}
    PROVE  EndsOnce(s \o t, S \cup U)
<1> DEFINE r == s \o t
<1>1. /\ s \in Seq(EndChunk) /\ t \in Seq(EndChunk)
      /\ \A n \in 1..Len(s) : s[n].index \in S /\ s[n].block = WireType(asm.open[s[n].index])
      /\ \A n \in 1..Len(t) : t[n].index \in U /\ t[n].block = WireType(asm.open[t[n].index])
      /\ \A m, n \in 1..Len(s) : s[m].index = s[n].index => m = n
      /\ \A m, n \in 1..Len(t) : t[m].index = t[n].index => m = n
  BY DEF EndsOnce
<1>2. /\ r \in Seq(EndChunk) /\ Len(r) = Len(s) + Len(t) /\ Len(s) \in Nat /\ Len(t) \in Nat
      /\ \A n \in 1..Len(s) : r[n] = s[n]
      /\ \A n \in 1..Len(t) : r[Len(s) + n] = t[n]
  BY <1>1
<1> HIDE DEF r
<1>3. \A n \in 1..Len(r) : n \in 1..Len(s) \/ (n - Len(s) \in 1..Len(t) /\ r[n] = t[n - Len(s)])
  <2>1. ASSUME NEW n \in 1..Len(r), n \notin 1..Len(s)
        PROVE  n - Len(s) \in 1..Len(t) /\ r[n] = t[n - Len(s)]
    <3>1. n - Len(s) \in 1..Len(t) /\ Len(s) + (n - Len(s)) = n
      BY <1>2, <2>1
    <3> QED BY <1>2, <3>1
  <2> QED BY <2>1
<1>4. ASSUME NEW n \in 1..Len(r)
      PROVE  r[n].index \in S \cup U /\ r[n].block = WireType(asm.open[r[n].index])
  <2>1. CASE n \in 1..Len(s)
    BY <1>1, <1>2, <2>1
  <2>2. CASE n \notin 1..Len(s)
    <3>1. n - Len(s) \in 1..Len(t) /\ r[n] = t[n - Len(s)]
      BY <1>3, <2>2
    <3> QED BY <1>1, <3>1
  <2> QED BY <2>1, <2>2
<1>5. ASSUME NEW m \in 1..Len(r), NEW n \in 1..Len(r), r[m].index = r[n].index PROVE m = n
  <2>1. CASE m \in 1..Len(s) /\ n \in 1..Len(s)
    BY <1>1, <1>2, <1>5, <2>1
  <2>2. CASE m \notin 1..Len(s) /\ n \notin 1..Len(s)
    <3>1. m - Len(s) = n - Len(s)
      BY SMTT(30), <1>1, <1>3, <1>5, <2>2
    <3> QED BY <1>2, <3>1
  <2>3. CASE m \in 1..Len(s) /\ n \notin 1..Len(s)
    BY <1>1, <1>2, <1>3, <1>5, <2>3
  <2>4. CASE m \notin 1..Len(s) /\ n \in 1..Len(s)
    BY SMTT(30), <1>1, <1>2, <1>3, <1>5, <2>4
  <2> QED BY <2>1, <2>2, <2>3, <2>4
<1>6. ASSUME NEW i \in S \cup U
      PROVE  i \in Indexes /\ asm.open[i] # None /\ \E n \in 1..Len(r) : r[n].index = i
  <2>1. CASE i \in S
    <3>1. PICK n \in 1..Len(s) : s[n].index = i
      BY <2>1 DEF EndsOnce
    <3>2. n \in 1..Len(r) /\ r[n].index = i
      BY <1>2, <3>1
    <3> QED BY <2>1, <3>2 DEF EndsOnce
  <2>2. CASE i \in U
    <3>1. PICK n \in 1..Len(t) : t[n].index = i
      BY <2>2 DEF EndsOnce
    <3>2. Len(s) + n \in 1..Len(r) /\ r[Len(s) + n].index = i
      BY <1>2, <3>1
    <3> QED BY <2>2, <3>2 DEF EndsOnce
  <2> QED BY <2>1, <2>2
<1> QED BY <1>2, <1>4, <1>5, <1>6 DEF EndsOnce, r

\* What the two adapters have of AdapterBase is the same for both.
LEMMA SameBase ==
    /\ \A chunks : /\ Completions!Yields(chunks) <=> Yields(chunks)
                   /\ Responses!Yields(chunks) <=> Yields(chunks)
    /\ \A b, block, text : /\ Completions!Emit(b, block, text) <=> Emit(b, block, text)
                           /\ Responses!Emit(b, block, text) <=> Emit(b, block, text)
    /\ \A bs, block : /\ Completions!EndsOf(bs, block) = EndsOf(bs, block)
                      /\ Responses!EndsOf(bs, block) = EndsOf(bs, block)
    /\ \A b : Responses!Allot(b) <=> Allot(b)
    /\ \A kind : Completions!FinishOf(kind) = FinishOf(kind) /\ Responses!FinishOf(kind) = FinishOf(kind)
    /\ Completions!Usage = Usage /\ Responses!Usage = Usage
    /\ \A i, block : /\ Responses!StartOf(i, block) = StartOf(i, block)
                     /\ Responses!EndOf(i, block) = EndOf(i, block)
    /\ \A s, P : Completions!Pick(s, P) = Pick(s, P) /\ Responses!Pick(s, P) = Pick(s, P)
<1>1. Completions!DeltaOf = DeltaOf /\ Responses!DeltaOf = DeltaOf
  BY DEF Completions!DeltaOf, Responses!DeltaOf, DeltaOf
<1>2. Completions!BlockTypes = BlockTypes /\ Responses!BlockTypes = BlockTypes
  BY DEF Completions!BlockTypes, Responses!BlockTypes, BlockTypes
<1>3. \A w : Completions!WireType(w) = WireType(w) /\ Responses!WireType(w) = WireType(w)
  BY DEF Completions!WireType, Responses!WireType, WireType
<1>4. \A a, k : /\ Completions!Legal(a, k) <=> Legal(a, k)
                /\ Responses!Legal(a, k) <=> Legal(a, k)
  BY <1>1, <1>2, <1>3 DEF Completions!Legal, Responses!Legal, Legal
<1>5. \A a, k : Completions!Feed(a, k) = Feed(a, k) /\ Responses!Feed(a, k) = Feed(a, k)
  BY <1>1, <1>3 DEF Completions!Feed, Responses!Feed, Feed
<1>6. \A c, k : Completions!Consume(c, k) = Consume(c, k) /\ Responses!Consume(c, k) = Consume(c, k)
  BY <1>4, <1>5 DEF Completions!Consume, Responses!Consume, Consume
<1>7. \A s, P : Completions!Pick(s, P) = Pick(s, P) /\ Responses!Pick(s, P) = Pick(s, P)
  BY DEF Completions!Pick, Responses!Pick, Pick
<1>8. \A chunks : /\ Completions!FedWith(chunks) = FedWith(chunks)
                  /\ Responses!FedWith(chunks) = FedWith(chunks)
  BY <1>6 DEF Completions!FedWith, Responses!FedWith, FedWith
<1>9. \A chunks : /\ Completions!Yields(chunks) <=> Yields(chunks)
                  /\ Responses!Yields(chunks) <=> Yields(chunks)
  BY <1>8 DEF Completions!Yields, Responses!Yields, Yields
<1>10. \A i, block : /\ Completions!StartOf(i, block) = StartOf(i, block)
                     /\ Responses!StartOf(i, block) = StartOf(i, block)
                     /\ Completions!EndOf(i, block) = EndOf(i, block)
                     /\ Responses!EndOf(i, block) = EndOf(i, block)
  BY <1>3 DEF Completions!StartOf, Responses!StartOf, StartOf, Completions!EndOf, Responses!EndOf, EndOf
<1>11. \A i, block, text : /\ Completions!DeltaChunk(i, block, text) = DeltaChunk(i, block, text)
                           /\ Responses!DeltaChunk(i, block, text) = DeltaChunk(i, block, text)
  BY <1>1 DEF Completions!DeltaChunk, Responses!DeltaChunk, DeltaChunk
<1>12. \A b : (Completions!Allot(b) <=> Allot(b)) /\ (Responses!Allot(b) <=> Allot(b))
  BY DEF Completions!Allot, Responses!Allot, Allot
<1>13. \A b, block, text : /\ Completions!Emit(b, block, text) <=> Emit(b, block, text)
                           /\ Responses!Emit(b, block, text) <=> Emit(b, block, text)
  BY <1>9, <1>10, <1>11, <1>12 DEF Completions!Emit, Responses!Emit, Emit
<1>14. \A bs, block : /\ Completions!EndsOf(bs, block) = EndsOf(bs, block)
                      /\ Responses!EndsOf(bs, block) = EndsOf(bs, block)
  BY <1>7, <1>10 DEF Completions!EndsOf, Responses!EndsOf, EndsOf
<1>15. \A kind : Completions!FinishOf(kind) = FinishOf(kind) /\ Responses!FinishOf(kind) = FinishOf(kind)
  BY DEF Completions!FinishOf, Responses!FinishOf, FinishOf
<1>16. Completions!Usage = Usage /\ Responses!Usage = Usage
  BY DEF Completions!Usage, Responses!Usage, Usage
<1> QED BY <1>7, <1>9, <1>10, <1>12, <1>13, <1>14, <1>15, <1>16

-----------------------------------------------------------------------------
(* The streams of OpenAICompletionsAdapter.                                *)

TextKeys == {<<"reasoning", 0>>, <<"text", 0>>}

Entry == [id: BOOLEAN, name: BOOLEAN, arguments: Seq(Deltas), emitted: Nat]

\* Arguments are passed on as soon as the id of a call is known, and its block
\* is started with the first of them.
EntryOK(i) ==
    /\ items[i] \in Entry
    /\ items[i].emitted = IF items[i].id THEN Len(items[i].arguments) ELSE 0
    /\ <<"tool-call", i>> \in DOMAIN blockOf <=> items[i].id /\ items[i].arguments # << >>

\* A chat completion that is not over: no block has been ended, and there are
\* no more of them than items.
CompletionsStream ==
    /\ StreamOK
    /\ received \in Seq(Completions!Item) /\ Len(received) <= MaxItems /\ next_index <= Len(received)
    /\ \A b \in DOMAIN blockOf : /\ b \in TextKeys \/ \E i \in DOMAIN items : b = <<"tool-call", i>>
                                 /\ asm.open[blockOf[b]] = b[1]
    /\ \A i \in DOMAIN items : EntryOK(i)

\* What the emission of a delta leaves of the invariant to prove.
LEMMA CompletionsEmits ==
    ASSUME CompletionsStream, NEW k \in Completions!Item, received' = Append(received, k),
           Len(received) < MaxItems, 0..(MaxItems - 1) \subseteq Indexes,
           NEW b, b \in TextKeys \/ \E i \in DOMAIN items' : b = <<"tool-call", i>>,
           DOMAIN items \subseteq DOMAIN items',
           NEW text, Emit(b, b[1], text), \A i \in DOMAIN items' : EntryOK(i)'
    PROVE  CompletionsStream'
<1>1. /\ StreamOK /\ received \in Seq(Completions!Item)
      /\ next_index \in Nat /\ next_index <= Len(received) /\ MaxItems \in Nat
      /\ \A c \in DOMAIN blockOf : /\ c \in TextKeys \/ \E i \in DOMAIN items : c = <<"tool-call", i>>
                                   /\ asm.open[blockOf[c]] = c[1]
  BY AdaptersAssumption DEF CompletionsStream, StreamOK
<1>2. received' \in Seq(Completions!Item) /\ Len(received') = Len(received) + 1
  BY <1>1
<1>3. b[1] \in BlockTypes
  BY DEF TextKeys, BlockTypes
<1>4. IF b \in DOMAIN blockOf THEN asm.open[blockOf[b]] = b[1] ELSE next_index \in Indexes
  <2>1. next_index \in 0..(MaxItems - 1)
    BY <1>1
  <2> QED BY <1>1, <2>1
<1>5. /\ StreamOK'
      /\ DOMAIN blockOf' = DOMAIN blockOf \cup {b}
      /\ \A c \in DOMAIN blockOf : blockOf'[c] = blockOf[c]
      /\ next_index' = IF b \in DOMAIN blockOf THEN next_index ELSE next_index + 1
      /\ asm'.open[blockOf'[b]] = b[1]
      /\ \A c \in DOMAIN blockOf : c # b => asm'.open[blockOf[c]] = asm.open[blockOf[c]]
  BY <1>1, <1>3, <1>4, EmitKeeps
<1>6. next_index' <= Len(received') /\ Len(received') <= MaxItems
  BY <1>1, <1>2, <1>5
<1>7. ASSUME NEW c \in DOMAIN blockOf'
      PROVE  /\ c \in TextKeys \/ \E i \in DOMAIN items' : c = <<"tool-call", i>>
             /\ asm'.open[blockOf'[c]] = c[1]
  <2>1. CASE c = b
    BY <1>5, <2>1
  <2>2. CASE c # b
    <3>1. c \in DOMAIN blockOf
      BY <1>5, <2>2
    <3> QED BY <1>1, <1>5, <2>2, <3>1
  <2> QED BY <2>1, <2>2
<1> QED BY <1>2, <1>5, <1>6, <1>7 DEF CompletionsStream

\* An item nothing is yielded for.
LEMMA CompletionsStays ==
    ASSUME CompletionsStream, NEW k \in Completions!Item, received' = Append(received, k),
           Len(received) < MaxItems, UNCHANGED <<blockOf, next_index, asm, refused>>,
           DOMAIN items \subseteq DOMAIN items', \A i \in DOMAIN items' : EntryOK(i)'
    PROVE  CompletionsStream'
<1>1. received \in Seq(Completions!Item) /\ next_index \in Nat /\ next_index <= Len(received) /\ MaxItems \in Nat
  BY AdaptersAssumption DEF CompletionsStream, StreamOK
<1>2. received' \in Seq(Completions!Item) /\ Len(received') = Len(received) + 1
  BY <1>1
<1>3. next_index' <= Len(received') /\ Len(received') <= MaxItems
  BY <1>1, <1>2
<1>4. StreamOK'
  BY DEF CompletionsStream, StreamOK
<1>5. \A b \in DOMAIN blockOf' : /\ b \in TextKeys \/ \E i \in DOMAIN items' : b = <<"tool-call", i>>
                                  /\ asm'.open[blockOf'[b]] = b[1]
  BY DEF CompletionsStream
<1> QED BY <1>2, <1>3, <1>4, <1>5 DEF CompletionsStream

LEMMA ItemCases ==
    ASSUME NEW k \in Completions!Item
    PROVE  /\ k.type \in Completions!Texts => k.text \in Deltas
           /\ k.type = "tool" => /\ k.id \in BOOLEAN /\ k.name \in BOOLEAN
                                 /\ k.arguments \in Seq(Deltas) /\ k.index \in Wires \cup {None}
<1> DEFINE fragments == {<< >>} \cup {<<f>> : f \in Deltas}
<1>1. ASSUME NEW a \in fragments PROVE a \in Seq(Deltas)
  <2>1. CASE a = << >>
    BY <2>1
  <2>2. CASE \E f \in Deltas : a = <<f>>
    BY <2>2
  <2> QED BY <2>1, <2>2
<1> HIDE DEF fragments
<1>2. CASE k \in [type: {"tool"}, index: Wires \cup {None}, id: BOOLEAN, name: BOOLEAN, arguments: fragments]
  BY <1>1, <1>2 DEF Completions!Texts
<1>3. CASE k \in [type: Completions!Texts, text: Deltas]
  BY <1>3 DEF Completions!Texts
<1>4. CASE k \in [type: {"usage"}] \cup [type: {"finish"}, reason: DOMAIN Completions!KindOf \cup {"other"}]
  BY <1>4 DEF Completions!Texts
<1> QED BY <1>2, <1>3, <1>4 DEF Completions!Item, fragments

LEMMA TextItemKeeps ==
    ASSUME CompletionsStream, NEW k \in Completions!Item, received' = Append(received, k),
           Len(received) < MaxItems, 0..(MaxItems - 1) \subseteq Indexes, Completions!TextItem(k)
    PROVE  CompletionsStream'
<1> DEFINE b == <<k.type, 0>>
<1>1. b \in TextKeys /\ b[1] = k.type /\ Emit(b, b[1], <<k.text>>) /\ items' = items
  BY SameBase DEF Completions!TextItem, Completions!Texts, TextKeys
<1>2. DOMAIN blockOf' \subseteq DOMAIN blockOf \cup {b} /\ DOMAIN blockOf \subseteq DOMAIN blockOf'
  BY <1>1 DEF Emit, Allot
<1>3. ASSUME NEW i \in DOMAIN items' PROVE EntryOK(i)'
  <2>1. EntryOK(i) /\ b # <<"tool-call", i>>
    BY <1>1 DEF CompletionsStream, TextKeys
  <2> QED BY <1>1, <1>2, <2>1 DEF EntryOK
<1> HIDE DEF b
<1> QED BY <1>1, <1>3, CompletionsEmits

\* The entry of a call with one more delta.
LEMMA EntryAdded ==
    ASSUME CompletionsStream, NEW k \in Completions!Item, k.type = "tool", NEW i
    PROVE  LET known == i \in DOMAIN items
               arguments == IF known THEN items[i].arguments ELSE << >>
               entry == Completions!Entry(k, i)
           IN  /\ entry \in Entry
               /\ entry.id <=> (known /\ items[i].id) \/ k.id
               /\ entry.arguments = arguments \o k.arguments
               /\ entry.emitted = IF known THEN items[i].emitted ELSE 0
               /\ k.arguments \in Seq(Deltas) /\ arguments \in Seq(Deltas)
<1> DEFINE old == IF i \in DOMAIN items THEN items[i]
                  ELSE [id |-> FALSE, name |-> FALSE, arguments |-> << >>, emitted |-> 0]
<1>1. k.id \in BOOLEAN /\ k.name \in BOOLEAN /\ k.arguments \in Seq(Deltas)
  BY ItemCases
<1>2. old \in Entry
  <2>1. CASE i \in DOMAIN items
    BY <2>1 DEF CompletionsStream, EntryOK
  <2>2. CASE i \notin DOMAIN items
    BY <2>2 DEF Entry
  <2> QED BY <2>1, <2>2
<1>3. Completions!Entry(k, i) = [old EXCEPT !.id = @ \/ k.id, !.name = @ \/ k.name, !.arguments = @ \o k.arguments]
  BY DEF Completions!Entry
<1>4. /\ i \in DOMAIN items => old = items[i]
      /\ i \notin DOMAIN items => old.id = FALSE /\ old.arguments = << >> /\ old.emitted = 0
  OBVIOUS
<1> HIDE DEF old
<1>5. old.id \in BOOLEAN /\ old.name \in BOOLEAN /\ old.arguments \in Seq(Deltas) /\ old.emitted \in Nat
      /\ old = [id |-> old.id, name |-> old.name, arguments |-> old.arguments, emitted |-> old.emitted]
  BY <1>2 DEF Entry
<1>6. Completions!Entry(k, i) = [id |-> old.id \/ k.id, name |-> old.name \/ k.name,
                                 arguments |-> old.arguments \o k.arguments, emitted |-> old.emitted]
  BY <1>3, <1>5
<1>7. old.arguments \o k.arguments \in Seq(Deltas)
  BY <1>1, <1>5
<1> DEFINE entry == Completions!Entry(k, i)
<1>8. /\ entry \in Entry /\ entry.arguments = old.arguments \o k.arguments /\ entry.emitted = old.emitted
      /\ (entry.id <=> old.id \/ k.id)
  BY <1>1, <1>5, <1>6, <1>7 DEF Entry
<1> HIDE DEF entry
<1>9. CASE i \in DOMAIN items
  BY <1>1, <1>4, <1>5, <1>8, <1>9 DEF entry
<1>10. CASE i \notin DOMAIN items
  BY <1>1, <1>4, <1>5, <1>8, <1>10 DEF entry
<1> QED BY <1>9, <1>10

LEMMA ToolItemKeeps ==
    ASSUME CompletionsStream, NEW k \in Completions!Item, received' = Append(received, k),
           Len(received) < MaxItems, 0..(MaxItems - 1) \subseteq Indexes, Completions!ToolItem(k)
    PROVE  CompletionsStream'
<1> DEFINE i == Completions!IndexOf(k)
           b == <<"tool-call", i>>
           known == i \in DOMAIN items
           old == IF known THEN items[i].arguments ELSE << >>
           entry == Completions!Entry(k, i)
           passes == entry.id /\ Len(entry.arguments) > entry.emitted
           kept == IF passes THEN [entry EXCEPT !.emitted = Len(entry.arguments)] ELSE entry
<1>1. /\ k.type = "tool"
      /\ items' = [j \in DOMAIN items \cup {i} |-> IF j = i THEN kept ELSE items[j]]
      /\ IF passes THEN Emit(b, "tool-call", Completions!Fragment(entry))
                    ELSE UNCHANGED <<blockOf, next_index, asm, refused>>
  BY SameBase DEF Completions!ToolItem
<1>2. /\ entry \in Entry
      /\ entry.id <=> (known /\ items[i].id) \/ k.id
      /\ entry.arguments = old \o k.arguments
      /\ entry.emitted = IF known THEN items[i].emitted ELSE 0
      /\ k.arguments \in Seq(Deltas) /\ old \in Seq(Deltas)
  BY <1>1, EntryAdded
<1> HIDE DEF i, entry
<1>3. /\ known => /\ items[i] \in Entry /\ items[i].emitted = IF items[i].id THEN Len(old) ELSE 0
                  /\ (b \in DOMAIN blockOf <=> items[i].id /\ old # << >>)
      /\ ~known => b \notin DOMAIN blockOf /\ old = << >>
  BY DEF CompletionsStream, EntryOK, TextKeys
<1> HIDE DEF known, old
<1>4. /\ Len(entry.arguments) = Len(old) + Len(k.arguments) /\ Len(old) \in Nat /\ Len(k.arguments) \in Nat
      /\ entry.arguments \in Seq(Deltas)
  BY <1>2
<1>5. kept \in Entry /\ (kept.id <=> entry.id) /\ kept.arguments = entry.arguments
      /\ kept.emitted = IF passes THEN Len(entry.arguments) ELSE entry.emitted
  <2>1. entry = [id |-> entry.id, name |-> entry.name, arguments |-> entry.arguments, emitted |-> entry.emitted]
    BY <1>2 DEF Entry
  <2>2. CASE passes
    <3>1. kept = [id |-> entry.id, name |-> entry.name, arguments |-> entry.arguments,
                  emitted |-> Len(entry.arguments)]
      BY <2>1, <2>2
    <3>2. entry.id \in BOOLEAN /\ entry.name \in BOOLEAN /\ Len(entry.arguments) \in Nat
      BY <1>2, <1>4 DEF Entry
    <3> QED BY <1>4, <2>2, <3>1, <3>2 DEF Entry
  <2>3. CASE ~passes
    BY <1>2, <2>3
  <2> QED BY <2>2, <2>3
<1> HIDE DEF kept
<1>6. entry.arguments = << >> <=> Len(entry.arguments) = 0
  BY <1>4
<1>7. old = << >> <=> Len(old) = 0
  BY <1>2
<1>8. entry.id \in BOOLEAN /\ (known => items[i].id \in BOOLEAN)
  BY <1>2, <1>3 DEF Entry
<1>9. kept.emitted = IF kept.id THEN Len(kept.arguments) ELSE 0
  <2>1. CASE passes
    BY <1>5, <2>1
  <2>2. CASE ~entry.id
    <3>1. ~passes /\ (known => ~items[i].id)
      BY <1>2, <2>2
    <3> QED BY <1>2, <1>3, <1>5, <2>2, <3>1
  <2>3. CASE entry.id /\ ~passes
    <3>1. Len(entry.arguments) <= entry.emitted
      BY <1>2, <1>4, <2>3 DEF Entry
    <3>2. entry.emitted = Len(entry.arguments)
      BY <1>2, <1>4, <1>3, <1>7, <3>1
    <3> QED BY <1>5, <2>3, <3>2
  <2> QED BY <2>1, <2>2, <2>3
<1>10. passes \/ (b \in DOMAIN blockOf <=> kept.id /\ kept.arguments # << >>)
  <2> SUFFICES ASSUME ~passes PROVE b \in DOMAIN blockOf <=> entry.id /\ entry.arguments # << >>
    BY <1>5
  <2>1. CASE ~entry.id
    BY <1>2, <1>3, <2>1
  <2>2. CASE entry.id
    <3>1. Len(entry.arguments) <= entry.emitted
      BY <1>2, <1>4, <2>2 DEF Entry
    <3>2. CASE known /\ items[i].id
      BY <1>2, <1>4, <1>3, <1>6, <1>7, <2>2, <3>1, <3>2
    <3>3. CASE ~(known /\ items[i].id)
      BY <1>2, <1>4, <1>3, <1>6, <1>7, <2>2, <3>1, <3>3
    <3> QED BY <3>2, <3>3
  <2> QED BY <2>1, <2>2
<1>11. /\ DOMAIN items' = DOMAIN items \cup {i} /\ items'[i] = kept
       /\ \A j \in DOMAIN items \ {i} : items'[j] = items[j]
  BY <1>1
<1>12. CASE passes
  <2>1. Emit(b, b[1], Completions!Fragment(entry)) /\ entry.id /\ entry.arguments # << >>
    BY <1>1, <1>2, <1>6, <1>12 DEF Entry
  <2>2. DOMAIN blockOf' = DOMAIN blockOf \cup {b}
    BY <2>1 DEF Emit, Allot
  <2>3. ASSUME NEW j \in DOMAIN items' PROVE EntryOK(j)'
    <3>1. CASE j = i
      BY <1>5, <1>9, <1>11, <2>1, <2>2, <3>1 DEF EntryOK
    <3>2. CASE j # i
      <4>1. EntryOK(j) /\ b # <<"tool-call", j>> /\ items'[j] = items[j]
        BY <1>11, <3>2 DEF CompletionsStream
      <4> QED BY <2>2, <4>1 DEF EntryOK
    <3> QED BY <3>1, <3>2
  <2>4. b \in TextKeys \/ \E j \in DOMAIN items' : b = <<"tool-call", j>>
    BY <1>11
  <2> HIDE DEF b
  <2> QED BY <1>11, <2>1, <2>3, <2>4, CompletionsEmits
<1>13. CASE ~passes
  <2>1. UNCHANGED <<blockOf, next_index, asm, refused>>
    BY <1>1, <1>13
  <2>2. ASSUME NEW j \in DOMAIN items' PROVE EntryOK(j)'
    <3>1. CASE j = i
      BY <1>5, <1>9, <1>10, <1>11, <1>13, <2>1, <3>1 DEF EntryOK
    <3>2. CASE j # i
      BY <1>11, <2>1, <3>2 DEF CompletionsStream, EntryOK
    <3> QED BY <3>1, <3>2
  <2> QED BY <1>11, <2>1, <2>2, CompletionsStays
<1> QED BY <1>12, <1>13

LEMMA OtherItemKeeps ==
    ASSUME CompletionsStream, NEW k \in Completions!Item, received' = Append(received, k),
           Len(received) < MaxItems, Completions!OtherItem(k)
    PROVE  CompletionsStream'
<1>1. UNCHANGED <<items, blockOf, next_index, asm, refused>>
  BY DEF Completions!OtherItem
<1>2. \A i \in DOMAIN items' : EntryOK(i)'
  BY <1>1 DEF CompletionsStream, EntryOK
<1> QED BY <1>1, <1>2, CompletionsStays
\* A stream is complete for the assembler if the blocks its end does not close
\* were closed before.
LEMMA ValidAtEnd ==
    ASSUME StreamOK, NEW bs, bs \subseteq DOMAIN blockOf, asm'.finish # None,
           asm'.open = [i \in Indexes |-> IF i \in {blockOf[b] : b \in bs} THEN None ELSE asm.open[i]]
    PROVE  Valid(asm') <=> \A b \in DOMAIN blockOf \ bs : asm.open[blockOf[b]] = None
<1>1. \A b \in DOMAIN blockOf : blockOf[b] \in Indexes
  BY DEF StreamOK
<1>2. \A b, c \in DOMAIN blockOf : blockOf[b] = blockOf[c] => b = c
  BY DEF StreamOK
<1>3. ASSUME Valid(asm'), NEW b \in DOMAIN blockOf \ bs PROVE asm.open[blockOf[b]] = None
  <2>1. blockOf[b] \notin {blockOf[c] : c \in bs}
    BY <1>2, <1>3
  <2>2. asm'.open[blockOf[b]] = None
    BY <1>1, <1>3 DEF Valid
  <2> QED BY <1>1, <2>1, <2>2
<1>4. ASSUME \A b \in DOMAIN blockOf \ bs : asm.open[blockOf[b]] = None, NEW i \in Indexes
      PROVE  asm'.open[i] = None
  <2>1. CASE asm.open[i] = None
    BY <2>1
  <2>2. CASE asm.open[i] # None
    <3>1. PICK b \in DOMAIN blockOf : blockOf[b] = i
      BY <2>2 DEF StreamOK
    <3>2. b \in bs
      BY <1>4, <2>2, <3>1
    <3> QED BY <3>1, <3>2
  <2> QED BY <2>1, <2>2
<1> QED BY <1>3, <1>4 DEF Valid

LEMMA ConcatOnes == ASSUME NEW x, NEW y PROVE <<x>> \o <<y>> = <<x, y>> /\ << >> \o <<y>> = <<y>>
<1> DEFINE s == <<x>> \o <<y>>
           t == << >> \o <<y>>
<1>1. <<x>> \in Seq({x, y}) /\ <<y>> \in Seq({x, y}) /\ <<x, y>> \in Seq({x, y}) /\ << >> \in Seq({x, y})
  OBVIOUS
<1>2. s \in Seq({x, y}) /\ Len(s) = 2 /\ s[1] = x /\ s[2] = y
  BY <1>1
<1>3. t \in Seq({x, y}) /\ Len(t) = 1 /\ t[1] = y
  BY <1>1
<1> HIDE DEF s, t
<1>4. s = <<x, y>> /\ t = <<y>>
  BY <1>1, <1>2, <1>3
<1> QED BY <1>4 DEF s, t

\* Of a list of chunks: a usage, if there was one, and the finish.
LEMMA LastIs ==
    ASSUME NEW kind
    PROVE  LastOf((IF usage THEN <<Usage>> ELSE << >>) \o <<FinishOf(kind)>>, kind)
<1>1. CASE usage
  <2>1. <<Usage>> \o <<FinishOf(kind)>> = <<Usage, FinishOf(kind)>>
    BY ConcatOnes
  <2> QED BY <1>1, <2>1 DEF LastOf
<1>2. CASE ~usage
  <2>1. << >> \o <<FinishOf(kind)>> = <<FinishOf(kind)>>
    OBVIOUS
  <2> QED BY <1>2, <2>1 DEF LastOf
<1> QED BY <1>1, <1>2

\* The blocks the end of a chat completion closes.
ClosedKeys ==
    Completions!Started("reasoning", {0}) \cup Completions!Started("text", {0})
    \cup Completions!Started("tool-call", {i \in Completions!Named : \A j \in Completions!Blockless : i < j})

CompletionsKind == IF Completions!Blockless # {} THEN "error" ELSE Completions!FinishKind

LEMMA CompletionsKinds == CompletionsKind \in {"stop", "tool-calls", "max-tokens", "error"}
BY DEF CompletionsKind, Completions!FinishKind, Completions!KindOf

\* The blocks of an adapter's items, one kind after the other.
LEMMA EndsTogether ==
    ASSUME StreamOK, NEW bs, bs \subseteq DOMAIN blockOf, NEW cs, cs \subseteq DOMAIN blockOf, bs \cap cs = {},
           NEW s, EndsOnce(s, {blockOf[b] : b \in bs}), NEW t, EndsOnce(t, {blockOf[b] : b \in cs})
    PROVE  EndsOnce(s \o t, {blockOf[b] : b \in bs \cup cs})
<1> DEFINE S == {blockOf[b] : b \in bs}
           U == {blockOf[b] : b \in cs}
<1>1. S \cap U = {}
  BY DEF StreamOK
<1>2. {blockOf[b] : b \in bs \cup cs} = S \cup U
  OBVIOUS
<1> HIDE DEF S, U
<1>3. EndsOnce(s, S) /\ EndsOnce(t, U)
  BY DEF S, U
<1>4. EndsOnce(s \o t, S \cup U)
  BY <1>1, <1>3, EndsConcat
<1> QED BY <1>2, <1>4

LEMMA CompletionsEnds ==
    ASSUME CompletionsStream
    PROVE  /\ ClosedKeys \subseteq DOMAIN blockOf
           /\ EndsOnce(Completions!BlockEnds, {blockOf[b] : b \in ClosedKeys})
<1> DEFINE Rs == Completions!Started("reasoning", {0})
           Ts == Completions!Started("text", {0})
           Cs == Completions!Started("tool-call", {i \in Completions!Named : \A j \in Completions!Blockless : i < j})
<1>1. /\ Rs \subseteq DOMAIN blockOf /\ Ts \subseteq DOMAIN blockOf /\ Cs \subseteq DOMAIN blockOf
      /\ \A b \in Rs : b[1] = "reasoning"
      /\ \A b \in Ts : b[1] = "text"
      /\ \A b \in Cs : b[1] = "tool-call"
  BY DEF Completions!Started
<1>2. ClosedKeys = (Rs \cup Ts) \cup Cs
  BY DEF ClosedKeys
<1>3. Completions!BlockEnds = (EndsOf(Rs, "reasoning") \o EndsOf(Ts, "text")) \o EndsOf(Cs, "tool-call")
  BY SameBase DEF Completions!BlockEnds
<1> HIDE DEF Rs, Ts, Cs
<1>4. StreamOK /\ \A b \in DOMAIN blockOf : asm.open[blockOf[b]] = b[1]
  BY DEF CompletionsStream
<1>5. {"reasoning", "text", "tool-call"} \subseteq BlockTypes
  BY DEF BlockTypes
<1>6. EndsOnce(EndsOf(Rs, "reasoning"), {blockOf[b] : b \in Rs})
  <2>1. \A b \in Rs : asm.open[blockOf[b]] = "reasoning"
    BY <1>1, <1>4
  <2> QED BY <1>1, <1>4, <1>5, <2>1, EndsOfOnce
<1>7. EndsOnce(EndsOf(Ts, "text"), {blockOf[b] : b \in Ts})
  <2>1. \A b \in Ts : asm.open[blockOf[b]] = "text"
    BY <1>1, <1>4
  <2> QED BY <1>1, <1>4, <1>5, <2>1, EndsOfOnce
<1>8. EndsOnce(EndsOf(Cs, "tool-call"), {blockOf[b] : b \in Cs})
  <2>1. \A b \in Cs : asm.open[blockOf[b]] = "tool-call"
    BY <1>1, <1>4
  <2> QED BY <1>1, <1>4, <1>5, <2>1, EndsOfOnce
<1>9. Rs \cap Ts = {} /\ (Rs \cup Ts) \cap Cs = {}
  BY <1>1
<1>10. EndsOnce(EndsOf(Rs, "reasoning") \o EndsOf(Ts, "text"), {blockOf[b] : b \in Rs \cup Ts})
  BY <1>1, <1>4, <1>6, <1>7, <1>9, EndsTogether
<1>11. Rs \cup Ts \subseteq DOMAIN blockOf
  BY <1>1
<1>12. EndsOnce(Completions!BlockEnds, {blockOf[b] : b \in (Rs \cup Ts) \cup Cs})
  BY <1>1, <1>3, <1>4, <1>8, <1>9, <1>10, <1>11, EndsTogether
<1> QED BY <1>1, <1>2, <1>12

\* A call is closed if it is named, and no other block is left open.
LEMMA CompletionsLeft ==
    ASSUME CompletionsStream, Completions!Blockless = {}
    PROVE  (\A b \in DOMAIN blockOf \ ClosedKeys : asm.open[blockOf[b]] = None) <=> Completions!CallsClosed
<1>1. \A b \in DOMAIN blockOf : /\ b \in TextKeys \/ \E i \in DOMAIN items : b = <<"tool-call", i>>
                                /\ asm.open[blockOf[b]] = b[1] /\ b[1] # None
  BY AssemblerAssumption DEF CompletionsStream, TextKeys, BlockTypes
<1>2. ClosedKeys = {b \in DOMAIN blockOf : b \in TextKeys \/ \E i \in Completions!Named : b = <<"tool-call", i>>}
  BY DEF ClosedKeys, Completions!Started, TextKeys
<1>3. ASSUME Completions!CallsClosed, NEW b \in DOMAIN blockOf PROVE b \in ClosedKeys
  <2>1. CASE b \in TextKeys
    BY <1>2, <2>1
  <2>2. CASE \E i \in DOMAIN items : b = <<"tool-call", i>>
    <3>1. PICK i \in DOMAIN items : b = <<"tool-call", i>>
      BY <2>2
    <3>2. items[i].id /\ items[i].arguments # << >>
      BY <3>1 DEF CompletionsStream, EntryOK
    <3>3. i \in Completions!Named
      BY <1>3, <3>2 DEF Completions!CallsClosed, Completions!Named
    <3> QED BY <1>2, <3>1, <3>3
  <2> QED BY <1>1, <2>1, <2>2
<1>4. ASSUME DOMAIN blockOf \subseteq ClosedKeys, NEW i \in DOMAIN items, items[i].id, items[i].arguments # << >>
      PROVE  items[i].name
  <2>1. <<"tool-call", i>> \in DOMAIN blockOf
    BY <1>4 DEF CompletionsStream, EntryOK
  <2>2. PICK j \in Completions!Named : <<"tool-call", i>> = <<"tool-call", j>>
    BY <1>2, <1>4, <2>1 DEF TextKeys
  <2> QED BY <2>2 DEF Completions!Named
<1>5. (\A b \in DOMAIN blockOf \ ClosedKeys : asm.open[blockOf[b]] = None) <=> DOMAIN blockOf \subseteq ClosedKeys
  BY <1>1
<1> QED BY <1>3, <1>4, <1>5 DEF Completions!CallsClosed

\* The end of a chat completion.
LEMMA CompletionsCloses ==
    ASSUME CompletionsStream, Completions!CloseStream
    PROVE  /\ ~refused' /\ asm'.finish = CompletionsKind /\ asm'.text = asm.text
           /\ \A i \in Indexes : asm'.open[i] \in {None, "tool-call"}
           /\ asm'.finish \in {"stop", "tool-calls", "max-tokens"} =>
                /\ Valid(asm') <=> Completions!CallsClosed
                /\ \A b \in ClosedKeys : asm'.blocks[blockOf[b]] = EndedAs(asm, blockOf[b])
<1> DEFINE S == {blockOf[b] : b \in ClosedKeys}
           ends == Completions!BlockEnds
           last == Completions!LastChunks
<1>1. StreamOK /\ ClosedKeys \subseteq DOMAIN blockOf /\ EndsOnce(ends, S)
  BY CompletionsEnds DEF CompletionsStream
<1>2. Yields(ends \o last)
  BY SameBase DEF Completions!CloseStream
<1>3. LastOf(last, CompletionsKind)
  <2>1. CASE Completions!Blockless # {}
    BY <2>1, SameBase DEF LastOf, Completions!LastChunks, CompletionsKind
  <2>2. CASE Completions!Blockless = {}
    <3>1. last = (IF usage THEN <<Usage>> ELSE << >>) \o <<FinishOf(CompletionsKind)>>
      BY <2>2, SameBase DEF Completions!LastChunks, CompletionsKind
    <3> HIDE DEF last
    <3> QED BY <3>1, LastIs
  <2> QED BY <2>1, <2>2
<1> HIDE DEF S, ends, last
<1>4. /\ ~refused' /\ asm'.finish = CompletionsKind /\ asm'.text = asm.text
      /\ asm'.open = [i \in Indexes |-> IF i \in S THEN None ELSE asm.open[i]]
      /\ asm'.blocks = [i \in Indexes |-> IF i \in S THEN EndedAs(asm, i) ELSE asm.blocks[i]]
  BY <1>1, <1>2, <1>3, TailYields
<1>5. \A b \in ClosedKeys : asm'.blocks[blockOf[b]] = EndedAs(asm, blockOf[b])
  <2>1. \A b \in ClosedKeys : blockOf[b] \in S /\ blockOf[b] \in Indexes
    BY <1>1 DEF S, StreamOK
  <2> QED BY <1>4, <2>1
<1>6. ASSUME asm'.finish \in {"stop", "tool-calls", "max-tokens"}
      PROVE  Valid(asm') <=> Completions!CallsClosed
  <2>1. Completions!Blockless = {}
    BY <1>4, <1>6 DEF CompletionsKind
  <2>2. asm'.finish # None
    BY <1>6, AdaptersAssumption
  <2>3. asm'.open = [i \in Indexes |-> IF i \in {blockOf[b] : b \in ClosedKeys} THEN None ELSE asm.open[i]]
    BY <1>4 DEF S
  <2>4. Valid(asm') <=> \A b \in DOMAIN blockOf \ ClosedKeys : asm.open[blockOf[b]] = None
    BY <1>1, <2>2, <2>3, ValidAtEnd
  <2> QED BY <2>1, <2>4, CompletionsLeft
<1>7. ASSUME NEW i \in Indexes, asm'.open[i] # None PROVE asm'.open[i] = "tool-call"
  <2>1. i \notin S /\ asm'.open[i] = asm.open[i]
    BY <1>4, <1>7
  <2>2. PICK b \in DOMAIN blockOf : blockOf[b] = i
    BY <1>1, <1>7, <2>1 DEF StreamOK
  <2>3. b \notin ClosedKeys
    BY <2>1, <2>2 DEF S
  <2>4. b \notin TextKeys
    BY <2>3 DEF ClosedKeys, Completions!Started, TextKeys
  <2>5. asm.open[blockOf[b]] = b[1] /\ \E j \in DOMAIN items : b = <<"tool-call", j>>
    BY <2>4 DEF CompletionsStream
  <2> QED BY <2>1, <2>2, <2>5
<1> QED BY <1>4, <1>5, <1>6, <1>7
-----------------------------------------------------------------------------
(* The streams of OpenAIResponsesAdapter.                                  *)

\* A list with one more element, each of them mapped.
LEMMA MapAppend ==
    ASSUME NEW T, NEW U, NEW d \in Seq(T), NEW e \in T, NEW f \in [T -> U]
    PROVE  /\ [n \in DOMAIN d |-> f[d[n]]] \in Seq(U)
           /\ [n \in DOMAIN Append(d, e) |-> f[Append(d, e)[n]]] = Append([n \in DOMAIN d |-> f[d[n]]], f[e])
<1> DEFINE t == Append(d, e)
           m == [n \in DOMAIN d |-> f[d[n]]]
           r == [n \in DOMAIN t |-> f[t[n]]]
           q == Append(m, f[e])
<1>1. /\ t \in Seq(T) /\ Len(t) = Len(d) + 1 /\ t[Len(d) + 1] = e /\ Len(d) \in Nat
      /\ \A n \in 1..Len(d) : t[n] = d[n] /\ d[n] \in T
      /\ DOMAIN t = 1..Len(t) /\ DOMAIN d = 1..Len(d)
  OBVIOUS
<1>2. f[e] \in U /\ \A n \in 1..Len(d) : f[d[n]] \in U
  BY <1>1
<1>3. m \in Seq(U) /\ Len(m) = Len(d) /\ \A n \in 1..Len(d) : m[n] = f[d[n]]
  BY <1>1, <1>2
<1>4. DOMAIN r = 1..(Len(d) + 1) /\ r[Len(d) + 1] = f[e] /\ \A n \in 1..Len(d) : r[n] = f[d[n]]
  <2>1. Len(d) + 1 \in DOMAIN t /\ \A n \in 1..Len(d) : n \in DOMAIN t
    BY <1>1
  <2> HIDE DEF t
  <2> QED BY <1>1, <2>1
<1>5. r = [n \in DOMAIN r |-> r[n]]
  OBVIOUS
<1> HIDE DEF m, r
<1>6. q \in Seq(U) /\ Len(q) = Len(d) + 1 /\ q[Len(d) + 1] = f[e] /\ \A n \in 1..Len(d) : q[n] = m[n]
  BY <1>2, <1>3
<1> HIDE DEF q
<1>7. DOMAIN q = 1..(Len(d) + 1) /\ q = [n \in DOMAIN q |-> q[n]]
  BY <1>6
<1>8. \A n \in 1..(Len(d) + 1) : r[n] = q[n]
  <2>1. \A n \in 1..(Len(d) + 1) : n \in 1..Len(d) \/ n = Len(d) + 1
    BY <1>1
  <2> QED BY <1>3, <1>4, <1>6, <2>1
<1>9. r = q
  BY <1>4, <1>5, <1>7, <1>8
<1> QED BY <1>3, <1>9 DEF m, r, q

\* The deltas of an item the provider has sent.
DeltasSent(i) ==
    LET deltas == Pick(received, {n \in DOMAIN received : received[n].type = "delta" /\ received[n].id = i})
    IN  [n \in DOMAIN deltas |-> <<deltas[n].text>>]

LEMMA EventCases ==
    ASSUME NEW k \in Responses!Event
    PROVE  /\ k.type \in {"delta", "added", "done", "completed"}
           /\ k.type # "completed" => k.id \in Ids /\ k.kind \in BlockTypes
           /\ k.type = "added" => k.kind = "tool-call"
<1>1. Responses!BlockTypes = BlockTypes
  BY DEF Responses!BlockTypes, BlockTypes
<1> QED BY <1>1 DEF Responses!Event, BlockTypes

\* The list of the events, with one more.
LEMMA EventAdded ==
    ASSUME received \in Seq(Responses!Event), NEW k \in Responses!Event, received' = Append(received, k)
    PROVE  /\ received' \in Seq(Responses!Event)
           /\ \A n \in DOMAIN received : n \in DOMAIN received' /\ received'[n] = received[n]
           /\ \E n \in DOMAIN received' : received'[n] = k
           /\ \A i : DeltasSent(i)' = IF k.type = "delta" /\ k.id = i THEN Append(DeltasSent(i), <<k.text>>)
                                      ELSE DeltasSent(i)
<1> DEFINE E == Responses!Event
           L == Len(received)
           f == [e \in E |-> <<e.text>>]
           U == {<<e.text>> : e \in E}
<1>1. /\ received' \in Seq(E) /\ DOMAIN received' = 1..(L + 1) /\ DOMAIN received = 1..L /\ L \in Nat
      /\ \A n \in 1..L : received'[n] = received[n]
      /\ received'[L + 1] = k /\ Len(received') = L + 1
  OBVIOUS
<1>2. \A n \in DOMAIN received : n \in DOMAIN received' /\ received'[n] = received[n]
  BY <1>1
<1>3. \E n \in DOMAIN received' : received'[n] = k
  <2>1. L + 1 \in DOMAIN received'
    BY <1>1
  <2> QED BY <1>1, <2>1
<1>4. ASSUME NEW i
      PROVE  DeltasSent(i)' = IF k.type = "delta" /\ k.id = i THEN Append(DeltasSent(i), <<k.text>>)
                              ELSE DeltasSent(i)
  <2> DEFINE P == {n \in DOMAIN received : received[n].type = "delta" /\ received[n].id = i}
             Q == {n \in DOMAIN received' : received'[n].type = "delta" /\ received'[n].id = i}
             old == Pick(received, P)
             new == Pick(received', Q)
  <2>1. \A n \in 1..L : n \in Q <=> n \in P
    BY <1>1
  <2>2. L + 1 \in Q <=> k.type = "delta" /\ k.id = i
    BY <1>1
  <2>3. DeltasSent(i) = [n \in DOMAIN old |-> <<old[n].text>>]
    BY DEF DeltasSent
  <2>4. DeltasSent(i)' = [n \in DOMAIN new |-> <<new[n].text>>]
    BY DEF DeltasSent
  <2> HIDE DEF P, Q
  <2>5. new = IF L + 1 \in Q THEN Append(old, k) ELSE old
    <3> HIDE DEF E
    <3>1. Pick(Append(received, k), Q) = IF Len(received) + 1 \in Q THEN Append(Pick(received, P), k) ELSE Pick(received, P)
      BY <2>1, PickAppend
    <3> QED BY <3>1
  <2>6. old \in Seq(E)
    BY PickTyped
  <2> HIDE DEF old, new, E, L
  <2>7. \A d \in Seq(E) : [n \in DOMAIN d |-> <<d[n].text>>] = [n \in DOMAIN d |-> f[d[n]]]
    OBVIOUS
  <2>8. CASE L + 1 \in Q
    <3>1. new = Append(old, k) /\ Append(old, k) \in Seq(E) /\ k \in E
      BY <2>5, <2>6, <2>8 DEF E
    <3>2. f \in [E -> U]
      OBVIOUS
    <3>3. f[k] = <<k.text>>
      BY <3>1
    <3> HIDE DEF f, U
    <3>4. [n \in DOMAIN Append(old, k) |-> f[Append(old, k)[n]]] = Append([n \in DOMAIN old |-> f[old[n]]], f[k])
      BY <2>6, <3>1, <3>2, MapAppend
    <3>5. DeltasSent(i)' = [n \in DOMAIN Append(old, k) |-> f[Append(old, k)[n]]]
      BY <2>4, <2>7, <3>1
    <3>6. DeltasSent(i) = [n \in DOMAIN old |-> f[old[n]]]
      BY <2>3, <2>6, <2>7
    <3> QED BY <2>2, <2>8, <3>3, <3>4, <3>5, <3>6
  <2>9. CASE L + 1 \notin Q
    <3>1. new = old
      BY <2>5, <2>9
    <3> QED BY <2>2, <2>3, <2>4, <2>9, <3>1
  <2> QED BY <2>8, <2>9
<1> QED BY <1>1, <1>2, <1>3, <1>4
\* An item is of one kind, and only a call is ended before the stream is.
ItemOK(i) ==
    /\ items[i] \in [kind: BlockTypes, ended: BOOLEAN]
    /\ \E n \in DOMAIN received : /\ received[n].type # "completed" /\ received[n].id = i
                                  /\ received[n].kind = items[i].kind
    /\ items[i].ended => /\ items[i].kind = "tool-call" /\ i \in DOMAIN blockOf
                         /\ \E n \in DOMAIN received : received[n].type = "done" /\ received[n].id = i
    /\ items[i].kind # "tool-call" => i \in DOMAIN blockOf

\* Its block has the deltas of the item, and is open until the item is ended.
BlockOK(i) ==
    /\ asm.open[blockOf[i]] = IF items[i].ended THEN None ELSE items[i].kind
    /\ asm.text[blockOf[i]] = DeltasSent(i)
    /\ items[i].ended => asm.blocks[blockOf[i]] = [type |-> "tool-call", text |-> DeltasSent(i)]

\* A Responses stream that is not over.
ResponsesStream ==
    /\ StreamOK
    /\ received \in Seq(Responses!Event)
    /\ DOMAIN items \subseteq Ids /\ DOMAIN blockOf \subseteq DOMAIN items
    /\ next_index = Cardinality(DOMAIN blockOf)
    /\ \A i \in DOMAIN items : ItemOK(i)
    /\ \A i \in DOMAIN blockOf : BlockOK(i)
    /\ \A i : i \notin DOMAIN blockOf => DeltasSent(i) = << >>
    /\ finish_reason \in {"unknown", "stop", "tool-calls", "max-tokens"}

\* There is an index for the block of every item.
EnoughIds == IsFiniteSet(Ids) /\ 0..(Cardinality(Ids) - 1) \subseteq Indexes

\* What the protocol says of the next event of an item there is.
LEMMA Conforming ==
    ASSUME ResponsesStream, NEW k \in Responses!Event, k.type # "completed", Responses!Conforms(k),
           k.id \in DOMAIN items
    PROVE  items[k.id].kind = k.kind /\ ~items[k.id].ended /\ k.type # "added"
<1>1. ItemOK(k.id)
  BY DEF ResponsesStream
<1>2. \A n \in DOMAIN received : received[n].id = k.id =>
        received[n].kind = k.kind /\ received[n].type # "done" /\ k.type # "added"
  BY DEF Responses!Conforms
<1> QED BY <1>1, <1>2 DEF ItemOK

LEMMA WithIs ==
    ASSUME ResponsesStream, NEW k \in Responses!Event, k.type # "completed", Responses!Conforms(k)
    PROVE  LET w == Responses!With(k)
           IN  /\ DOMAIN w = DOMAIN items \cup {k.id}
               /\ w[k.id] \in [kind: BlockTypes, ended: BOOLEAN]
               /\ w[k.id].kind = k.kind /\ ~w[k.id].ended
               /\ \A i \in DOMAIN items : w[i] = items[i]
<1>1. CASE k.id \in DOMAIN items
  <2>1. items[k.id] \in [kind: BlockTypes, ended: BOOLEAN]
    BY <1>1 DEF ResponsesStream, ItemOK
  <2>2. items[k.id].kind = k.kind /\ ~items[k.id].ended
    BY <1>1, Conforming
  <2>3. Responses!With(k) = items
    BY <1>1 DEF Responses!With
  <2> QED BY <1>1, <2>1, <2>2, <2>3
<1>2. CASE k.id \notin DOMAIN items
  <2>1. k.kind \in BlockTypes
    BY EventCases
  <2> QED BY <1>2, <2>1 DEF Responses!With
<1> QED BY <1>1, <1>2

LEMMA ItemStays ==
    ASSUME ResponsesStream, NEW k \in Responses!Event, received' = Append(received, k),
           NEW i \in DOMAIN items, items'[i] = items[i], DOMAIN blockOf \subseteq DOMAIN blockOf'
    PROVE  ItemOK(i)'
<1>1. ItemOK(i) /\ \A n \in DOMAIN received : n \in DOMAIN received' /\ received'[n] = received[n]
  BY EventAdded DEF ResponsesStream
<1> QED BY <1>1 DEF ItemOK

\* An item that is not ended when the event is its.
LEMMA ItemHeard ==
    ASSUME ResponsesStream, NEW k \in Responses!Event, received' = Append(received, k), k.type # "completed",
           items'[k.id] \in [kind: BlockTypes, ended: BOOLEAN], items'[k.id].kind = k.kind,
           items'[k.id].ended <=> k.type = "done",
           k.type = "done" => k.kind = "tool-call",
           k.type \in {"delta", "done"} => k.id \in DOMAIN blockOf'
    PROVE  ItemOK(k.id)'
<1>1. \E n \in DOMAIN received' : received'[n] = k
  BY EventAdded DEF ResponsesStream
<1>2. k.kind \in BlockTypes /\ (k.type = "added" => k.kind = "tool-call") /\ k.type \in {"delta", "added", "done"}
  BY EventCases
<1> QED BY <1>1, <1>2 DEF ItemOK

\* The next block is one of those there are indexes for.
LEMMA IdsLeft ==
    ASSUME ResponsesStream, EnoughIds, NEW b \in Ids, b \notin DOMAIN blockOf
    PROVE  /\ next_index \in Indexes
           /\ Cardinality(DOMAIN blockOf \cup {b}) = next_index + 1
<1>1. DOMAIN blockOf \subseteq Ids /\ IsFiniteSet(Ids) /\ next_index = Cardinality(DOMAIN blockOf)
  BY DEF ResponsesStream, EnoughIds
<1>2. IsFiniteSet(DOMAIN blockOf) /\ Cardinality(DOMAIN blockOf) \in Nat /\ Cardinality(Ids) \in Nat
  BY <1>1, FS_Subset, FS_CardinalityType
<1>3. Cardinality(DOMAIN blockOf) < Cardinality(Ids)
  <2>1. Cardinality(DOMAIN blockOf) <= Cardinality(Ids) /\ DOMAIN blockOf # Ids
    BY <1>1, FS_Subset
  <2>2. Cardinality(DOMAIN blockOf) # Cardinality(Ids)
    BY <1>1, <2>1, FS_Subset
  <2> QED BY <1>2, <2>1, <2>2
<1>4. next_index \in 0..(Cardinality(Ids) - 1)
  BY <1>1, <1>2, <1>3
<1>5. Cardinality(DOMAIN blockOf \cup {b}) = next_index + 1
  BY <1>1, <1>2, FS_AddElement
<1> QED BY <1>4, <1>5 DEF EnoughIds
\* A delta.
LEMMA DeltaEventKeeps ==
    ASSUME ResponsesStream, EnoughIds, NEW k \in Responses!Event, received' = Append(received, k),
           Responses!Conforms(k), Responses!DeltaEvent(k)
    PROVE  ResponsesStream'
<1> DEFINE b == k.id
           text == <<k.text>>
<1>1. /\ k.type = "delta" /\ items' = Responses!With(k) /\ Emit(b, k.kind, text)
      /\ finish_reason' = finish_reason
  BY SameBase DEF Responses!DeltaEvent
<1>2. b \in Ids /\ k.kind \in BlockTypes
  BY <1>1, EventCases
<1>3. /\ DOMAIN items' = DOMAIN items \cup {b} /\ items'[b] \in [kind: BlockTypes, ended: BOOLEAN]
      /\ items'[b].kind = k.kind /\ ~items'[b].ended
      /\ \A i \in DOMAIN items : items'[i] = items[i]
  BY <1>1, WithIs
<1>4. /\ StreamOK /\ DOMAIN items \subseteq Ids /\ DOMAIN blockOf \subseteq DOMAIN items
      /\ \A i \in DOMAIN blockOf : BlockOK(i)
      /\ \A i : i \notin DOMAIN blockOf => DeltasSent(i) = << >>
      /\ next_index = Cardinality(DOMAIN blockOf)
  BY DEF ResponsesStream
<1>5. IF b \in DOMAIN blockOf THEN asm.open[blockOf[b]] = k.kind ELSE next_index \in Indexes
  <2>1. CASE b \in DOMAIN blockOf
    <3>1. items[b].kind = k.kind /\ ~items[b].ended /\ BlockOK(b)
      BY <1>1, <1>4, <2>1, Conforming
    <3> QED BY <2>1, <3>1 DEF BlockOK
  <2>2. CASE b \notin DOMAIN blockOf
    BY <1>2, <2>2, IdsLeft
  <2> QED BY <2>1, <2>2
<1> HIDE DEF text
<1>6. /\ StreamOK'
      /\ DOMAIN blockOf' = DOMAIN blockOf \cup {b}
      /\ \A c \in DOMAIN blockOf : blockOf'[c] = blockOf[c]
      /\ next_index' = IF b \in DOMAIN blockOf THEN next_index ELSE next_index + 1
      /\ asm'.open[blockOf'[b]] = k.kind
      /\ asm'.text[blockOf'[b]] = Append(IF b \in DOMAIN blockOf THEN asm.text[blockOf[b]] ELSE << >>, text)
      /\ asm'.blocks = asm.blocks
      /\ \A c \in DOMAIN blockOf : c # b =>
           /\ asm'.open[blockOf[c]] = asm.open[blockOf[c]]
           /\ asm'.text[blockOf[c]] = asm.text[blockOf[c]]
  BY <1>1, <1>2, <1>4, <1>5, EmitKeeps
<1>7. /\ received' \in Seq(Responses!Event)
      /\ DeltasSent(b)' = Append(DeltasSent(b), text)
      /\ \A i : i # b => DeltasSent(i)' = DeltasSent(i)
  BY <1>1, EventAdded DEF text, ResponsesStream
<1>8. next_index' = Cardinality(DOMAIN blockOf')
  <2>1. CASE b \in DOMAIN blockOf
    BY <1>4, <1>6, <2>1
  <2>2. CASE b \notin DOMAIN blockOf
    BY <1>2, <1>6, <2>2, IdsLeft
  <2> QED BY <2>1, <2>2
<1>9. ASSUME NEW i \in DOMAIN items' PROVE ItemOK(i)'
  <2>1. CASE i = b
    <3>1. k.type # "done" /\ b \in DOMAIN blockOf'
      BY <1>1, <1>6
    <3> QED BY <1>1, <1>3, <2>1, <3>1, ItemHeard
  <2>2. CASE i # b
    BY <1>3, <1>6, <2>2, ItemStays
  <2> QED BY <2>1, <2>2
<1>10. ASSUME NEW i \in DOMAIN blockOf' PROVE BlockOK(i)'
  <2>1. CASE i = b
    <3>1. asm'.text[blockOf'[b]] = DeltasSent(b)'
      <4>1. CASE b \in DOMAIN blockOf
        BY <1>4, <1>6, <1>7, <4>1 DEF BlockOK
      <4>2. CASE b \notin DOMAIN blockOf
        BY <1>4, <1>6, <1>7, <4>2
      <4> QED BY <4>1, <4>2
    <3> QED BY <1>3, <1>6, <2>1, <3>1 DEF BlockOK
  <2>2. CASE i # b
    <3>1. i \in DOMAIN blockOf /\ BlockOK(i) /\ items'[i] = items[i] /\ DeltasSent(i)' = DeltasSent(i)
      BY <1>3, <1>4, <1>6, <1>7, <2>2
    <3> QED BY <1>6, <2>2, <3>1 DEF BlockOK
  <2> QED BY <2>1, <2>2
<1>11. \A i : i \notin DOMAIN blockOf' => DeltasSent(i)' = << >>
  BY <1>4, <1>6, <1>7
<1>12. DOMAIN items' \subseteq Ids /\ DOMAIN blockOf' \subseteq DOMAIN items'
  BY <1>2, <1>3, <1>4, <1>6
<1> QED BY <1>1, <1>6, <1>7, <1>8, <1>9, <1>10, <1>11, <1>12 DEF ResponsesStream

\* An event nothing is yielded for.
LEMMA ResponsesStays ==
    ASSUME ResponsesStream, NEW k \in Responses!Event, received' = Append(received, k), k.type # "delta",
           UNCHANGED <<blockOf, next_index, asm, refused>>,
           DOMAIN items \subseteq DOMAIN items', DOMAIN items' \subseteq Ids,
           \A i \in DOMAIN items : items'[i] = items[i],
           \A i \in DOMAIN items' \ DOMAIN items : ItemOK(i)',
           finish_reason' \in {"unknown", "stop", "tool-calls", "max-tokens"}
    PROVE  ResponsesStream'
<1>1. received' \in Seq(Responses!Event) /\ \A i : DeltasSent(i)' = DeltasSent(i)
  BY EventAdded DEF ResponsesStream
<1>2. \A i \in DOMAIN items' : ItemOK(i)'
  BY ItemStays
<1>3. \A i \in DOMAIN blockOf' : BlockOK(i)'
  BY <1>1 DEF ResponsesStream, BlockOK
<1>4. StreamOK'
  BY DEF ResponsesStream, StreamOK
<1>5. /\ DOMAIN blockOf' \subseteq DOMAIN items' /\ next_index' = Cardinality(DOMAIN blockOf')
      /\ \A i : i \notin DOMAIN blockOf' => DeltasSent(i)' = << >>
  BY <1>1 DEF ResponsesStream
<1> QED BY <1>1, <1>2, <1>3, <1>4, <1>5 DEF ResponsesStream

LEMMA AddedEventKeeps ==
    ASSUME ResponsesStream, NEW k \in Responses!Event, received' = Append(received, k),
           Responses!Conforms(k), Responses!AddedEvent(k)
    PROVE  ResponsesStream'
<1>1. /\ k.type = "added" /\ items' = Responses!With(k)
      /\ UNCHANGED <<blockOf, next_index, finish_reason, asm, refused>>
  BY DEF Responses!AddedEvent
<1>2. /\ DOMAIN items' = DOMAIN items \cup {k.id} /\ items'[k.id] \in [kind: BlockTypes, ended: BOOLEAN]
      /\ items'[k.id].kind = k.kind /\ ~items'[k.id].ended
      /\ \A i \in DOMAIN items : items'[i] = items[i]
  BY <1>1, WithIs
<1>3. k.id \in Ids /\ DOMAIN items \subseteq Ids
  BY <1>1, EventCases DEF ResponsesStream
<1>4. ItemOK(k.id)'
  BY <1>1, <1>2, ItemHeard
<1>5. finish_reason' \in {"unknown", "stop", "tool-calls", "max-tokens"}
  BY <1>1 DEF ResponsesStream
<1>6. \A i \in DOMAIN items' \ DOMAIN items : ItemOK(i)'
  BY <1>2, <1>4
<1> QED BY <1>1, <1>2, <1>3, <1>5, <1>6, ResponsesStays

LEMMA QuietEventKeeps ==
    ASSUME ResponsesStream, NEW k \in Responses!Event, received' = Append(received, k),
           Responses!OtherDone(k) \/ Responses!CompletedEvent(k)
    PROVE  ResponsesStream'
<1>1. UNCHANGED <<items, blockOf, next_index, asm, refused>> /\ k.type # "delta"
  BY DEF Responses!OtherDone, Responses!CompletedEvent, Responses!streamVars
<1>2. finish_reason' \in {"unknown", "stop", "tool-calls", "max-tokens"}
  BY DEF Responses!OtherDone, Responses!CompletedEvent, Responses!streamVars, ResponsesStream
<1>3. DOMAIN items \subseteq Ids
  BY DEF ResponsesStream
<1> QED BY <1>1, <1>2, <1>3, ResponsesStays
\* What remains to be shown of the end of a call, once its block is ended.
LEMMA DoneKeeps ==
    ASSUME ResponsesStream, NEW k \in Responses!Event, received' = Append(received, k),
           Responses!Conforms(k), Responses!DoneEvent(k), StreamOK',
           DOMAIN blockOf' = DOMAIN blockOf \cup {k.id},
           \A i \in DOMAIN blockOf : blockOf'[i] = blockOf[i],
           next_index' = Cardinality(DOMAIN blockOf'),
           asm'.open = [asm.open EXCEPT ![blockOf'[k.id]] = None], asm'.text = asm.text,
           asm.text[blockOf'[k.id]] = DeltasSent(k.id),
           asm'.blocks = [asm.blocks EXCEPT ![blockOf'[k.id]] = [type |-> "tool-call", text |-> DeltasSent(k.id)]]
    PROVE  ResponsesStream'
<1> DEFINE b == k.id
           ended == [type |-> "tool-call", text |-> DeltasSent(b)]
<1>1. k.type = "done" /\ k.kind = "tool-call" /\ items' = [Responses!With(k) EXCEPT ![b].ended = TRUE]
      /\ finish_reason' = IF finish_reason = "unknown" THEN "tool-calls" ELSE finish_reason
  BY DEF Responses!DoneEvent
<1>2. /\ DOMAIN items' = DOMAIN items \cup {b} /\ items'[b] \in [kind: BlockTypes, ended: BOOLEAN]
      /\ items'[b].kind = k.kind /\ items'[b].ended
      /\ \A i \in DOMAIN items \ {b} : items'[i] = items[i]
  <2> DEFINE w == Responses!With(k)
  <2>1. /\ DOMAIN w = DOMAIN items \cup {b} /\ w[b] \in [kind: BlockTypes, ended: BOOLEAN]
        /\ w[b].kind = k.kind /\ ~w[b].ended
        /\ \A i \in DOMAIN items : w[i] = items[i]
    BY <1>1, WithIs
  <2>2. items' = [w EXCEPT ![b].ended = TRUE]
    BY <1>1
  <2> HIDE DEF w
  <2>3. DOMAIN items' = DOMAIN w /\ \A i \in DOMAIN w \ {b} : items'[i] = w[i]
    BY <2>2
  <2> DEFINE r == [w[b] EXCEPT !.ended = TRUE]
  <2>4. items'[b] = r
    BY <2>1, <2>2
  <2>5. r \in [kind: BlockTypes, ended: BOOLEAN] /\ r.ended /\ r.kind = k.kind
    BY <2>1
  <2> HIDE DEF r
  <2> QED BY <2>1, <2>3, <2>4, <2>5
<1>3. /\ b \in Ids /\ DOMAIN items \subseteq Ids /\ DOMAIN blockOf \subseteq DOMAIN items
      /\ \A i \in DOMAIN blockOf : BlockOK(i)
      /\ \A i : i \notin DOMAIN blockOf => DeltasSent(i) = << >>
      /\ DOMAIN asm.text = Indexes /\ DOMAIN asm.blocks = Indexes /\ DOMAIN asm.open = Indexes
  BY <1>1, EventCases DEF ResponsesStream, StreamOK
<1>4. received' \in Seq(Responses!Event) /\ \A i : DeltasSent(i)' = DeltasSent(i)
  BY <1>1, EventAdded DEF ResponsesStream
<1>5. /\ blockOf'[b] \in Indexes
      /\ \A i \in DOMAIN blockOf' : blockOf'[i] \in Indexes /\ (i # b => blockOf'[i] # blockOf'[b])
  BY DEF StreamOK
<1>6. ASSUME NEW i \in DOMAIN items' PROVE ItemOK(i)'
  <2>1. CASE i = b
    BY <1>1, <1>2, <2>1, ItemHeard
  <2>2. CASE i # b
    BY <1>2, <2>2, ItemStays
  <2> QED BY <2>1, <2>2
<1> HIDE DEF ended
<1>7. asm'.blocks = [asm.blocks EXCEPT ![blockOf'[b]] = ended]
  BY DEF ended
<1>8. ASSUME NEW i \in DOMAIN blockOf' PROVE BlockOK(i)'
  <2>1. CASE i = b
    <3>1. asm'.open[blockOf'[b]] = None /\ asm'.text[blockOf'[b]] = DeltasSent(b)' /\ asm'.blocks[blockOf'[b]] = ended
      BY <1>3, <1>4, <1>5, <1>7
    <3>2. ended = [type |-> "tool-call", text |-> DeltasSent(b)']
      BY <1>4 DEF ended
    <3> QED BY <1>2, <2>1, <3>1, <3>2 DEF BlockOK
  <2>2. CASE i # b
    <3>1. i \in DOMAIN blockOf /\ BlockOK(i) /\ items'[i] = items[i] /\ DeltasSent(i)' = DeltasSent(i)
          /\ blockOf'[i] = blockOf[i] /\ blockOf[i] \in Indexes /\ blockOf[i] # blockOf'[b]
      BY <1>2, <1>3, <1>4, <1>5, <2>2
    <3>2. asm'.open[blockOf[i]] = asm.open[blockOf[i]] /\ asm'.blocks[blockOf[i]] = asm.blocks[blockOf[i]]
      BY <1>3, <1>7, <3>1
    <3> QED BY <3>1, <3>2 DEF BlockOK
  <2> QED BY <2>1, <2>2
<1>9. \A i : i \notin DOMAIN blockOf' => DeltasSent(i)' = << >>
  BY <1>3, <1>4
<1>10. DOMAIN items' \subseteq Ids /\ DOMAIN blockOf' \subseteq DOMAIN items'
  BY <1>2, <1>3
<1>11. finish_reason' \in {"unknown", "stop", "tool-calls", "max-tokens"}
  BY <1>1 DEF ResponsesStream
<1> QED BY <1>4, <1>6, <1>8, <1>9, <1>10, <1>11 DEF ResponsesStream

LEMMA DoneEventKeeps ==
    ASSUME ResponsesStream, EnoughIds, NEW k \in Responses!Event, received' = Append(received, k),
           Responses!Conforms(k), Responses!DoneEvent(k)
    PROVE  ResponsesStream'
<1> DEFINE b == k.id
<1>1. /\ k.type = "done" /\ k.kind = "tool-call"
      /\ IF b \in DOMAIN blockOf
           THEN Yields(<<EndOf(blockOf[b], "tool-call")>>) /\ UNCHANGED <<blockOf, next_index>>
           ELSE Yields(<<StartOf(next_index, "tool-call"), EndOf(next_index, "tool-call")>>) /\ Allot(b)
  BY SameBase DEF Responses!DoneEvent
<1>2. /\ b \in Ids /\ "tool-call" \in BlockTypes /\ WireType("tool-call") = "tool-call"
      /\ StreamOK /\ next_index = Cardinality(DOMAIN blockOf)
  BY <1>1, EventCases DEF BlockTypes, WireType, ResponsesStream
<1>3. CASE b \in DOMAIN blockOf
  <2> DEFINE i == blockOf[b]
  <2>1. items[b].kind = "tool-call" /\ ~items[b].ended /\ BlockOK(b)
    BY <1>1, <1>3, Conforming DEF ResponsesStream
  <2>2. i \in Indexes /\ asm.open[i] = "tool-call" /\ asm.text[i] = DeltasSent(b)
    BY <1>2, <1>3, <2>1 DEF BlockOK, StreamOK
  <2>3. /\ StreamOK' /\ asm'.open = [asm.open EXCEPT ![i] = None] /\ asm'.text = asm.text
        /\ asm'.blocks = [asm.blocks EXCEPT ![i] = EndedAs(asm, i)]
    BY <1>1, <1>2, <1>3, <2>2, EndKeeps
  <2>4. EndedAs(asm, i) = [type |-> "tool-call", text |-> DeltasSent(b)]
    BY <1>2, <2>2 DEF EndedAs
  <2>5. blockOf' = blockOf /\ next_index' = next_index /\ blockOf'[b] = i
    BY <1>1, <1>3
  <2>6. DOMAIN blockOf' = DOMAIN blockOf \cup {b}
    BY <1>3, <2>5
  <2> HIDE DEF i
  <2>7. asm'.blocks = [asm.blocks EXCEPT ![i] = [type |-> "tool-call", text |-> DeltasSent(b)]]
    BY <2>3, <2>4
  <2> QED BY <1>2, <2>2, <2>3, <2>5, <2>6, <2>7, DoneKeeps
<1>4. CASE b \notin DOMAIN blockOf
  <2>1. next_index \in Indexes /\ Cardinality(DOMAIN blockOf \cup {b}) = next_index + 1
    BY <1>2, <1>4, IdsLeft
  <2>2. Yields(<<StartOf(next_index, "tool-call"), EndOf(next_index, "tool-call")>>) /\ Allot(b)
    BY <1>1, <1>4
  <2>3. /\ StreamOK'
        /\ DOMAIN blockOf' = DOMAIN blockOf \cup {b} /\ blockOf'[b] = next_index
        /\ \A c \in DOMAIN blockOf : blockOf'[c] = blockOf[c]
        /\ next_index' = next_index + 1
        /\ asm'.open = [asm.open EXCEPT ![next_index] = None] /\ asm'.text = asm.text
        /\ asm'.blocks = [asm.blocks EXCEPT ![next_index] = [type |-> WireType("tool-call"), text |-> << >>]]
    BY <1>2, <1>4, <2>1, <2>2, EmptyBlockKeeps
  <2>4. DeltasSent(b) = << >> /\ asm.text[next_index] = << >>
    <3>1. next_index \in Nat
      BY <1>2 DEF StreamOK
    <3>2. asm.text[next_index] = << >>
      BY <1>2, <2>1, <3>1 DEF StreamOK
    <3> QED BY <1>4, <3>2 DEF ResponsesStream
  <2>5. asm'.blocks = [asm.blocks EXCEPT ![blockOf'[b]] = [type |-> "tool-call", text |-> DeltasSent(b)]]
    BY <1>2, <2>3, <2>4
  <2>6. next_index' = Cardinality(DOMAIN blockOf')
    BY <2>1, <2>3
  <2> QED BY <2>3, <2>4, <2>5, <2>6, DoneKeeps
<1> QED BY <1>3, <1>4

\* The blocks the end of a Responses stream closes.
ClosedIds == {i \in DOMAIN items : items[i].kind \in {"text", "reasoning"} /\ ~items[i].ended}

ResponsesKind == IF finish_reason = "unknown" THEN "error" ELSE finish_reason

LEMMA ResponsesEnds ==
    ASSUME ResponsesStream
    PROVE  /\ ClosedIds \subseteq DOMAIN blockOf
           /\ EndsOnce(Responses!BlockEnds, {blockOf[b] : b \in ClosedIds})
<1> DEFINE Ts == {i \in DOMAIN items : items[i].kind = "text" /\ ~items[i].ended}
           Rs == {i \in DOMAIN items : items[i].kind = "reasoning" /\ ~items[i].ended}
<1>1. /\ StreamOK
      /\ \A i \in DOMAIN items : items[i].kind # "tool-call" => i \in DOMAIN blockOf
      /\ \A i \in DOMAIN blockOf : asm.open[blockOf[i]] = IF items[i].ended THEN None ELSE items[i].kind
  BY DEF ResponsesStream, ItemOK, BlockOK
<1>2. /\ Ts \subseteq DOMAIN blockOf /\ \A i \in Ts : asm.open[blockOf[i]] = "text"
      /\ Rs \subseteq DOMAIN blockOf /\ \A i \in Rs : asm.open[blockOf[i]] = "reasoning"
      /\ Ts \cap Rs = {} /\ ClosedIds = Ts \cup Rs
  BY <1>1 DEF ClosedIds
<1>3. Responses!BlockEnds = EndsOf(Ts, "text") \o EndsOf(Rs, "reasoning")
  BY SameBase DEF Responses!BlockEnds
<1>4. "text" \in BlockTypes /\ "reasoning" \in BlockTypes
  BY DEF BlockTypes
<1> HIDE DEF Ts, Rs
<1>5. EndsOnce(EndsOf(Ts, "text"), {blockOf[b] : b \in Ts})
  BY <1>1, <1>2, <1>4, EndsOfOnce
<1>6. EndsOnce(EndsOf(Rs, "reasoning"), {blockOf[b] : b \in Rs})
  BY <1>1, <1>2, <1>4, EndsOfOnce
<1>7. EndsOnce(Responses!BlockEnds, {blockOf[b] : b \in Ts \cup Rs})
  BY <1>1, <1>2, <1>3, <1>5, <1>6, EndsTogether
<1> QED BY <1>2, <1>7

\* The end of a Responses stream.
LEMMA ResponsesCloses ==
    ASSUME ResponsesStream, Responses!CloseStream
    PROVE  /\ ~refused' /\ asm'.finish = ResponsesKind /\ asm'.finish # None
           /\ \A i \in Indexes : asm'.open[i] \in {None, "tool-call"}
           /\ Valid(asm') <=> Responses!CallsClosed
           /\ Valid(asm') => Responses!NothingLost'
<1> DEFINE S == {blockOf[b] : b \in ClosedIds}
           ends == Responses!BlockEnds
           last == Responses!LastChunks
<1>1. StreamOK /\ ClosedIds \subseteq DOMAIN blockOf /\ EndsOnce(ends, S)
  BY ResponsesEnds DEF ResponsesStream
<1>2. Yields(ends \o last) /\ UNCHANGED <<items, blockOf, received>>
  BY SameBase DEF Responses!CloseStream, Responses!Over, Responses!streamVars
<1>3. LastOf(last, ResponsesKind)
  <2>1. last = (IF usage THEN <<Usage>> ELSE << >>) \o <<FinishOf(ResponsesKind)>>
    BY SameBase DEF Responses!LastChunks, ResponsesKind
  <2> HIDE DEF last
  <2> QED BY <2>1, LastIs
<1> HIDE DEF S, ends, last
<1>4. /\ ~refused' /\ asm'.finish = ResponsesKind /\ asm'.text = asm.text
      /\ asm'.open = [i \in Indexes |-> IF i \in S THEN None ELSE asm.open[i]]
      /\ asm'.blocks = [i \in Indexes |-> IF i \in S THEN EndedAs(asm, i) ELSE asm.blocks[i]]
  BY <1>1, <1>2, <1>3, TailYields
<1>5. asm'.finish # None
  BY <1>4, AdaptersAssumption DEF ResponsesKind, ResponsesStream
<1>6. Valid(asm') <=> \A b \in DOMAIN blockOf \ ClosedIds : asm.open[blockOf[b]] = None
  <2>1. asm'.open = [i \in Indexes |-> IF i \in {blockOf[b] : b \in ClosedIds} THEN None ELSE asm.open[i]]
    BY <1>4 DEF S
  <2> QED BY <1>1, <1>5, <2>1, ValidAtEnd
<1>7. \A b \in DOMAIN blockOf : /\ ItemOK(b) /\ BlockOK(b) /\ b \in DOMAIN items /\ blockOf[b] \in Indexes
                                /\ items[b].kind # None
  <2>1. \A b \in DOMAIN blockOf : ItemOK(b) /\ BlockOK(b) /\ b \in DOMAIN items /\ blockOf[b] \in Indexes
    BY DEF ResponsesStream, StreamOK
  <2>2. \A b \in DOMAIN blockOf : items[b].kind \in BlockTypes
    BY <2>1 DEF ItemOK
  <2> QED BY <2>1, <2>2, AssemblerAssumption
<1>8. \A b \in DOMAIN blockOf : b \in ClosedIds <=> items[b].kind # "tool-call"
  <2>1. \A b \in DOMAIN blockOf : items[b].kind \in {"text", "reasoning", "tool-call"} /\ (items[b].ended => items[b].kind = "tool-call")
    BY <1>7 DEF ItemOK, BlockTypes
  <2> QED BY <1>7, <2>1 DEF ClosedIds
<1>9. \A b \in DOMAIN blockOf \ ClosedIds : asm.open[blockOf[b]] = None <=> items[b].ended
  BY <1>7 DEF BlockOK
<1>10. Valid(asm') <=> Responses!CallsClosed
  BY <1>6, <1>8, <1>9 DEF Responses!CallsClosed
<1>11. ASSUME Valid(asm'), NEW b \in DOMAIN blockOf
       PROVE  asm'.blocks[blockOf[b]] = [type |-> WireType(items[b].kind), text |-> DeltasSent(b)]
  <2>1. CASE b \in ClosedIds
    <3>1. blockOf[b] \in S
      BY <2>1 DEF S
    <3>2. asm'.blocks[blockOf[b]] = EndedAs(asm, blockOf[b])
      BY <1>4, <1>7, <3>1
    <3>3. asm.open[blockOf[b]] = items[b].kind /\ asm.text[blockOf[b]] = DeltasSent(b)
      BY <1>7, <2>1 DEF ClosedIds, BlockOK
    <3> QED BY <3>2, <3>3 DEF EndedAs
  <2>2. CASE b \notin ClosedIds
    <3>1. blockOf[b] \notin S
      BY <1>1, <2>2 DEF S, StreamOK
    <3>2. items[b].kind = "tool-call" /\ items[b].ended
      BY <1>6, <1>8, <1>9, <1>11, <2>2
    <3>3. asm'.blocks[blockOf[b]] = [type |-> "tool-call", text |-> DeltasSent(b)]
      BY <1>4, <1>7, <3>1, <3>2 DEF BlockOK
    <3> QED BY <3>2, <3>3 DEF WireType
  <2> QED BY <2>1, <2>2
<1>12. Responses!NothingLost' <=>
         \A b \in DOMAIN blockOf' :
           asm'.blocks[blockOf'[b]] = [type |-> WireType(items'[b].kind), text |-> DeltasSent(b)']
  <2>1. \A w : Responses!WireType(w) = WireType(w)
    BY DEF Responses!WireType, WireType
  <2> QED BY <2>1, SameBase DEF Responses!NothingLost, DeltasSent
<1>13. \A b : DeltasSent(b)' = DeltasSent(b)
  BY <1>2 DEF DeltasSent
<1>14. Valid(asm') => Responses!NothingLost'
  BY <1>2, <1>11, <1>12, <1>13
<1>15. ASSUME NEW i \in Indexes, asm'.open[i] # None PROVE asm'.open[i] = "tool-call"
  <2>1. i \notin S /\ asm'.open[i] = asm.open[i]
    BY <1>4, <1>15
  <2>2. PICK b \in DOMAIN blockOf : blockOf[b] = i
    BY <1>1, <1>15, <2>1 DEF StreamOK
  <2>3. b \notin ClosedIds
    BY <2>1, <2>2 DEF S
  <2>4. items[b].kind = "tool-call"
    BY <1>8, <2>3
  <2>5. asm.open[blockOf[b]] = IF items[b].ended THEN None ELSE items[b].kind
    BY <1>7 DEF BlockOK
  <2> QED BY <1>15, <2>1, <2>2, <2>4, <2>5
<1> QED BY <1>4, <1>5, <1>10, <1>14, <1>15
-----------------------------------------------------------------------------
(* FlattenSeq, list by list.                                               *)

Flattening(f, s, N) == f = [n \in 1..N |-> IF n = 1 THEN s[n] ELSE f[n - 1] \o s[n]]

LEMMA FlatteningExists == \A s : \A N \in Nat : \E f : Flattening(f, s, N)
<1> SUFFICES ASSUME NEW s PROVE \A N \in Nat : \E f : Flattening(f, s, N)
  OBVIOUS
<1> DEFINE S == {N \in Nat : \E f : Flattening(f, s, N)}
<1>1. 0 \in S
  <2> DEFINE f == [n \in {} |-> << >>]
  <2>1. Flattening(f, s, 0)
    BY DEF Flattening
  <2> QED BY <2>1
<1>2. ASSUME NEW N \in Nat, N \in S PROVE N + 1 \in S
  <2>1. PICK f : Flattening(f, s, N)
    BY <1>2
  <2> DEFINE last == IF N = 0 THEN s[1] ELSE f[N] \o s[N + 1]
             h == [n \in 1..(N + 1) |-> IF n = N + 1 THEN last ELSE f[n]]
  <2>2. \A n \in 1..N : h[n] = f[n]
    OBVIOUS
  <2>3. ASSUME NEW n \in 1..(N + 1)
        PROVE  h[n] = IF n = 1 THEN s[n] ELSE h[n - 1] \o s[n]
    <3>1. CASE n = N + 1 /\ N = 0
      BY <3>1
    <3>2. CASE n = N + 1 /\ N # 0
      <4>1. N \in 1..N /\ n - 1 = N /\ n # 1
        BY <3>2
      <4>2. last = f[N] \o s[N + 1]
        BY <3>2
      <4> HIDE DEF last
      <4>3. h[n] = last
        BY <3>2
      <4> QED BY <2>2, <3>2, <4>1, <4>2, <4>3
    <3>3. CASE n # N + 1
      <4>1. n \in 1..N /\ (n = 1 \/ n - 1 \in 1..N)
        BY <3>3
      <4>2. f[n] = IF n = 1 THEN s[n] ELSE f[n - 1] \o s[n]
        BY <2>1, <4>1 DEF Flattening
      <4>3. h[n] = f[n] /\ (n = 1 \/ h[n - 1] = f[n - 1])
        BY <2>2, <4>1
      <4> HIDE DEF h
      <4> QED BY <4>2, <4>3
    <3> QED BY <3>1, <3>2, <3>3
  <2>4. h = [n \in 1..(N + 1) |-> h[n]]
    OBVIOUS
  <2> HIDE DEF h
  <2>5. Flattening(h, s, N + 1)
    BY <2>3, <2>4 DEF Flattening
  <2> QED BY <2>5
<1> HIDE DEF S
<1>3. Nat \subseteq S
  BY <1>1, <1>2, Induction
<1> QED BY <1>3 DEF S

LEMMA FlatteningSteps ==
    ASSUME NEW s, NEW N \in Nat, NEW f, Flattening(f, s, N)
    PROVE  /\ N > 0 => f[1] = s[1]
           /\ \A n \in 1..(N - 1) : f[n + 1] = f[n] \o s[n + 1]
<1>1. ASSUME NEW n \in 1..N PROVE f[n] = IF n = 1 THEN s[n] ELSE f[n - 1] \o s[n]
  BY DEF Flattening
<1>2. ASSUME NEW n \in 1..(N - 1) PROVE f[n + 1] = f[n] \o s[n + 1]
  <2>1. n + 1 \in 1..N /\ n + 1 # 1 /\ (n + 1) - 1 = n
    OBVIOUS
  <2> QED BY <1>1, <2>1
<1>3. N > 0 => 1 \in 1..N
  OBVIOUS
<1> QED BY <1>1, <1>2, <1>3

LEMMA FlattenDef ==
    ASSUME NEW T, NEW s \in Seq(T)
    PROVE  \E f : /\ Flattening(f, s, Len(s))
                  /\ FlattenSeq(s) = IF Len(s) = 0 THEN << >> ELSE f[Len(s)]
<1> DEFINE f == CHOOSE f : Flattening(f, s, Len(s))
<1>1. Flattening(f, s, Len(s))
  <2>1. Len(s) \in Nat
    OBVIOUS
  <2> QED BY <2>1, FlatteningExists
<1>2. FlattenSeq(s) = IF Len(s) = 0 THEN s ELSE f[Len(s)]
  BY DEF FlattenSeq, Flattening
<1>3. Len(s) = 0 => s = << >>
  OBVIOUS
<1> QED BY <1>1, <1>2, <1>3

LEMMA FlattenTyped ==
    ASSUME NEW T, NEW s \in Seq(Seq(T))
    PROVE  FlattenSeq(s) \in Seq(T)
<1> DEFINE N == Len(s)
<1>1. PICK f : Flattening(f, s, N) /\ FlattenSeq(s) = IF N = 0 THEN << >> ELSE f[N]
  BY FlattenDef
<1>2. N \in Nat /\ \A n \in 1..N : s[n] \in Seq(T)
  OBVIOUS
<1> HIDE DEF N
<1> DEFINE S == {n \in Nat : n + 1 <= N => f[n + 1] \in Seq(T)}
<1>3. (N > 0 => f[1] = s[1]) /\ \A n \in 1..(N - 1) : f[n + 1] = f[n] \o s[n + 1]
  BY <1>1, <1>2, FlatteningSteps
<1>4. 0 \in S
  BY <1>2, <1>3
<1>5. ASSUME NEW n \in Nat, n \in S PROVE n + 1 \in S
  <2> SUFFICES ASSUME (n + 1) + 1 <= N PROVE f[(n + 1) + 1] \in Seq(T)
    OBVIOUS
  <2> DEFINE m == n + 1
  <2>1. m \in 1..(N - 1) /\ m + 1 \in 1..N /\ f[m] \in Seq(T)
    BY <1>2, <1>5
  <2> HIDE DEF m
  <2>2. f[m + 1] = f[m] \o s[m + 1] /\ s[m + 1] \in Seq(T)
    BY <1>2, <1>3, <2>1
  <2>3. f[m + 1] \in Seq(T)
    BY <2>1, <2>2
  <2> QED BY <2>3 DEF m
<1> HIDE DEF S
<1>6. Nat \subseteq S
  BY <1>4, <1>5, Induction
<1>7. CASE N = 0
  BY ONLY <1>1, <1>7
<1>8. CASE N # 0
  <2>1. N - 1 \in Nat /\ (N - 1) + 1 = N /\ N <= N
    BY ONLY <1>2, <1>8
  <2> DEFINE n == N - 1
  <2>2. n \in Nat /\ n + 1 = N
    BY <2>1
  <2> HIDE DEF n
  <2>3. n \in S
    BY ONLY <1>6, <2>2
  <2>4. f[n + 1] \in Seq(T)
    BY ONLY <2>1, <2>2, <2>3 DEF S
  <2> QED BY ONLY <1>1, <1>8, <2>2, <2>4
<1> QED BY ONLY <1>7, <1>8

LEMMA FlattenEmpty == FlattenSeq(<< >>) = << >>
BY DEF FlattenSeq

LEMMA FlattenAppend ==
    ASSUME NEW T, NEW s \in Seq(Seq(T)), NEW e \in Seq(T)
    PROVE  FlattenSeq(Append(s, e)) = FlattenSeq(s) \o e
<1> DEFINE t == Append(s, e)
           N == Len(s)
<1>1. /\ t \in Seq(Seq(T)) /\ Len(t) = N + 1 /\ t[N + 1] = e /\ N \in Nat
      /\ \A n \in 1..N : t[n] = s[n]
  OBVIOUS
<1>2. PICK f : Flattening(f, s, N) /\ FlattenSeq(s) = IF N = 0 THEN << >> ELSE f[N]
  BY FlattenDef
<1> HIDE DEF t, N
<1>3. PICK h : Flattening(h, t, N + 1) /\ FlattenSeq(t) = h[N + 1]
  <2>1. \E h : Flattening(h, t, Len(t)) /\ FlattenSeq(t) = IF Len(t) = 0 THEN << >> ELSE h[Len(t)]
    BY <1>1, FlattenDef
  <2>2. N + 1 # 0
    BY <1>1
  <2> QED BY <1>1, <2>1, <2>2
<1>4. (N > 0 => f[1] = s[1]) /\ \A n \in 1..(N - 1) : f[n + 1] = f[n] \o s[n + 1]
  BY <1>1, <1>2, FlatteningSteps
<1>5. h[1] = t[1] /\ \A n \in 1..N : h[n + 1] = h[n] \o t[n + 1]
  <2> DEFINE M == N + 1
  <2>1. M \in Nat /\ M > 0 /\ M - 1 = N /\ Flattening(h, t, M)
    BY <1>1, <1>3
  <2> HIDE DEF M
  <2>2. (M > 0 => h[1] = t[1]) /\ \A n \in 1..(M - 1) : h[n + 1] = h[n] \o t[n + 1]
    BY ONLY <2>1, FlatteningSteps
  <2> QED BY <2>1, <2>2
<1> DEFINE S == {n \in Nat : n + 1 <= N => h[n + 1] = f[n + 1]}
<1>6. 0 \in S
  BY <1>1, <1>4, <1>5
<1>7. ASSUME NEW n \in Nat, n \in S PROVE n + 1 \in S
  <2> SUFFICES ASSUME (n + 1) + 1 <= N PROVE h[(n + 1) + 1] = f[(n + 1) + 1]
    OBVIOUS
  <2> DEFINE m == n + 1
  <2>1. m \in 1..(N - 1) /\ m \in 1..N /\ m + 1 \in 1..N /\ h[m] = f[m]
    BY <1>1, <1>7
  <2> HIDE DEF m
  <2>2. h[m + 1] = f[m + 1]
    BY <1>1, <1>4, <1>5, <2>1
  <2> QED BY <2>2 DEF m
<1> HIDE DEF S
<1>8. Nat \subseteq S
  BY <1>6, <1>7, Induction
<1>9. CASE N = 0
  <2>1. FlattenSeq(s) = << >> /\ FlattenSeq(t) = e
    BY <1>1, <1>2, <1>3, <1>5, <1>9
  <2>2. << >> \o e = e
    OBVIOUS
  <2> QED BY <2>1, <2>2 DEF t
<1>10. CASE N # 0
  <2>1. N - 1 \in Nat /\ (N - 1) + 1 = N /\ N \in 1..N
    BY <1>1, <1>10
  <2>2. h[N] = f[N]
    BY <1>8, <2>1 DEF S
  <2>3. FlattenSeq(t) = f[N] \o e /\ FlattenSeq(s) = f[N]
    BY <1>1, <1>2, <1>3, <1>5, <1>10, <2>1, <2>2
  <2> QED BY <2>3 DEF t
<1> QED BY <1>9, <1>10
-----------------------------------------------------------------------------
(* What a chat completion's blocks are made of.                            *)

LEMMA SuffixIs ==
    ASSUME NEW T, NEW s \in Seq(T), NEW m \in Seq(T)
    PROVE  SubSeq(s \o m, Len(s) + 1, Len(s \o m)) = m
<1> DEFINE r == SubSeq(s \o m, Len(s) + 1, Len(s \o m))
<1>1. /\ s \o m \in Seq(T) /\ Len(s \o m) = Len(s) + Len(m) /\ Len(s) \in Nat /\ Len(m) \in Nat
      /\ \A n \in 1..Len(m) : (s \o m)[Len(s) + n] = m[n]
  OBVIOUS
<1>2. r \in Seq(T) /\ Len(r) = Len(m) /\ \A n \in 1..Len(m) : r[n] = (s \o m)[Len(s) + n]
  BY <1>1
<1> HIDE DEF r
<1>3. r = m
  BY <1>1, <1>2
<1> QED BY <1>3 DEF r

LEMMA SameFlatten == \A s : Completions!FlattenSeq(s) = FlattenSeq(s)
BY DEF Completions!FlattenSeq, FlattenSeq

AllIndexed == \A n \in DOMAIN received : received[n].type = "tool" => received[n].index # None

\* The items, with one more.
LEMMA ItemAdded ==
    ASSUME received \in Seq(Completions!Item), NEW k \in Completions!Item, received' = Append(received, k)
    PROVE  /\ \A t \in Completions!Texts : Completions!TextSent(t)' =
                IF k.type = t THEN Append(Completions!TextSent(t), k.text) ELSE Completions!TextSent(t)
           /\ \A w : Completions!ArgumentsSent(w)' =
                IF k.type = "tool" /\ k.index = w THEN Completions!ArgumentsSent(w) \o k.arguments
                ELSE Completions!ArgumentsSent(w)
           /\ AllIndexed' => AllIndexed /\ (k.type = "tool" => k.index # None)
<1> DEFINE E == Completions!Item
           L == Len(received)
<1>1. /\ received' \in Seq(E) /\ DOMAIN received' = 1..(L + 1) /\ DOMAIN received = 1..L /\ L \in Nat
      /\ \A n \in 1..L : received'[n] = received[n]
      /\ received'[L + 1] = k /\ Len(received') = L + 1
  OBVIOUS
<1>2. ASSUME NEW t \in Completions!Texts
      PROVE  Completions!TextSent(t)' =
               IF k.type = t THEN Append(Completions!TextSent(t), k.text) ELSE Completions!TextSent(t)
  <2> DEFINE P == {n \in DOMAIN received : received[n].type = t}
             Q == {n \in DOMAIN received' : received'[n].type = t}
             old == Pick(received, P)
             new == Pick(received', Q)
             f == [e \in E |-> e.text]
             U == {e.text : e \in E}
  <2>1. (\A n \in 1..L : n \in Q <=> n \in P) /\ (L + 1 \in Q <=> k.type = t)
    BY <1>1
  <2>2. Completions!TextSent(t) = [n \in DOMAIN old |-> old[n].text]
    BY SameBase DEF Completions!TextSent
  <2>3. Completions!TextSent(t)' = [n \in DOMAIN new |-> new[n].text]
    BY SameBase DEF Completions!TextSent
  <2> HIDE DEF P, Q
  <2>4. new = IF L + 1 \in Q THEN Append(old, k) ELSE old
    <3> HIDE DEF E
    <3>1. Pick(Append(received, k), Q) = IF Len(received) + 1 \in Q THEN Append(Pick(received, P), k) ELSE Pick(received, P)
      BY <2>1, PickAppend
    <3> QED BY <3>1
  <2>5. old \in Seq(E)
    BY PickTyped
  <2> HIDE DEF old, new, E, L
  <2>6. \A d \in Seq(E) : [n \in DOMAIN d |-> d[n].text] = [n \in DOMAIN d |-> f[d[n]]]
    OBVIOUS
  <2>7. CASE L + 1 \in Q
    <3>1. new = Append(old, k) /\ Append(old, k) \in Seq(E) /\ k \in E
      BY <2>4, <2>5, <2>7 DEF E
    <3>2. f \in [E -> U] /\ f[k] = k.text
      BY <3>1
    <3> HIDE DEF f, U
    <3>3. [n \in DOMAIN Append(old, k) |-> f[Append(old, k)[n]]] = Append([n \in DOMAIN old |-> f[old[n]]], f[k])
      BY <2>5, <3>1, <3>2, MapAppend
    <3>4. Completions!TextSent(t)' = [n \in DOMAIN Append(old, k) |-> f[Append(old, k)[n]]]
      BY <2>3, <2>6, <3>1
    <3>5. Completions!TextSent(t) = [n \in DOMAIN old |-> f[old[n]]]
      BY <2>2, <2>5, <2>6
    <3> QED BY <2>1, <2>7, <3>2, <3>3, <3>4, <3>5
  <2>8. CASE L + 1 \notin Q
    <3>1. new = old
      BY <2>4, <2>8
    <3> QED BY <2>1, <2>2, <2>3, <2>8, <3>1
  <2> QED BY <2>7, <2>8
<1>3. ASSUME NEW w
      PROVE  Completions!ArgumentsSent(w)' =
               IF k.type = "tool" /\ k.index = w THEN Completions!ArgumentsSent(w) \o k.arguments
               ELSE Completions!ArgumentsSent(w)
  <2> DEFINE P == {n \in DOMAIN received : received[n].type = "tool" /\ received[n].index = w}
             Q == {n \in DOMAIN received' : received'[n].type = "tool" /\ received'[n].index = w}
             old == Pick(received, P)
             new == Pick(received', Q)
             F == {e \in E : e.type = "tool"}
             f == [e \in F |-> e.arguments]
             U == Seq(Deltas)
  <2>1. (\A n \in 1..L : n \in Q <=> n \in P) /\ (L + 1 \in Q <=> k.type = "tool" /\ k.index = w)
    BY <1>1
  <2>2. Completions!ArgumentsSent(w) = FlattenSeq([n \in DOMAIN old |-> old[n].arguments])
    BY SameBase, SameFlatten DEF Completions!ArgumentsSent
  <2>3. Completions!ArgumentsSent(w)' = FlattenSeq([n \in DOMAIN new |-> new[n].arguments])
    BY SameBase, SameFlatten DEF Completions!ArgumentsSent
  <2>4. \A n \in P \cap 1..L : received[n] \in F
    BY <1>1
  <2>5. f \in [F -> U]
    <3>1. \A e \in F : e.arguments \in Seq(Deltas)
      BY ItemCases
    <3> QED BY <3>1
  <2> HIDE DEF P, Q
  <2>6. new = IF L + 1 \in Q THEN Append(old, k) ELSE old
    <3> HIDE DEF E
    <3>1. Pick(Append(received, k), Q) = IF Len(received) + 1 \in Q THEN Append(Pick(received, P), k) ELSE Pick(received, P)
      BY <2>1, PickAppend
    <3> QED BY <3>1
  <2>7. old \in Seq(F)
    <3>1. PICK from : From(from, old, received, P)
      BY PickFrom
    <3>2. old \in Seq(E)
      BY PickTyped
    <3> HIDE DEF old, F, E
    <3>3. \A n \in 1..Len(old) : old[n] \in F
      BY <2>4, <3>1 DEF From, L
    <3> QED BY <3>2, <3>3
  <2>8. k \in E
    OBVIOUS
  <2> HIDE DEF old, new, E, L
  <2>9. \A d \in Seq(F) : [n \in DOMAIN d |-> d[n].arguments] = [n \in DOMAIN d |-> f[d[n]]]
    <3> SUFFICES ASSUME NEW d \in Seq(F) PROVE [n \in DOMAIN d |-> d[n].arguments] = [n \in DOMAIN d |-> f[d[n]]]
      OBVIOUS
    <3>1. \A n \in DOMAIN d : d[n] \in F
      OBVIOUS
    <3> HIDE DEF F
    <3> QED BY <3>1
  <2>10. CASE L + 1 \in Q
    <3>1. k \in F
      BY <2>1, <2>8, <2>10
    <3> HIDE DEF F
    <3>2. new = Append(old, k) /\ Append(old, k) \in Seq(F) /\ f[k] = k.arguments
      BY <2>6, <2>7, <2>10, <3>1
    <3> DEFINE m == [n \in DOMAIN old |-> f[old[n]]]
    <3>3. [n \in DOMAIN Append(old, k) |-> f[Append(old, k)[n]]] = Append(m, f[k]) /\ m \in Seq(U)
      <4> HIDE DEF f, U
      <4>1. f \in [F -> U] /\ old \in Seq(F) /\ k \in F
        BY <2>5, <2>7, <3>1
      <4> QED BY ONLY <4>1, MapAppend
    <3> HIDE DEF f
    <3>4. Completions!ArgumentsSent(w)' = FlattenSeq([n \in DOMAIN Append(old, k) |-> f[Append(old, k)[n]]])
      BY <2>3, <2>9, <3>2
    <3>5. Completions!ArgumentsSent(w) = FlattenSeq(m)
      BY <2>2, <2>7, <2>9
    <3>6. f[k] \in Seq(Deltas)
      BY <2>5, <3>1
    <3> HIDE DEF m
    <3>7. FlattenSeq(Append(m, f[k])) = FlattenSeq(m) \o f[k]
      BY <3>3, <3>6, FlattenAppend
    <3> QED BY <2>1, <2>10, <3>2, <3>3, <3>4, <3>5, <3>7
  <2>11. CASE L + 1 \notin Q
    <3>1. new = old
      BY <2>6, <2>11
    <3> QED BY <2>1, <2>2, <2>3, <2>11, <3>1
  <2> QED BY <2>10, <2>11
<1>4. AllIndexed' => AllIndexed /\ (k.type = "tool" => k.index # None)
  BY <1>1 DEF AllIndexed
<1> QED BY <1>2, <1>3, <1>4

\* Texts have all their deltas, and calls the arguments that were passed on:
\* all of them once the id is known.
TextsKept ==
    /\ \A b \in DOMAIN blockOf : asm.text[blockOf[b]] \in Seq(Seq(Deltas))
    /\ \A t \in Completions!Texts : Completions!TextSent(t) =
         IF <<t, 0>> \in DOMAIN blockOf THEN FlattenSeq(asm.text[blockOf[<<t, 0>>]]) ELSE << >>
    /\ \A i \in DOMAIN items : <<"tool-call", i>> \in DOMAIN blockOf =>
         FlattenSeq(asm.text[blockOf[<<"tool-call", i>>]]) = items[i].arguments
    /\ AllIndexed => \A w : Completions!ArgumentsSent(w) = IF w \in DOMAIN items THEN items[w].arguments ELSE << >>

LEMMA EmitTexts ==
    ASSUME CompletionsStream, TextsKept, Len(received) < MaxItems, 0..(MaxItems - 1) \subseteq Indexes,
           NEW b, b[1] \in BlockTypes, NEW text \in Seq(Deltas), Emit(b, b[1], text)
    PROVE  /\ DOMAIN blockOf' = DOMAIN blockOf \cup {b}
           /\ \A c \in DOMAIN blockOf' : asm'.text[blockOf'[c]] \in Seq(Seq(Deltas))
           /\ FlattenSeq(asm'.text[blockOf'[b]]) =
                (IF b \in DOMAIN blockOf THEN FlattenSeq(asm.text[blockOf[b]]) ELSE << >>) \o text
           /\ \A c \in DOMAIN blockOf : c # b => asm'.text[blockOf'[c]] = asm.text[blockOf[c]]
<1> DEFINE old == IF b \in DOMAIN blockOf THEN asm.text[blockOf[b]] ELSE << >>
<1>1. /\ StreamOK /\ next_index \in Nat /\ next_index <= Len(received) /\ MaxItems \in Nat /\ Len(received) \in Nat
      /\ \A c \in DOMAIN blockOf : asm.open[blockOf[c]] = c[1]
  BY AdaptersAssumption DEF CompletionsStream, StreamOK
<1>2. IF b \in DOMAIN blockOf THEN asm.open[blockOf[b]] = b[1] ELSE next_index \in Indexes
  <2>1. next_index \in 0..(MaxItems - 1)
    BY <1>1
  <2> QED BY <1>1, <2>1
<1>3. /\ DOMAIN blockOf' = DOMAIN blockOf \cup {b}
      /\ \A c \in DOMAIN blockOf : blockOf'[c] = blockOf[c]
      /\ asm'.text[blockOf'[b]] = Append(IF b \in DOMAIN blockOf THEN asm.text[blockOf[b]] ELSE << >>, text)
      /\ \A c \in DOMAIN blockOf : c # b => asm'.text[blockOf[c]] = asm.text[blockOf[c]]
  BY ZenonT(60), <1>1, <1>2, EmitKeeps
<1>4. old \in Seq(Seq(Deltas)) /\ asm'.text[blockOf'[b]] = Append(old, text)
  <2>1. << >> \in Seq(Seq(Deltas))
    OBVIOUS
  <2> QED BY <1>3, <2>1 DEF TextsKept
<1>5. FlattenSeq(old) = IF b \in DOMAIN blockOf THEN FlattenSeq(asm.text[blockOf[b]]) ELSE << >>
  BY FlattenEmpty
<1> HIDE DEF old
<1>6. FlattenSeq(Append(old, text)) = FlattenSeq(old) \o text /\ Append(old, text) \in Seq(Seq(Deltas))
  BY <1>4, FlattenAppend
<1>7. \A c \in DOMAIN blockOf' : asm'.text[blockOf'[c]] \in Seq(Seq(Deltas))
  BY <1>3, <1>4, <1>6 DEF TextsKept
<1> QED BY <1>3, <1>4, <1>5, <1>6, <1>7
\* What was kept stays when no block and no call is touched.
LEMMA TextsStay ==
    ASSUME CompletionsStream, TextsKept, NEW k \in Completions!Item, received' = Append(received, k),
           k.type \in {"usage", "finish"}, UNCHANGED <<items, blockOf, asm>>
    PROVE  TextsKept'
<1>1. /\ \A t \in Completions!Texts : Completions!TextSent(t)' = Completions!TextSent(t)
      /\ \A w : Completions!ArgumentsSent(w)' = Completions!ArgumentsSent(w)
      /\ AllIndexed' => AllIndexed
  BY ItemAdded DEF CompletionsStream, Completions!Texts
<1> QED BY <1>1 DEF TextsKept

LEMMA TextItemTexts ==
    ASSUME CompletionsStream, TextsKept, NEW k \in Completions!Item, received' = Append(received, k),
           Len(received) < MaxItems, 0..(MaxItems - 1) \subseteq Indexes, Completions!TextItem(k)
    PROVE  TextsKept'
<1> DEFINE b == <<k.type, 0>>
           text == <<k.text>>
<1>1. /\ k.type \in Completions!Texts /\ b[1] = k.type /\ k.type \in BlockTypes
      /\ Emit(b, b[1], text) /\ items' = items
  BY SameBase DEF Completions!TextItem, Completions!Texts, BlockTypes
<1>2. k.text \in Deltas /\ text \in Seq(Deltas)
  BY <1>1, ItemCases
<1>3. /\ \A t \in Completions!Texts : Completions!TextSent(t)' =
           IF k.type = t THEN Append(Completions!TextSent(t), k.text) ELSE Completions!TextSent(t)
      /\ \A w : Completions!ArgumentsSent(w)' = Completions!ArgumentsSent(w)
      /\ AllIndexed' => AllIndexed
  <2>1. k.type # "tool"
    BY <1>1 DEF Completions!Texts
  <2> QED BY <2>1, ItemAdded DEF CompletionsStream
<1>4. \A t : b = <<t, 0>> <=> t = k.type
  OBVIOUS
<1>5. \A i : b # <<"tool-call", i>>
  BY <1>1 DEF Completions!Texts
<1> HIDE DEF b, text
<1>6. /\ DOMAIN blockOf' = DOMAIN blockOf \cup {b}
      /\ \A c \in DOMAIN blockOf' : asm'.text[blockOf'[c]] \in Seq(Seq(Deltas))
      /\ FlattenSeq(asm'.text[blockOf'[b]]) =
           (IF b \in DOMAIN blockOf THEN FlattenSeq(asm.text[blockOf[b]]) ELSE << >>) \o text
      /\ \A c \in DOMAIN blockOf : c # b => asm'.text[blockOf'[c]] = asm.text[blockOf[c]]
  BY <1>1, <1>2, EmitTexts
<1>7. ASSUME NEW t \in Completions!Texts
      PROVE  Completions!TextSent(t)' =
               IF <<t, 0>> \in DOMAIN blockOf' THEN FlattenSeq(asm'.text[blockOf'[<<t, 0>>]]) ELSE << >>
  <2> DEFINE old == IF b \in DOMAIN blockOf THEN FlattenSeq(asm.text[blockOf[b]]) ELSE << >>
  <2>1. CASE t = k.type
    <3>1. Completions!TextSent(t) = old /\ <<t, 0>> = b
      BY <1>1, <1>4, <2>1 DEF TextsKept
    <3>2. old \in Seq(Deltas)
      <4>1. << >> \in Seq(Deltas)
        OBVIOUS
      <4>2. b \in DOMAIN blockOf => FlattenSeq(asm.text[blockOf[b]]) \in Seq(Deltas)
        BY FlattenTyped DEF TextsKept
      <4> QED BY <4>1, <4>2
    <3>3. Completions!TextSent(t)' = Append(old, k.text)
      BY <1>3, <2>1, <3>1
    <3>4. FlattenSeq(asm'.text[blockOf'[b]]) = old \o text
      BY <1>6
    <3> HIDE DEF old
    <3>5. old \o text = Append(old, k.text)
      BY <1>2, <3>2 DEF text
    <3> QED BY <1>6, <3>1, <3>3, <3>4, <3>5
  <2>2. CASE t # k.type
    <3>1. <<t, 0>> # b /\ Completions!TextSent(t)' = Completions!TextSent(t)
      BY SMTT(40), <1>3, <1>4, <2>2
    <3> QED BY <1>6, <3>1 DEF TextsKept
  <2> QED BY <2>1, <2>2
<1>8. ASSUME NEW i \in DOMAIN items', <<"tool-call", i>> \in DOMAIN blockOf'
      PROVE  FlattenSeq(asm'.text[blockOf'[<<"tool-call", i>>]]) = items'[i].arguments
  BY <1>1, <1>5, <1>6, <1>8 DEF TextsKept
<1>9. AllIndexed' => \A w : Completions!ArgumentsSent(w)' = IF w \in DOMAIN items' THEN items'[w].arguments ELSE << >>
  BY <1>1, <1>3 DEF TextsKept
<1> QED BY <1>6, <1>7, <1>8, <1>9 DEF TextsKept

LEMMA ToolItemTexts ==
    ASSUME CompletionsStream, TextsKept, NEW k \in Completions!Item, received' = Append(received, k),
           Len(received) < MaxItems, 0..(MaxItems - 1) \subseteq Indexes, Completions!ToolItem(k)
    PROVE  TextsKept'
<1> DEFINE i == Completions!IndexOf(k)
           b == <<"tool-call", i>>
           known == i \in DOMAIN items
           old == IF known THEN items[i].arguments ELSE << >>
           entry == Completions!Entry(k, i)
           passes == entry.id /\ Len(entry.arguments) > entry.emitted
           kept == IF passes THEN [entry EXCEPT !.emitted = Len(entry.arguments)] ELSE entry
           text == Completions!Fragment(entry)
<1>1. /\ k.type = "tool"
      /\ items' = [j \in DOMAIN items \cup {i} |-> IF j = i THEN kept ELSE items[j]]
      /\ IF passes THEN Emit(b, "tool-call", text)
                    ELSE UNCHANGED <<blockOf, next_index, asm, refused>>
  BY SameBase DEF Completions!ToolItem
<1>2. /\ entry \in Entry
      /\ entry.id <=> (known /\ items[i].id) \/ k.id
      /\ entry.arguments = old \o k.arguments
      /\ entry.emitted = IF known THEN items[i].emitted ELSE 0
      /\ k.arguments \in Seq(Deltas) /\ old \in Seq(Deltas)
  BY <1>1, EntryAdded
<1>3. k.index # None => i = k.index
  BY DEF Completions!IndexOf
<1>4. /\ \A t : b # <<t, 0>> \/ t \notin Completions!Texts
      /\ \A j : b = <<"tool-call", j>> <=> j = i
      /\ b[1] = "tool-call" /\ b[1] \in BlockTypes
  BY DEF Completions!Texts, BlockTypes
<1> HIDE DEF entry
<1>5. text = SubSeq(entry.arguments, entry.emitted + 1, Len(entry.arguments))
  BY DEF Completions!Fragment
<1> HIDE DEF i, b, text
<1>6. /\ known => /\ items[i].emitted = IF items[i].id THEN Len(old) ELSE 0
                  /\ b \in DOMAIN blockOf <=> items[i].id /\ old # << >>
                  /\ b \in DOMAIN blockOf => FlattenSeq(asm.text[blockOf[b]]) = old
      /\ ~known => b \notin DOMAIN blockOf /\ old = << >>
  BY DEF CompletionsStream, EntryOK, TextKeys, TextsKept, b
<1> HIDE DEF known, old
<1>7. /\ \A t \in Completions!Texts : Completions!TextSent(t)' = Completions!TextSent(t)
      /\ \A w : Completions!ArgumentsSent(w)' =
           IF k.index = w THEN Completions!ArgumentsSent(w) \o k.arguments ELSE Completions!ArgumentsSent(w)
      /\ AllIndexed' => AllIndexed /\ k.index # None
  <2>1. "tool" \notin Completions!Texts
    BY DEF Completions!Texts
  <2> QED BY <1>1, <2>1, ItemAdded DEF CompletionsStream
<1>8. kept.arguments = entry.arguments
  <2>1. entry = [id |-> entry.id, name |-> entry.name, arguments |-> entry.arguments, emitted |-> entry.emitted]
    BY <1>2 DEF Entry
  <2> QED BY <2>1
<1> HIDE DEF kept
<1>9. /\ DOMAIN items' = DOMAIN items \cup {i} /\ items'[i].arguments = old \o k.arguments
      /\ \A j \in DOMAIN items : j # i => items'[j] = items[j]
  BY <1>1, <1>2, <1>8
<1>10. ASSUME AllIndexed', NEW w
       PROVE  Completions!ArgumentsSent(w)' = IF w \in DOMAIN items' THEN items'[w].arguments ELSE << >>
  <2>1. AllIndexed /\ k.index = i
    BY <1>3, <1>7, <1>10
  <2>2. Completions!ArgumentsSent(w) = IF w \in DOMAIN items THEN items[w].arguments ELSE << >>
    BY <2>1 DEF TextsKept
  <2>3. CASE w = i
    <3>1. Completions!ArgumentsSent(w) = old
      BY <2>2, <2>3 DEF old, known
    <3> QED BY <1>7, <1>9, <2>1, <2>3, <3>1
  <2>4. CASE w # i
    BY <1>7, <1>9, <2>1, <2>2, <2>4
  <2> QED BY <2>3, <2>4
<1>11. CASE ~passes
  <2>1. UNCHANGED <<blockOf, next_index, asm, refused>>
    BY <1>1, <1>11
  <2>2. ASSUME NEW j \in DOMAIN items', <<"tool-call", j>> \in DOMAIN blockOf'
        PROVE  FlattenSeq(asm'.text[blockOf'[<<"tool-call", j>>]]) = items'[j].arguments
    <3>1. CASE j # i
      BY <1>9, <2>1, <2>2, <3>1 DEF TextsKept
    <3>2. CASE j = i
      <4>1. b \in DOMAIN blockOf /\ b = <<"tool-call", j>>
        BY <1>4, <2>1, <2>2, <3>2
      <4>2. known /\ items[i].id /\ FlattenSeq(asm.text[blockOf[b]]) = old
        BY <1>6, <4>1
      <4>3. entry.id /\ entry.emitted = Len(old)
        BY <1>2, <1>6, <4>2
      <4>4. Len(old \o k.arguments) = Len(old) + Len(k.arguments) /\ Len(old) \in Nat /\ Len(k.arguments) \in Nat
        BY <1>2
      <4>5. Len(k.arguments) = 0
        BY <1>2, <1>11, <4>3, <4>4
      <4>6. k.arguments = << >> /\ old \o << >> = old
        BY <1>2, <4>5
      <4> QED BY <1>9, <2>1, <3>2, <4>1, <4>2, <4>6
    <3> QED BY <3>1, <3>2
  <2> QED BY <1>7, <1>10, <2>1, <2>2 DEF TextsKept
<1>12. CASE passes
  <2> DEFINE before == IF b \in DOMAIN blockOf THEN FlattenSeq(asm.text[blockOf[b]]) ELSE << >>
  <2>1. before \o text = old \o k.arguments /\ text \in Seq(Deltas)
    <3>1. old \o k.arguments \in Seq(Deltas) /\ Len(old) \in Nat /\ << >> \in Seq(Deltas)
      BY <1>2
    <3>2. CASE known /\ items[i].id
      <4>1. text = SubSeq(old \o k.arguments, Len(old) + 1, Len(old \o k.arguments))
        BY <1>2, <1>5, <1>6, <3>2
      <4>2. text = k.arguments
        BY <1>2, <4>1, SuffixIs
      <4>3. before = old
        BY <1>6, <3>2
      <4> QED BY <1>2, <4>2, <4>3
    <3>3. CASE ~(known /\ items[i].id)
      <4>1. entry.emitted + 1 = 1 /\ b \notin DOMAIN blockOf
        <5>1. entry.emitted = 0 /\ b \notin DOMAIN blockOf
          BY <1>2, <1>6, <3>3
        <5> QED BY <5>1
      <4>2. text = SubSeq(old \o k.arguments, 1, Len(old \o k.arguments))
        BY <1>2, <1>5, <4>1
      <4> DEFINE new == old \o k.arguments
      <4> HIDE DEF new
      <4>3. SubSeq(new, 1, Len(new)) = new /\ << >> \o new = new
        BY <3>1 DEF new
      <4> QED BY <3>1, <4>1, <4>2, <4>3 DEF new
    <3> QED BY <3>2, <3>3
  <2>2. Emit(b, b[1], text)
    BY <1>1, <1>4, <1>12
  <2>3. /\ DOMAIN blockOf' = DOMAIN blockOf \cup {b}
        /\ \A c \in DOMAIN blockOf' : asm'.text[blockOf'[c]] \in Seq(Seq(Deltas))
        /\ FlattenSeq(asm'.text[blockOf'[b]]) = before \o text
        /\ \A c \in DOMAIN blockOf : c # b => asm'.text[blockOf'[c]] = asm.text[blockOf[c]]
    BY <1>4, <2>1, <2>2, EmitTexts
  <2> HIDE DEF before
  <2>4. ASSUME NEW t \in Completions!Texts
        PROVE  Completions!TextSent(t)' =
                 IF <<t, 0>> \in DOMAIN blockOf' THEN FlattenSeq(asm'.text[blockOf'[<<t, 0>>]]) ELSE << >>
    <3>1. <<t, 0>> # b
      BY <1>4
    <3> QED BY <1>7, <2>3, <3>1 DEF TextsKept
  <2>5. ASSUME NEW j \in DOMAIN items', <<"tool-call", j>> \in DOMAIN blockOf'
        PROVE  FlattenSeq(asm'.text[blockOf'[<<"tool-call", j>>]]) = items'[j].arguments
    <3>1. CASE j = i
      <4>1. <<"tool-call", j>> = b
        BY <1>4, <3>1
      <4> QED BY <1>9, <2>1, <2>3, <3>1, <4>1
    <3>2. CASE j # i
      <4>1. <<"tool-call", j>> # b /\ j \in DOMAIN items /\ items'[j] = items[j]
        BY <1>4, <1>9, <3>2
      <4> QED BY <2>3, <2>5, <4>1 DEF TextsKept
    <3> QED BY <3>1, <3>2
  <2> QED BY <1>10, <2>3, <2>4, <2>5 DEF TextsKept
<1> QED BY <1>11, <1>12

\* Nothing is lost at the end of a chat completion.
LEMMA CompletionsLosesNothing ==
    ASSUME CompletionsStream, TextsKept, Completions!CloseStream, asm'.finish \in {"stop", "tool-calls", "max-tokens"}
    PROVE  Completions!NothingLost'
<1>1. UNCHANGED <<items, blockOf, received>>
  BY DEF Completions!CloseStream, Completions!Over, Completions!streamVars
<1>2. /\ asm'.finish = CompletionsKind
      /\ \A b \in ClosedKeys : asm'.blocks[blockOf[b]] = EndedAs(asm, blockOf[b])
  BY CompletionsCloses
<1>3. \A b \in ClosedKeys : asm'.blocks[blockOf[b]].text = asm.text[blockOf[b]]
  <2>1. \A i : EndedAs(asm, i).text = asm.text[i]
    BY DEF EndedAs
  <2> QED BY <1>2, <2>1
<1>4. Completions!Blockless = {}
  BY <1>2 DEF CompletionsKind
<1>5. ASSUME NEW t \in Completions!Texts, <<t, 0>> \in DOMAIN blockOf
      PROVE  FlattenSeq(asm'.blocks[blockOf[<<t, 0>>]].text) = Completions!TextSent(t)
  <2>1. <<t, 0>> \in ClosedKeys
    BY <1>5 DEF ClosedKeys, Completions!Started, Completions!Texts
  <2> QED BY <1>3, <1>5, <2>1 DEF TextsKept
<1>6. ASSUME AllIndexed, NEW w \in Completions!Named
      PROVE  FlattenSeq(asm'.blocks[blockOf[<<"tool-call", w>>]].text) = Completions!ArgumentsSent(w)
  <2>1. w \in DOMAIN items /\ <<"tool-call", w>> \in DOMAIN blockOf
    BY <1>4 DEF Completions!Named, Completions!Blockless
  <2>2. <<"tool-call", w>> \in ClosedKeys
    BY <1>4, <2>1 DEF ClosedKeys, Completions!Started
  <2> QED BY <1>3, <1>6, <2>1, <2>2 DEF TextsKept
<1>7. Completions!NothingLost' <=>
        /\ AllIndexed' => \A w \in Completions!Named' :
             FlattenSeq(asm'.blocks[blockOf'[<<"tool-call", w>>]].text) = Completions!ArgumentsSent(w)'
        /\ \A t \in Completions!Texts : <<t, 0>> \in DOMAIN blockOf' =>
             FlattenSeq(asm'.blocks[blockOf'[<<t, 0>>]].text) = Completions!TextSent(t)'
  BY SameFlatten DEF Completions!NothingLost, AllIndexed, Completions!Texts
<1>8. /\ AllIndexed' <=> AllIndexed
      /\ Completions!Named' = Completions!Named
      /\ \A w : Completions!ArgumentsSent(w)' = Completions!ArgumentsSent(w)
      /\ \A t : Completions!TextSent(t)' = Completions!TextSent(t)
  BY <1>1 DEF AllIndexed, Completions!Named, Completions!ArgumentsSent, Completions!TextSent
<1> QED BY <1>1, <1>5, <1>6, <1>7, <1>8
-----------------------------------------------------------------------------
(* Both adapters.                                                          *)

\* The provider of the Responses adapter follows its protocol, and there are
\* indexes for as many blocks as a stream may have items.
Provided ==
    /\ "completions" \in Apis => 0..(MaxItems - 1) \subseteq Indexes
    /\ "responses" \in Apis => Conformant /\ EnoughIds

Streaming == pc \in {"create", "stream", "broken", "tail"}

StreamInv ==
    /\ api = "completions" => CompletionsStream /\ TextsKept
    /\ api = "responses" => ResponsesStream

CallsClosedNow == IF api = "completions" THEN Completions!CallsClosed ELSE Responses!CallsClosed

NothingLostNow == IF api = "completions" THEN Completions!NothingLost ELSE Responses!NothingLost

\* What is left without an end is a call.
OnlyCallsOpen == \A i \in Indexes : asm.open[i] \in {None, "tool-call"}

AdapterInv ==
    /\ api \in Apis \ {"any"}
    /\ pc \in {"create", "stream", "broken", "tail", "ended", "raised"}
    /\ Streaming => StreamInv
    /\ ~refused
    /\ pc = "ended" => asm.finish # None
    /\ Finished => OnlyCallsOpen
    /\ Finished => (Valid(asm) <=> CallsClosedNow) /\ (Valid(asm) => NothingLostNow)

\* A stream before anything is received.
Fresh ==
    /\ items = NoBlock /\ blockOf = NoBlock /\ next_index = 0 /\ finish_reason = "unknown"
    /\ asm = NewAssembler /\ ~refused /\ received = << >>

LEMMA FreshStream == Fresh => StreamInv
<1> SUFFICES ASSUME Fresh PROVE StreamInv
  OBVIOUS
<1>1. /\ DOMAIN items = {} /\ DOMAIN blockOf = {} /\ next_index = 0
      /\ blockOf = [k \in {} |-> 0] /\ received = << >> /\ DOMAIN received = {} /\ Len(received) = 0
  BY DEF Fresh, NoBlock
<1>2. StreamOK
  <2>1. asm = NewAssembler /\ ~refused
    BY DEF Fresh
  <2>2. HasFields(NewAssembler)
    BY DEF HasFields, NewAssembler
  <2>3. blockOf \in [DOMAIN blockOf -> Indexes]
    BY <1>1
  <2> QED BY <1>1, <2>1, <2>2, <2>3 DEF StreamOK, NewAssembler
<1>3. \A P : Pick(received, P) = << >>
  BY <1>1, PickEmpty
<1>4. CompletionsStream
  BY <1>1, <1>2, AdaptersAssumption DEF CompletionsStream
<1>5. TextsKept
  <2>1. \A P : Completions!Pick(received, P) = << >>
    BY <1>3, SameBase
  <2>2. \A t : Completions!TextSent(t) = << >>
    BY <2>1 DEF Completions!TextSent
  <2>3. \A w : Completions!ArgumentsSent(w) = << >>
    <3>1. [n \in DOMAIN << >> |-> << >>[n].arguments] = << >>
      OBVIOUS
    <3> QED BY <2>1, <3>1, FlattenEmpty, SameFlatten DEF Completions!ArgumentsSent
  <2> QED BY <1>1, <2>2, <2>3 DEF TextsKept
<1>6. ResponsesStream
  <2>1. \A i : DeltasSent(i) = << >>
    BY <1>3 DEF DeltasSent
  <2>2. Cardinality({}) = 0
    BY FS_EmptySet
  <2> QED BY <1>1, <1>2, <2>1, <2>2 DEF ResponsesStream, Fresh
<1> QED BY <1>4, <1>5, <1>6 DEF StreamInv

LEMMA FreshStreamNext == Fresh' => StreamInv'
BY FreshStream, PTL

LEMMA StreamInvStays ==
    ASSUME StreamInv, UNCHANGED <<api, items, blockOf, next_index, finish_reason, asm, refused, received>>
    PROVE  StreamInv'
<1>1. StreamOK => StreamOK'
  BY DEF StreamOK
<1>2. CompletionsStream => CompletionsStream'
  <2>1. \A i : EntryOK(i) <=> EntryOK(i)'
    BY DEF EntryOK
  <2> QED BY <1>1, <2>1 DEF CompletionsStream
<1>3. TextsKept => TextsKept'
  <2>1. /\ \A t : Completions!TextSent(t)' = Completions!TextSent(t)
        /\ \A w : Completions!ArgumentsSent(w)' = Completions!ArgumentsSent(w)
        /\ AllIndexed' <=> AllIndexed
    BY DEF AllIndexed, Completions!TextSent, Completions!ArgumentsSent
  <2> QED BY <2>1 DEF TextsKept
<1>4. ResponsesStream => ResponsesStream'
  <2>1. \A i : DeltasSent(i)' = DeltasSent(i)
    BY DEF DeltasSent
  <2>2. \A i : (ItemOK(i) <=> ItemOK(i)') /\ (BlockOK(i) <=> BlockOK(i)')
    BY <2>1 DEF ItemOK, BlockOK
  <2> QED BY <1>1, <2>1, <2>2 DEF ResponsesStream
<1> QED BY <1>2, <1>3, <1>4 DEF StreamInv

LEMMA AdapterInvInit == HandlerInit /\ api # "any" => AdapterInv
<1> SUFFICES ASSUME HandlerInit, api # "any" PROVE AdapterInv
  OBVIOUS
<1>1. Fresh /\ pc = "create" /\ api \in Apis
  BY DEF HandlerInit, Init, Fresh
<1> QED BY <1>1, FreshStream DEF AdapterInv, Streaming, Finished, Fresh

\* What the end was is not touched before the next stream.
LEMMA EndStays ==
    ASSUME AdapterInv, UNCHANGED <<api, pc, items, blockOf, next_index, finish_reason, asm, refused, received>>
    PROVE  AdapterInv'
<1>1. Streaming => StreamInv'
  BY StreamInvStays DEF AdapterInv
<1>2. (Streaming' <=> Streaming) /\ (Finished' <=> Finished) /\ (Valid(asm)' <=> Valid(asm))
  BY DEF Streaming, Finished, Valid
<1>3. (CallsClosedNow' <=> CallsClosedNow) /\ (NothingLostNow' <=> NothingLostNow)
  BY DEF CallsClosedNow, NothingLostNow, Completions!CallsClosed, Responses!CallsClosed,
         Completions!NothingLost, Responses!NothingLost, Completions!Named, Completions!TextSent,
         Completions!ArgumentsSent
<1>4. OnlyCallsOpen' <=> OnlyCallsOpen
  BY DEF OnlyCallsOpen
<1> QED BY <1>1, <1>2, <1>3, <1>4 DEF AdapterInv

\* What the adapters have in common.
LEMMA CommonKeepsInv ==
    ASSUME AdapterInv, Common, api' = api
    PROVE  AdapterInv'
<1>1. CASE Created \/ LoopEnds
  <2>1. /\ Streaming /\ Streaming' /\ ~Finished' /\ pc' # "ended"
        /\ UNCHANGED <<api, items, blockOf, next_index, finish_reason, asm, refused, received>>
        /\ pc' \in {"stream", "broken", "tail"}
    BY <1>1 DEF Created, LoopEnds, streamVars, Streaming, Finished
  <2>2. StreamInv'
    BY <2>1, StreamInvStays DEF AdapterInv
  <2> QED BY <2>1, <2>2 DEF AdapterInv
<1>2. CASE Fails
  <2>1. Streaming /\ Yields(<<FinishOf("error")>>) /\ pc' = "ended" /\ ~Streaming'
    BY <1>2 DEF Fails, Over, Streaming
  <2>2. StreamOK /\ api \in Apis \ {"any"}
    BY <2>1, AdaptersAssumption DEF AdapterInv, StreamInv, CompletionsStream, ResponsesStream
  <2> DEFINE k == FinishOf("error")
  <2>3. k.type = "finish" /\ k.kind = "error"
    BY DEF FinishOf
  <2> HIDE DEF k
  <2>4. HasFields(asm) /\ asm.finish = None /\ ~refused
    BY <2>2 DEF StreamOK
  <2>5. Legal(asm, k)
    BY <2>3, <2>4 DEF Legal
  <2>6. asm' = Feed(asm, k) /\ ~refused'
    BY <2>1, <2>4, <2>5, YieldsOne DEF k
  <2>7. asm'.finish = "error"
    BY <2>3, <2>4, <2>6, FeedFinish
  <2>8. ~Finished' /\ asm'.finish # None
    BY <2>7, AdaptersAssumption DEF Finished
  <2> QED BY <2>1, <2>2, <2>6, <2>8 DEF AdapterInv
<1>3. CASE TaskCancelled
  BY <1>3 DEF TaskCancelled, Over, AdapterInv, Streaming, Finished
<1>4. CASE Cancel
  BY <1>4, EndStays DEF Cancel, streamVars
<1>5. CASE NextStream
  <2>1. Fresh' /\ pc' = "create" /\ Streaming'
    BY <1>5 DEF NextStream, Fresh, Streaming
  <2> QED BY <2>1, FreshStreamNext DEF AdapterInv, Finished, Fresh
<1> QED BY <1>1, <1>2, <1>3, <1>4, <1>5 DEF Common

LEMMA CompletionsKeepsInv ==
    ASSUME AdapterInv, Provided, api = "completions", api' = api, Completions!Step
    PROVE  AdapterInv'
<1>0. 0..(MaxItems - 1) \subseteq Indexes /\ api \in Apis
  BY DEF Provided, AdapterInv
<1>1. CASE \E k \in Completions!Item : Completions!Receive(k)
  <2>1. PICK k \in Completions!Item : Completions!Receive(k)
    BY <1>1
  <2>2. /\ pc = "stream" /\ pc' = "stream" /\ Len(received) < MaxItems /\ received' = Append(received, k)
        /\ Completions!TextItem(k) \/ Completions!ToolItem(k) \/ Completions!OtherItem(k)
    BY <2>1 DEF Completions!Receive
  <2>3. CompletionsStream /\ TextsKept
    BY <2>2 DEF AdapterInv, StreamInv, Streaming
  <2>4. CompletionsStream' /\ TextsKept'
    <3>1. CASE Completions!TextItem(k)
      BY <1>0, <2>2, <2>3, <3>1, TextItemKeeps, TextItemTexts
    <3>2. CASE Completions!ToolItem(k)
      BY <1>0, <2>2, <2>3, <3>2, ToolItemKeeps, ToolItemTexts
    <3>3. CASE Completions!OtherItem(k)
      <4>1. k.type \in {"usage", "finish"} /\ UNCHANGED <<items, blockOf, asm>>
        BY <3>3 DEF Completions!OtherItem
      <4> QED BY <2>2, <2>3, <3>3, <4>1, OtherItemKeeps, TextsStay
    <3> QED BY <2>2, <3>1, <3>2, <3>3
  <2>5. ~refused'
    BY <2>4 DEF CompletionsStream, StreamOK
  <2> QED BY <2>2, <2>4, <2>5 DEF AdapterInv, StreamInv, Streaming, Finished
<1>2. CASE Completions!CloseStream
  <2>1. /\ pc \in {"tail", "broken"} /\ pc' = "ended"
        /\ UNCHANGED <<items, blockOf>>
    BY <1>2 DEF Completions!CloseStream, Completions!Over, Completions!streamVars
  <2>2. CompletionsStream /\ TextsKept
    BY <2>1 DEF AdapterInv, StreamInv, Streaming
  <2>3. /\ ~refused' /\ asm'.finish = CompletionsKind
        /\ \A i \in Indexes : asm'.open[i] \in {None, "tool-call"}
        /\ asm'.finish \in {"stop", "tool-calls", "max-tokens"} => (Valid(asm') <=> Completions!CallsClosed)
    BY <1>2, <2>2, CompletionsCloses
  <2>4. asm'.finish # None
    BY <2>3, CompletionsKinds, AdaptersAssumption
  <2>5. Finished' => (Valid(asm') <=> Completions!CallsClosed) /\ Completions!NothingLost'
    BY <1>2, <2>2, <2>3, CompletionsLosesNothing DEF Finished
  <2>6. (Completions!CallsClosed' <=> Completions!CallsClosed) /\ (Valid(asm)' <=> Valid(asm'))
    BY <2>1 DEF Completions!CallsClosed, Valid
  <2>7. Finished' => (Valid(asm)' <=> CallsClosedNow') /\ (Valid(asm)' => NothingLostNow')
    BY <2>5, <2>6 DEF CallsClosedNow, NothingLostNow
  <2>8. OnlyCallsOpen'
    BY <2>3 DEF OnlyCallsOpen
  <2> QED BY <2>1, <2>3, <2>4, <2>7, <2>8 DEF AdapterInv, Streaming
<1> QED BY <1>1, <1>2 DEF Completions!Step

LEMMA ResponsesKeepsInv ==
    ASSUME AdapterInv, Provided, api = "responses", api' = api, Responses!Step
    PROVE  AdapterInv'
<1>0. Conformant /\ EnoughIds /\ api \in Apis
  BY DEF Provided, AdapterInv
<1>1. CASE \E k \in Responses!Event : Responses!Receive(k)
  <2>1. PICK k \in Responses!Event : Responses!Receive(k)
    BY <1>1
  <2>2. /\ pc = "stream" /\ pc' = "stream" /\ received' = Append(received, k) /\ Responses!Conforms(k)
        /\ \/ Responses!DeltaEvent(k) \/ Responses!AddedEvent(k) \/ Responses!DoneEvent(k)
           \/ Responses!OtherDone(k) \/ Responses!CompletedEvent(k)
    BY <1>0, <2>1 DEF Responses!Receive
  <2>3. ResponsesStream
    BY <2>2 DEF AdapterInv, StreamInv, Streaming
  <2>4. ResponsesStream'
    BY <1>0, <2>2, <2>3, DeltaEventKeeps, AddedEventKeeps, DoneEventKeeps, QuietEventKeeps
  <2>5. ~refused'
    BY <2>4 DEF ResponsesStream, StreamOK
  <2> QED BY <2>2, <2>4, <2>5 DEF AdapterInv, StreamInv, Streaming, Finished
<1>2. CASE Responses!CloseStream
  <2>1. /\ pc \in {"tail", "broken"} /\ pc' = "ended"
        /\ UNCHANGED <<items, blockOf>>
    BY <1>2 DEF Responses!CloseStream, Responses!Over, Responses!streamVars
  <2>2. ResponsesStream
    BY <2>1 DEF AdapterInv, StreamInv, Streaming
  <2>3. /\ ~refused' /\ asm'.finish # None
        /\ \A i \in Indexes : asm'.open[i] \in {None, "tool-call"}
        /\ Valid(asm') <=> Responses!CallsClosed
        /\ Valid(asm') => Responses!NothingLost'
    BY <1>2, <2>2, ResponsesCloses
  <2>4. (Responses!CallsClosed' <=> Responses!CallsClosed) /\ (Valid(asm)' <=> Valid(asm'))
    BY <2>1 DEF Responses!CallsClosed, Valid
  <2>5. (Valid(asm)' <=> CallsClosedNow') /\ (Valid(asm)' => NothingLostNow')
    BY <2>3, <2>4 DEF CallsClosedNow, NothingLostNow
  <2>6. OnlyCallsOpen'
    BY <2>3 DEF OnlyCallsOpen
  <2> QED BY <2>1, <2>3, <2>5, <2>6 DEF AdapterInv, Streaming
<1> QED BY <1>1, <1>2 DEF Responses!Step

LEMMA HandlerKeepsInv ==
    ASSUME AdapterInv, Provided, [HandlerNext]_vars
    PROVE  AdapterInv'
<1>1. CASE UNCHANGED vars
  BY <1>1, EndStays DEF vars, baseVars, streamVars
<1>2. CASE HandlerNext
  <2>1. api' = api /\ api # "any"
    BY <1>2 DEF HandlerNext, AdapterInv
  <2> QED BY <1>2, <2>1, CommonKeepsInv, CompletionsKeepsInv, ResponsesKeepsInv DEF HandlerNext
<1> QED BY <1>1, <1>2

LEMMA AdapterInvHolds == ASSUME Provided PROVE Spec => [](api # "any" => AdapterInv)
<1>1. HandlerInit => (api # "any" => AdapterInv)
  BY AdapterInvInit
<1>2. (api # "any" => AdapterInv) /\ [HandlerNext]_vars => (api # "any" => AdapterInv)'
  <2> SUFFICES ASSUME api # "any" => AdapterInv, [HandlerNext]_vars, api' # "any" PROVE AdapterInv'
    OBVIOUS
  <2>1. api' = api
    BY DEF HandlerNext, vars
  <2> QED BY <2>1, HandlerKeepsInv
<1> QED BY <1>1, <1>2, PTL DEF Spec

\* PRD-B2-llm-adapter.md:135-138, but for the ends of calls: no chunk of the two
\* adapters breaks the protocol, for chat items in any order and the events of
\* a Responses provider that keeps its own; a stream the task was not cancelled
\* in has a finish; and one that finishes normally has ended its texts and
\* reasoning.
THEOREM ProtocolIsKept == ASSUME Provided PROVE Spec => []ProtocolKept
<1>1. (api # "any" => AdapterInv) => ProtocolKept
  BY DEF AdapterInv, ProtocolKept, OnlyCallsOpen
<1> QED BY <1>1, AdapterInvHolds, PTL

\* A stream that finishes normally is complete for the assembler exactly if
\* the provider has named, or closed, the calls it began.
THEOREM ValidMeansClosed == ASSUME Provided PROVE Spec => []ValidIfCallsClosed
<1>1. (api # "any" => AdapterInv) => ValidIfCallsClosed
  BY DEF AdapterInv, ValidIfCallsClosed, CallsClosedNow
<1> QED BY <1>1, AdapterInvHolds, PTL

\* What the assembler put together is what the provider sent.
THEOREM NothingIsLost == ASSUME Provided PROVE Spec => []NothingLost
<1>1. (api # "any" => AdapterInv) => NothingLost
  BY DEF AdapterInv, NothingLost, NothingLostNow
<1> QED BY <1>1, AdapterInvHolds, PTL

-----------------------------------------------------------------------------
(* Blocks are put together from their own deltas.  On the list of chunks,  *)
(* the starts that were sent number the blocks; Assembled says that what   *)
(* the assembler has of a block, open or ended, is what the list says.     *)

Mapped(f, d) == [n \in DOMAIN d |-> f[d[n]]]

\* The list t begins with the images of the elements of s, and the positions
\* Q are the positions P.
Images(T, U, f, s, t, P, Q) ==
    /\ f \in [T -> U] /\ s \in Seq(T)
    /\ Len(s) <= Len(t)
    /\ \A n \in 1..Len(s) : t[n] = f[s[n]] /\ (n \in Q <=> n \in P)
    /\ \A n \in 1..Len(t) : n \in Q => n <= Len(s)

\* The same positions picked from a list and from its image under f.
LEMMA PickMap ==
    ASSUME NEW T, NEW U, NEW f, NEW s, NEW V, NEW t \in Seq(V), NEW P, NEW Q, Images(T, U, f, s, t, P, Q)
    PROVE  Pick(t, Q) = Mapped(f, Pick(s, P))
<1> DEFINE Image(d) == [n \in DOMAIN d |-> f[d[n]]]
<1>0. f \in [T -> U] /\ s \in Seq(T)
  BY DEF Images
<1>1. PICK g : Picking(g, s, P, Len(s)) /\ Pick(s, P) = g[Len(s)]
  BY <1>0, PickDef
<1>2. PICK h : Picking(h, t, Q, Len(t)) /\ Pick(t, Q) = h[Len(t)]
  BY PickDef
<1> DEFINE N == Len(s)
           M == Len(t)
<1>3. N \in Nat /\ M \in Nat /\ N <= M
  BY <1>0 DEF Images
<1> HIDE DEF N, M
<1>4. /\ g[0] = << >> /\ h[0] = << >>
      /\ \A n \in 0..(N - 1) : g[n + 1] = IF n + 1 \in P THEN Append(g[n], s[n + 1]) ELSE g[n]
      /\ \A n \in 0..(M - 1) : h[n + 1] = IF n + 1 \in Q THEN Append(h[n], t[n + 1]) ELSE h[n]
  <2>1. N \in Nat /\ Picking(g, s, P, N)
    BY <1>1, <1>3 DEF N
  <2>2. M \in Nat /\ Picking(h, t, Q, M)
    BY <1>2, <1>3 DEF M
  <2>3. /\ g[0] = << >>
        /\ \A n \in 0..(N - 1) : g[n + 1] = IF n + 1 \in P THEN Append(g[n], s[n + 1]) ELSE g[n]
    BY ONLY <2>1, PickingSteps
  <2>4. /\ h[0] = << >>
        /\ \A n \in 0..(M - 1) : h[n + 1] = IF n + 1 \in Q THEN Append(h[n], t[n + 1]) ELSE h[n]
    BY ONLY <2>2, PickingSteps
  <2> QED BY <2>3, <2>4
<1>5. \A n \in 0..N : g[n] \in Seq(T)
  BY <1>0, <1>1, PickingTyped DEF N
<1>6. \A n \in 1..N : s[n] \in T /\ t[n] = f[s[n]] /\ (n \in Q <=> n \in P)
  BY <1>0 DEF N, Images
<1> DEFINE S == {n \in Nat : n <= N => h[n] = Image(g[n])}
<1>7. 0 \in S
  <2>1. Image(<< >>) = << >>
    OBVIOUS
  <2> QED BY <1>4, <2>1
<1>8. ASSUME NEW n \in Nat, n \in S PROVE n + 1 \in S
  <2> SUFFICES ASSUME n + 1 <= N PROVE h[n + 1] = Image(g[n + 1])
    OBVIOUS
  <2>1. n \in 0..(N - 1) /\ n \in 0..(M - 1) /\ n \in 0..N /\ n + 1 \in 1..N
    BY <1>3
  <2>2. h[n] = Image(g[n])
    BY <1>3, <1>8, <2>1
  <2> HIDE DEF S, Image
  <2>3. g[n] \in Seq(T) /\ s[n + 1] \in T /\ t[n + 1] = f[s[n + 1]] /\ (n + 1 \in Q <=> n + 1 \in P)
    BY <1>5, <1>6, <2>1
  <2>4. Image(Append(g[n], s[n + 1])) = Append(Image(g[n]), f[s[n + 1]])
    <3> DEFINE d == g[n]
               e == s[n + 1]
    <3> SUFFICES Image(Append(d, e)) = Append(Image(d), f[e])
      OBVIOUS
    <3>1. d \in Seq(T) /\ e \in T
      BY <2>3
    <3> HIDE DEF d, e
    <3> QED BY <1>0, <3>1, MapAppend DEF Image
  <2> QED BY <1>4, <2>1, <2>2, <2>3, <2>4
<1> HIDE DEF S, Image
<1>9. Nat \subseteq S
  BY <1>7, <1>8, Induction
<1>10. h[N] = Image(g[N])
  BY <1>3, <1>9 DEF S
<1> DEFINE R == {n \in Nat : N + n <= M => h[N + n] = h[N]}
<1>11. 0 \in R
  BY <1>3
<1>12. ASSUME NEW n \in Nat, n \in R PROVE n + 1 \in R
  <2> SUFFICES ASSUME N + (n + 1) <= M PROVE h[N + (n + 1)] = h[N]
    OBVIOUS
  <2>1. N + n \in 0..(M - 1) /\ N + n <= M /\ N + (n + 1) = (N + n) + 1 /\ (N + n) + 1 \in 1..M /\ ~((N + n) + 1 <= N)
    BY <1>3
  <2>2. (N + n) + 1 \notin Q
    BY <2>1 DEF N, M, Images
  <2>3. h[N + n] = h[N]
    BY <1>12, <2>1
  <2> QED BY <1>4, <2>1, <2>2, <2>3
<1> HIDE DEF R
<1>13. Nat \subseteq R
  BY <1>11, <1>12, Induction
<1>14. h[M] = h[N]
  <2>1. M - N \in Nat /\ N + (M - N) = M
    BY <1>3
  <2>2. M - N \in R
    BY <1>13, <2>1
  <2>3. N + (M - N) <= M => h[N + (M - N)] = h[N]
    BY <2>2 DEF R
  <2> QED BY <1>3, <2>1, <2>3
<1>15. Pick(t, Q) = Image(Pick(s, P))
  BY <1>1, <1>2, <1>10, <1>14 DEF N, M
<1> QED BY <1>15 DEF Image, Mapped

DeltaAt(s, i) == {p \in 1..Len(s) : s[p].type \in DeltaTypes /\ s[p].index = i}

DeltasIn(s, i) ==
    LET list == Pick(s, DeltaAt(s, i))
    IN  [n \in DOMAIN list |-> list[n].text]

StartsIn(s) == Pick(s, Starts(s, Len(s)))

\* The starts of the blocks a response has, cut off or not.
KeptAt(s, cut) == {p \in 1..Len(s) : s[p].type = "block-start" /\ (cut => s[p].block # "tool-call")}
KeptOf(st, cut) == {n \in 1..Len(st) : cut => st[n].block # "tool-call"}

LEMMA DeltasAppend ==
    ASSUME NEW s \in Seq(Custom!Chunk), NEW k \in Custom!Chunk, NEW i
    PROVE  DeltasIn(Append(s, k), i) =
             IF k.type \in DeltaTypes /\ k.index = i THEN Append(DeltasIn(s, i), k.text) ELSE DeltasIn(s, i)
<1> DEFINE t == Append(s, k)
           f == [c \in Custom!Chunk |-> c.text]
           list == Pick(s, DeltaAt(s, i))
<1>1. Len(t) = Len(s) + 1 /\ t[Len(s) + 1] = k /\ \A p \in 1..Len(s) : t[p] = s[p]
  BY AppendKeeps
<1>2. Len(s) \in Nat /\ list \in Seq(Custom!Chunk)
  BY PickTyped
<1> HIDE DEF t
<1>3. \A p \in 1..Len(s) : p \in DeltaAt(t, i) <=> p \in DeltaAt(s, i)
  BY <1>1, <1>2 DEF DeltaAt
<1>4. Len(s) + 1 \in DeltaAt(t, i) <=> k.type \in DeltaTypes /\ k.index = i
  BY <1>1, <1>2 DEF DeltaAt
<1>5. Pick(t, DeltaAt(t, i)) = IF Len(s) + 1 \in DeltaAt(t, i) THEN Append(list, k) ELSE list
  <2> DEFINE D == DeltaAt(t, i)
             B == DeltaAt(s, i)
  <2>1. \A p \in 1..Len(s) : p \in D <=> p \in B
    BY <1>3
  <2> HIDE DEF D, B
  <2>2. Pick(Append(s, k), D) = IF Len(s) + 1 \in D THEN Append(Pick(s, B), k) ELSE Pick(s, B)
    BY <2>1, PickAppend
  <2> QED BY <2>2 DEF D, B, t
<1> HIDE DEF list
<1>6. f \in [Custom!Chunk -> {c.text : c \in Custom!Chunk}] /\ \A c \in Custom!Chunk : f[c] = c.text
  OBVIOUS
<1> HIDE DEF f
<1>7. [n \in DOMAIN Append(list, k) |-> f[Append(list, k)[n]]] = Append([n \in DOMAIN list |-> f[list[n]]], f[k])
  BY <1>2, <1>6, MapAppend
<1>8. /\ Append(list, k) \in Seq(Custom!Chunk)
      /\ \A d \in Seq(Custom!Chunk) : \A n \in DOMAIN d : d[n] \in Custom!Chunk
  BY <1>2
<1>9. [n \in DOMAIN Append(list, k) |-> Append(list, k)[n].text] = Append([n \in DOMAIN list |-> list[n].text], k.text)
  <2>1. \A d \in Seq(Custom!Chunk) : [n \in DOMAIN d |-> f[d[n]]] = [n \in DOMAIN d |-> d[n].text]
    BY <1>6, <1>8
  <2> QED BY <1>2, <1>6, <1>7, <1>8, <2>1
<1> QED BY <1>4, <1>5, <1>9 DEF DeltasIn, t, list

LEMMA StartsAppend ==
    ASSUME NEW s \in Seq(Custom!Chunk), NEW k \in Custom!Chunk
    PROVE  StartsIn(Append(s, k)) = IF k.type = "block-start" THEN Append(StartsIn(s), k) ELSE StartsIn(s)
<1> DEFINE t == Append(s, k)
           A == Starts(t, Len(t))
           B == Starts(s, Len(s))
<1>1. Len(t) = Len(s) + 1 /\ t[Len(s) + 1] = k /\ (\A p \in 1..Len(s) : t[p] = s[p]) /\ Len(s) \in Nat
  BY AppendKeeps
<1> HIDE DEF t
<1>2. (\A p \in 1..Len(s) : p \in A <=> p \in B) /\ (Len(s) + 1 \in A <=> k.type = "block-start")
  BY <1>1 DEF Starts
<1> HIDE DEF A, B
<1>3. Pick(Append(s, k), A) = IF Len(s) + 1 \in A THEN Append(Pick(s, B), k) ELSE Pick(s, B)
  BY <1>2, PickAppend
<1> QED BY <1>2, <1>3 DEF StartsIn, t, A, B

LEMMA KeptAppend ==
    ASSUME NEW s \in Seq(Custom!Chunk), NEW k \in Custom!Chunk, NEW cut \in BOOLEAN
    PROVE  Pick(Append(s, k), KeptAt(Append(s, k), cut)) =
             IF k.type = "block-start" /\ (cut => k.block # "tool-call")
             THEN Append(Pick(s, KeptAt(s, cut)), k) ELSE Pick(s, KeptAt(s, cut))
<1> DEFINE t == Append(s, k)
           A == KeptAt(t, cut)
           B == KeptAt(s, cut)
<1>1. Len(t) = Len(s) + 1 /\ t[Len(s) + 1] = k /\ (\A p \in 1..Len(s) : t[p] = s[p]) /\ Len(s) \in Nat
  BY AppendKeeps
<1> HIDE DEF t
<1>2. /\ \A p \in 1..Len(s) : p \in A <=> p \in B
      /\ Len(s) + 1 \in A <=> k.type = "block-start" /\ (cut => k.block # "tool-call")
  BY <1>1 DEF KeptAt
<1> HIDE DEF A, B
<1>3. Pick(Append(s, k), A) = IF Len(s) + 1 \in A THEN Append(Pick(s, B), k) ELSE Pick(s, B)
  BY <1>2, PickAppend
<1> QED BY <1>2, <1>3 DEF t, A, B

LEMMA KeptOfAppend ==
    ASSUME NEW s \in Seq(Custom!Chunk), NEW k \in Custom!Chunk, NEW cut \in BOOLEAN
    PROVE  Pick(Append(s, k), KeptOf(Append(s, k), cut)) =
             IF cut => k.block # "tool-call"
             THEN Append(Pick(s, KeptOf(s, cut)), k) ELSE Pick(s, KeptOf(s, cut))
<1> DEFINE t == Append(s, k)
           A == KeptOf(t, cut)
           B == KeptOf(s, cut)
<1>1. Len(t) = Len(s) + 1 /\ t[Len(s) + 1] = k /\ (\A p \in 1..Len(s) : t[p] = s[p]) /\ Len(s) \in Nat
  BY AppendKeeps
<1> HIDE DEF t
<1>2. (\A p \in 1..Len(s) : p \in A <=> p \in B) /\ (Len(s) + 1 \in A <=> (cut => k.block # "tool-call"))
  BY <1>1 DEF KeptOf
<1> HIDE DEF A, B
<1>3. Pick(Append(s, k), A) = IF Len(s) + 1 \in A THEN Append(Pick(s, B), k) ELSE Pick(s, B)
  BY <1>2, PickAppend
<1> QED BY <1>2, <1>3 DEF t, A, B

\* A block as the list says it should be.
BlockOf(s, c) == [type |-> WireType(c.block), text |-> DeltasIn(s, c.index)]

Assembled(a, s) ==
    LET st == StartsIn(s)
    IN  /\ st \in Seq(Custom!Chunk) /\ Len(st) = a.next
        /\ \A n \in 1..Len(st) : st[n].block \in BlockTypes /\ st[n].index = n - 1 /\ n - 1 \in Indexes
        /\ \A i \in Indexes : a.text[i] = DeltasIn(s, i)
        /\ \A n \in 1..Len(st) : \/ a.open[n - 1] = st[n].block
                                 \/ a.open[n - 1] = None /\ a.blocks[n - 1] = BlockOf(s, st[n])
        /\ \A cut \in BOOLEAN : Pick(s, KeptAt(s, cut)) = Pick(st, KeptOf(st, cut))

LEMMA AssembledInit == Assembled(NewAssembler, << >>)
<1>1. /\ 1..0 = {} /\ Len(<< >>) = 0 /\ << >> \in Seq(Custom!Chunk)
      /\ DOMAIN << >> = {} /\ \A P : Pick(<< >>, P) = << >>
  BY PickEmpty
<1>2. StartsIn(<< >>) = << >> /\ \A i : DeltasIn(<< >>, i) = << >>
  <2>1. \A i : DeltasIn(<< >>, i) = [n \in DOMAIN << >> |-> << >>[n].text]
    BY <1>1 DEF DeltasIn
  <2>2. [n \in DOMAIN << >> |-> << >>[n].text] = << >>
    OBVIOUS
  <2> QED BY <1>1, <2>1, <2>2 DEF StartsIn
<1>3. NewAssembler.next = 0 /\ \A i \in Indexes : NewAssembler.text[i] = << >>
  BY DEF NewAssembler
<1> QED BY <1>1, <1>2, <1>3 DEF Assembled

\* A chunk that is not a start leaves the starts alone.
LEMMA StartsStay ==
    ASSUME NEW s \in Seq(Custom!Chunk), NEW k \in Custom!Chunk, k.type # "block-start"
    PROVE  /\ StartsIn(Append(s, k)) = StartsIn(s)
           /\ \A cut \in BOOLEAN : Pick(Append(s, k), KeptAt(Append(s, k), cut)) = Pick(s, KeptAt(s, cut))
<1>1. ASSUME NEW cut \in BOOLEAN
      PROVE  Pick(Append(s, k), KeptAt(Append(s, k), cut)) = Pick(s, KeptAt(s, cut))
  BY KeptAppend
<1> QED BY <1>1, StartsAppend

LEMMA StartAssembled ==
    ASSUME NEW s \in Seq(Custom!Chunk), NEW k \in Custom!Chunk, NEW a, AssemblerInv(a), Assembled(a, s),
           Legal(a, k), k.type = "block-start"
    PROVE  Assembled(Feed(a, k), Append(s, k))
<1> DEFINE t == Append(s, k)
           c == Feed(a, k)
           st == StartsIn(s)
           su == StartsIn(t)
<1>1. /\ st \in Seq(Custom!Chunk) /\ Len(st) = a.next /\ a.next \in Nat
      /\ \A n \in 1..Len(st) : st[n].block \in BlockTypes /\ st[n].index = n - 1 /\ n - 1 \in Indexes
      /\ \A i \in Indexes : a.text[i] = DeltasIn(s, i)
      /\ \A n \in 1..Len(st) : \/ a.open[n - 1] = st[n].block
                               \/ a.open[n - 1] = None /\ a.blocks[n - 1] = BlockOf(s, st[n])
      /\ \A cut \in BOOLEAN : Pick(s, KeptAt(s, cut)) = Pick(st, KeptOf(st, cut))
  BY DEF Assembled, AssemblerInv, IsAssembler
<1>2. HasFields(a) /\ a.open \in [Indexes -> BlockTypes \cup {None}]
  BY DEF AssemblerInv, IsAssembler
<1>3. k.index = a.next /\ k.block \in BlockTypes /\ k.index \in Indexes
  BY ChunkTyped, DeltaOfTypes DEF Legal, ChunkOK, OfBlock, DeltaTypes
<1>4. /\ c.next = a.next + 1 /\ c.open = [a.open EXCEPT ![k.index] = k.block]
      /\ c.text = a.text /\ c.blocks = a.blocks
  BY <1>2, FeedStart
<1>5. su = Append(st, k)
  BY StartsAppend
<1> HIDE DEF st
<1>6. /\ su \in Seq(Custom!Chunk) /\ Len(su) = Len(st) + 1 /\ su[Len(st) + 1] = k
      /\ \A n \in 1..Len(st) : su[n] = st[n]
      /\ 1..Len(su) = 1..Len(st) \cup {Len(st) + 1} /\ Len(st) \in Nat
  BY <1>1, <1>5
<1>7. \A i : DeltasIn(t, i) = DeltasIn(s, i)
  BY DeltasAppend DEF DeltaTypes
<1>8. ASSUME NEW cut \in BOOLEAN
      PROVE  Pick(t, KeptAt(t, cut)) = Pick(su, KeptOf(su, cut))
  <2>1. Pick(t, KeptAt(t, cut)) = IF cut => k.block # "tool-call" THEN Append(Pick(s, KeptAt(s, cut)), k)
                                  ELSE Pick(s, KeptAt(s, cut))
    BY KeptAppend
  <2>2. Pick(Append(st, k), KeptOf(Append(st, k), cut)) =
          IF cut => k.block # "tool-call" THEN Append(Pick(st, KeptOf(st, cut)), k) ELSE Pick(st, KeptOf(st, cut))
    BY <1>1, KeptOfAppend
  <2> QED BY <1>1, <1>5, <2>1, <2>2
<1> HIDE DEF t, c, su
<1>9. \A d : BlockOf(t, d) = BlockOf(s, d)
  BY <1>7 DEF BlockOf
<1>10. ASSUME NEW n \in 1..Len(su)
       PROVE  /\ su[n].block \in BlockTypes /\ su[n].index = n - 1 /\ n - 1 \in Indexes
              /\ \/ c.open[n - 1] = su[n].block
                 \/ c.open[n - 1] = None /\ c.blocks[n - 1] = BlockOf(t, su[n])
  <2>1. CASE n = Len(st) + 1
    <3>1. su[n] = k /\ n - 1 = k.index
      BY <1>1, <1>3, <1>6, <2>1
    <3> QED BY <1>2, <1>3, <1>4, <3>1
  <2>2. CASE n \in 1..Len(st)
    <3>1. su[n] = st[n] /\ n - 1 # k.index /\ n - 1 \in Indexes
      BY <1>1, <1>3, <1>6, <2>2
    <3>2. c.open[n - 1] = a.open[n - 1] /\ c.blocks[n - 1] = a.blocks[n - 1]
      BY <1>2, <1>4, <3>1
    <3> QED BY <1>1, <1>9, <2>2, <3>1, <3>2
  <2> QED BY <1>6, <2>1, <2>2
<1>11. Len(su) = c.next /\ \A i \in Indexes : c.text[i] = DeltasIn(t, i)
  BY <1>1, <1>4, <1>6, <1>7
<1>12. Assembled(c, t)
  BY <1>6, <1>8, <1>10, <1>11 DEF Assembled, su
<1> QED BY <1>12 DEF c, t

LEMMA OtherAssembled ==
    ASSUME NEW s \in Seq(Custom!Chunk), NEW k \in Custom!Chunk, NEW a, AssemblerInv(a), Assembled(a, s),
           Legal(a, k), k.type # "block-start"
    PROVE  Assembled(Feed(a, k), Append(s, k))
<1> DEFINE t == Append(s, k)
           c == Feed(a, k)
           st == StartsIn(s)
<1>1. /\ st \in Seq(Custom!Chunk) /\ Len(st) = a.next /\ a.next \in Nat
      /\ \A n \in 1..Len(st) : st[n].block \in BlockTypes /\ st[n].index = n - 1 /\ n - 1 \in Indexes
      /\ \A i \in Indexes : a.text[i] = DeltasIn(s, i)
      /\ \A n \in 1..Len(st) : \/ a.open[n - 1] = st[n].block
                               \/ a.open[n - 1] = None /\ a.blocks[n - 1] = BlockOf(s, st[n])
      /\ \A cut \in BOOLEAN : Pick(s, KeptAt(s, cut)) = Pick(st, KeptOf(st, cut))
  BY DEF Assembled, AssemblerInv, IsAssembler
<1>2. /\ HasFields(a) /\ a.open \in [Indexes -> BlockTypes \cup {None}]
      /\ a.text \in [Indexes -> Seq(Deltas)] /\ a.blocks \in [Indexes -> Block \cup {None}]
      /\ \A i \in Indexes : a.open[i] # None => i < a.next
  BY DEF AssemblerInv, IsAssembler, OpenedOnce
<1>3. StartsIn(t) = st /\ \A cut \in BOOLEAN : Pick(t, KeptAt(t, cut)) = Pick(s, KeptAt(s, cut))
  BY StartsStay
<1>4. \A i : DeltasIn(t, i) = IF k.type \in DeltaTypes /\ k.index = i THEN Append(DeltasIn(s, i), k.text)
                              ELSE DeltasIn(s, i)
  BY DeltasAppend
<1>5. None \notin BlockTypes
  BY AssemblerAssumption
<1>6. k.type \in DeltaTypes \cup {"block-end", "usage", "finish"} /\ (k.type \in DeltaTypes \cup {"block-end"} => k.index \in Indexes)
  BY ChunkTyped DEF ChunkOK, OfBlock
<1> HIDE DEF st, t
<1>7. SUFFICES /\ c.next = a.next
               /\ \A i \in Indexes : c.text[i] = DeltasIn(t, i)
               /\ \A n \in 1..Len(st) : \/ c.open[n - 1] = st[n].block
                                        \/ c.open[n - 1] = None /\ c.blocks[n - 1] = BlockOf(t, st[n])
  <2> HIDE DEF c
  <2>1. Assembled(c, t) <=>
          LET su == StartsIn(t)
          IN  /\ su \in Seq(Custom!Chunk) /\ Len(su) = c.next
              /\ \A n \in 1..Len(su) : su[n].block \in BlockTypes /\ su[n].index = n - 1 /\ n - 1 \in Indexes
              /\ \A i \in Indexes : c.text[i] = DeltasIn(t, i)
              /\ \A n \in 1..Len(su) : \/ c.open[n - 1] = su[n].block
                                       \/ c.open[n - 1] = None /\ c.blocks[n - 1] = BlockOf(t, su[n])
              /\ \A cut \in BOOLEAN : Pick(t, KeptAt(t, cut)) = Pick(su, KeptOf(su, cut))
    BY DEF Assembled
  <2>2. Assembled(c, t)
    BY <1>1, <1>3, <1>7, <2>1
  <2> QED BY <2>2 DEF c, t
<1>8. CASE k.type \in DeltaTypes
  <2> DEFINE j == k.index
  <2>1. j \in Indexes /\ a.open[j] # None
    <3>1. a.open[j] = DeltaOf[k.type] /\ DeltaOf[k.type] \in BlockTypes
      BY <1>8, DeltaOfTypes DEF Legal, DeltaTypes, BlockTypes
    <3> QED BY <1>5, <1>6, <1>8, <3>1
  <2>2. /\ c.next = a.next /\ c.open = a.open /\ c.blocks = a.blocks
        /\ c.text = [a.text EXCEPT ![j] = Append(@, k.text)]
    BY <1>2, <1>8, FeedDelta
  <2> HIDE DEF c, j
  <2>3. \A i : DeltasIn(t, i) = IF i = j THEN Append(DeltasIn(s, i), k.text) ELSE DeltasIn(s, i)
    BY <1>4, <1>8 DEF j
  <2>4. ASSUME NEW i \in Indexes PROVE c.text[i] = DeltasIn(t, i)
    <3>1. c.text[i] = IF i = j THEN Append(a.text[i], k.text) ELSE a.text[i]
      BY <1>2, <2>2
    <3> QED BY <1>1, <2>3, <3>1
  <2>5. ASSUME NEW n \in 1..Len(st)
        PROVE  \/ c.open[n - 1] = st[n].block
               \/ c.open[n - 1] = None /\ c.blocks[n - 1] = BlockOf(t, st[n])
    <3>1. CASE a.open[n - 1] = st[n].block
      BY <2>2, <3>1
    <3>2. CASE a.open[n - 1] = None /\ a.blocks[n - 1] = BlockOf(s, st[n])
      <4>1. st[n].index # j
        BY <1>1, <2>1, <3>2
      <4>2. BlockOf(t, st[n]) = BlockOf(s, st[n])
        BY <2>3, <4>1 DEF BlockOf
      <4> QED BY <2>2, <3>2, <4>2
    <3> QED BY <1>1, <3>1, <3>2
  <2> QED BY <2>2, <2>4, <2>5
<1>9. CASE k.type = "block-end"
  <2> DEFINE j == k.index
  <2>1. j \in Indexes /\ a.open[j] # None
    BY <1>6, <1>9, DeltaOfTypes DEF Legal, DeltaTypes
  <2>2. /\ c.next = a.next /\ c.text = a.text /\ c.open = [a.open EXCEPT ![j] = None]
        /\ c.blocks = [a.blocks EXCEPT ![j] = [type |-> WireType(a.open[j]), text |-> a.text[j]]]
    BY <1>2, <1>9, FeedEnd
  <2> HIDE DEF c, j
  <2>3. \A i : DeltasIn(t, i) = DeltasIn(s, i)
    BY <1>4, <1>9 DEF DeltaTypes
  <2>4. \A d : BlockOf(t, d) = BlockOf(s, d)
    BY <2>3 DEF BlockOf
  <2>5. ASSUME NEW n \in 1..Len(st)
        PROVE  \/ c.open[n - 1] = st[n].block
               \/ c.open[n - 1] = None /\ c.blocks[n - 1] = BlockOf(t, st[n])
    <3>1. CASE n - 1 = j
      <4>1. a.open[j] = st[n].block /\ st[n].index = j /\ a.text[j] = DeltasIn(s, j)
        BY <1>1, <2>1, <3>1
      <4>2. c.open[n - 1] = None
            /\ c.blocks[n - 1] = [type |-> WireType(a.open[j]), text |-> a.text[j]]
        BY <1>2, <2>1, <2>2, <3>1
      <4> QED BY <2>4, <4>1, <4>2 DEF BlockOf
    <3>2. CASE n - 1 # j
      <4>1. n - 1 \in Indexes
        BY <1>1
      <4>2. c.open[n - 1] = a.open[n - 1] /\ c.blocks[n - 1] = a.blocks[n - 1]
        BY <1>2, <2>2, <3>2, <4>1
      <4> QED BY <1>1, <2>4, <4>2
    <3> QED BY <3>1, <3>2
  <2> QED BY <1>1, <2>2, <2>3, <2>5
<1>10. CASE k.type \in {"usage", "finish"}
  <2>1. c.next = a.next /\ c.text = a.text /\ c.open = a.open /\ c.blocks = a.blocks
    BY <1>2, <1>10, FeedUsage, FeedFinish
  <2> HIDE DEF c
  <2>2. \A i : DeltasIn(t, i) = DeltasIn(s, i)
    BY <1>4, <1>10 DEF DeltaTypes
  <2>3. \A d : BlockOf(t, d) = BlockOf(s, d)
    BY <2>2 DEF BlockOf
  <2> QED BY <1>1, <2>1, <2>2, <2>3
<1> QED BY <1>6, <1>8, <1>9, <1>10

LEMMA ChunkAssembled ==
    ASSUME NEW s \in Seq(Custom!Chunk), NEW k \in Custom!Chunk, NEW a, AssemblerInv(a), Assembled(a, s), Legal(a, k)
    PROVE  Assembled(Feed(a, k), Append(s, k))
BY StartAssembled, OtherAssembled

\* The indexes of blocks start at 0 and have no gaps, up to a bound.
Gapless == \E n \in Nat : Indexes = 0..(n - 1)

LEMMA GaplessSize == ASSUME Gapless PROVE Cardinality(Indexes) \in Nat /\ Indexes = 0..(Cardinality(Indexes) - 1)
<1>1. PICK n \in Nat : Indexes = 0..(n - 1)
  BY DEF Gapless
<1>2. Cardinality(0..(n - 1)) = n
  BY FS_Interval
<1> QED BY <1>1, <1>2

\* blocks() of a complete response: the blocks the list says, in the order of
\* their starts.
LEMMA BlocksAre ==
    ASSUME Gapless, NEW s \in Seq(Custom!Chunk), NEW a, AssemblerInv(a), Assembled(a, s), Valid(a)
    PROVE  LET starts == Pick(s, KeptAt(s, a.finish = "max-tokens"))
           IN  Blocks(a) = [n \in DOMAIN starts |-> BlockOf(s, starts[n])]
<1> DEFINE cut == a.finish = "max-tokens"
           st == StartsIn(s)
           N == Cardinality(Indexes)
           all == [n \in 1..N |-> a.blocks[n - 1]]
           Q == {n \in DOMAIN all : Kept(a, all[n])}
           f == [c \in Custom!Chunk |-> BlockOf(s, c)]
           U == {BlockOf(s, c) : c \in Custom!Chunk}
<1>1. /\ st \in Seq(Custom!Chunk) /\ Len(st) = a.next /\ a.next \in Nat
      /\ \A n \in 1..Len(st) : st[n].block \in BlockTypes /\ st[n].index = n - 1 /\ n - 1 \in Indexes
      /\ \A n \in 1..Len(st) : \/ a.open[n - 1] = st[n].block
                               \/ a.open[n - 1] = None /\ a.blocks[n - 1] = BlockOf(s, st[n])
  BY DEF Assembled, AssemblerInv, IsAssembler
<1>2. Pick(s, KeptAt(s, cut)) = Pick(st, KeptOf(st, cut))
  <2>1. cut \in BOOLEAN
    OBVIOUS
  <2> HIDE DEF cut
  <2> QED BY <2>1 DEF Assembled
<1>3. a.blocks \in [Indexes -> Block \cup {None}] /\ \A i \in Indexes : a.blocks[i] # None => i < a.next
  BY DEF AssemblerInv, IsAssembler, OpenedOnce
<1>4. N \in Nat /\ Indexes = 0..(N - 1)
  BY GaplessSize
<1>5. Len(st) <= N
  <2>1. CASE Len(st) = 0
    BY <1>4, <2>1
  <2>2. CASE Len(st) # 0
    <3>1. Len(st) \in 1..Len(st) /\ Len(st) \in Nat
      BY <1>1, <2>2
    <3>2. Len(st) - 1 \in Indexes
      BY <1>1, <3>1
    <3> QED BY <1>4, <3>1, <3>2
  <2> QED BY <2>1, <2>2
<1> HIDE DEF st, N
<1>6. \A n \in 1..Len(st) : a.blocks[n - 1] = BlockOf(s, st[n])
  <2>1. ASSUME NEW n \in 1..Len(st) PROVE a.blocks[n - 1] = BlockOf(s, st[n])
    <3>1. n - 1 \in Indexes /\ st[n].block # None
      BY <1>1, AssemblerAssumption
    <3>2. a.open[n - 1] = None
      BY <3>1 DEF Valid
    <3> QED BY <1>1, <3>1, <3>2
  <2> QED BY <2>1
<1>7. f \in [Custom!Chunk -> U] /\ \A c \in Custom!Chunk : f[c] = BlockOf(s, c)
  OBVIOUS
<1> HIDE DEF f, U
<1>8. all \in Seq(Block \cup {None}) /\ Len(all) = N /\ DOMAIN all = 1..N /\ \A n \in 1..N : all[n] = a.blocks[n - 1]
  <2>1. \A n \in 1..N : n - 1 \in Indexes
    BY <1>4
  <2>2. all \in [1..N -> Block \cup {None}]
    BY <1>3, <2>1
  <2>3. all \in Seq(Block \cup {None})
    BY <1>4, <2>2
  <2> QED BY <1>4, <2>2, <2>3
<1>9. \A n \in 1..N : n \in Q <=> Kept(a, all[n])
  BY <1>8
<1>10. Q \subseteq 1..N
  BY <1>8
<1> HIDE DEF all, Q
<1>11. ASSUME NEW n \in 1..Len(st)
       PROVE  all[n] = f[st[n]] /\ (n \in Q <=> n \in KeptOf(st, cut))
  <2>1. n \in 1..N /\ st[n] \in Custom!Chunk
    BY <1>1, <1>4, <1>5
  <2>2. all[n] = BlockOf(s, st[n])
    BY <1>6, <1>8, <2>1
  <2>3. all[n] # None
    <3>1. n - 1 \in Indexes /\ st[n].block \in BlockTypes
      BY <1>1
    <3>2. all[n] \in Block \cup {None}
      BY <1>3, <1>8, <2>1, <3>1
    <3>3. BlockOf(s, st[n]) \in Block
      <4>1. a.text[n - 1] = DeltasIn(s, n - 1) /\ a.text[n - 1] \in Seq(Deltas) /\ st[n].index = n - 1
        BY <1>1, <3>1 DEF Assembled, AssemblerInv, IsAssembler
      <4> QED BY <3>1, <4>1, WireTyped DEF BlockOf, Block
    <3> QED BY <2>2, <3>3, AssemblerAssumption
  <2>4. all[n].type = "tool-call" <=> st[n].block = "tool-call"
    <3>1. st[n].block \in BlockTypes /\ all[n].type = WireType(st[n].block)
      BY <1>1, <2>2 DEF BlockOf
    <3> QED BY <3>1 DEF BlockTypes, WireType
  <2>5. n \in Q <=> (cut => st[n].block # "tool-call")
    BY <1>9, <2>1, <2>3, <2>4 DEF Kept
  <2> QED BY <1>7, <2>1, <2>2, <2>5 DEF KeptOf
<1>12. \A n \in 1..Len(all) : n \in Q => n <= Len(st)
  <2>1. ASSUME NEW n \in 1..N, n \in Q PROVE n <= Len(st)
    <3>1. n - 1 \in Indexes /\ a.blocks[n - 1] # None
      BY <1>4, <1>8, <1>9, <2>1 DEF Kept
    <3> QED BY <1>1, <1>3, <1>4, <3>1
  <2> QED BY <1>8, <2>1
<1> DEFINE P == KeptOf(st, cut)
<1>13. \A n \in 1..Len(st) : all[n] = f[st[n]] /\ (n \in Q <=> n \in P)
  BY <1>11
<1>14. Pick(st, P) \in Seq(Custom!Chunk)
  BY <1>1, PickTyped
<1> HIDE DEF P, cut
<1>15. Len(st) <= Len(all)
  BY <1>5, <1>8
<1>16. Pick(all, Q) = Mapped(f, Pick(st, P))
  <2> DEFINE V == Block \cup {None}
  <2>1. st \in Seq(Custom!Chunk) /\ all \in Seq(V) /\ f \in [Custom!Chunk -> U]
    BY <1>1, <1>7, <1>8
  <2> HIDE DEF V
  <2>2. Images(Custom!Chunk, U, f, st, all, P, Q)
    BY <1>12, <1>13, <1>15, <2>1 DEF Images
  <2> QED BY ONLY <2>1, <2>2, PickMap
<1>17. Mapped(f, Pick(st, P)) = [n \in DOMAIN Pick(st, P) |-> BlockOf(s, Pick(st, P)[n])]
  BY <1>7, <1>14 DEF Mapped
<1>18. Blocks(a) = Pick(all, Q)
  BY DEF Blocks, all, Q, N
<1> QED BY <1>2, <1>16, <1>17, <1>18 DEF P, cut

\* The invariant: ListInv, and what was accepted is assembled.
BlocksInv == ListInv /\ (~refused => Assembled(asm, received))

LEMMA InvAssembles == ASSUME Gapless, BlocksInv PROVE Custom!BlocksAssembled
<1> DEFINE kept == {p \in Custom!Positions :
                      /\ Custom!Is(p, "block-start")
                      /\ asm.finish = "max-tokens" => received[p].block # "tool-call"}
           list == Custom!Pick(received, kept)
<1> SUFFICES ASSUME ~refused, Custom!Valid(asm)
             PROVE  Custom!Blocks(asm) = [n \in DOMAIN list |->
                      [type |-> Custom!WireType(list[n].block), text |-> Custom!DeltasOf(list[n].index)]]
  BY DEF Custom!BlocksAssembled
<1>1. \A s, P : Custom!Pick(s, P) = Pick(s, P)
  BY DEF Custom!Pick, Pick
<1>2. \A w : Custom!WireType(w) = WireType(w)
  BY DEF Custom!WireType, WireType
<1>3. kept = KeptAt(received, asm.finish = "max-tokens")
  BY DEF Custom!Positions, Custom!Is, KeptAt
<1>4. Custom!Blocks(asm) = Blocks(asm)
  <2>1. \A b : Custom!Kept(asm, b) <=> Kept(asm, b)
    BY DEF Custom!Kept, Kept
  <2> QED BY <1>1, <2>1, SameCardinality DEF Custom!Blocks, Blocks
<1>5. \A i : Custom!DeltasOf(i) = DeltasIn(received, i)
  <2>1. DOMAIN Custom!DeltaOf = DeltaTypes
    BY DEF Custom!DeltaOf, DeltaTypes
  <2>2. \A i : {p \in Custom!Positions : received[p].type \in DOMAIN Custom!DeltaOf /\ received[p].index = i}
                 = DeltaAt(received, i)
    BY <2>1 DEF Custom!Positions, DeltaAt
  <2> QED BY <1>1, <2>2 DEF Custom!DeltasOf, DeltasIn
<1>6. \A c : [type |-> Custom!WireType(c.block), text |-> Custom!DeltasOf(c.index)] = BlockOf(received, c)
  BY <1>2, <1>5 DEF BlockOf
<1>7. received \in Seq(Custom!Chunk) /\ AssemblerInv(asm) /\ Assembled(asm, received) /\ Valid(asm)
  BY SameAssembler DEF BlocksInv, ListInv
<1> DEFINE starts == Pick(received, KeptAt(received, asm.finish = "max-tokens"))
<1>8. Blocks(asm) = [n \in DOMAIN starts |-> BlockOf(received, starts[n])]
  BY <1>7, BlocksAre
<1>9. list = starts
  <2> HIDE DEF kept
  <2> QED BY <1>1, <1>3
<1> HIDE DEF starts, list
<1>10. [n \in DOMAIN list |-> [type |-> Custom!WireType(list[n].block), text |-> Custom!DeltasOf(list[n].index)]]
         = [n \in DOMAIN list |-> BlockOf(received, list[n])]
  BY <1>6
<1> QED BY <1>4, <1>8, <1>9, <1>10

LEMMA BlocksInvKept ==
    ASSUME BlocksInv, NEW k \in Custom!Chunk, Custom!Receive(k)
    PROVE  BlocksInv'
<1>1. ListInv' /\ ~refused /\ received' = Append(received, k)
  BY ChunkKeeps DEF BlocksInv, Custom!Receive
<1>2. CASE Legal(asm, k)
  <2>1. asm' = Feed(asm, k)
    BY <1>2, SameAssembler DEF Custom!Receive
  <2>2. received \in Seq(Custom!Chunk) /\ AssemblerInv(asm) /\ Assembled(asm, received)
    BY <1>1 DEF BlocksInv, ListInv
  <2> QED BY <1>1, <1>2, <2>1, <2>2, ChunkAssembled DEF BlocksInv
<1>3. CASE ~Legal(asm, k)
  <2>1. refused' = TRUE
    BY <1>3, SameAssembler DEF Custom!Receive
  <2> QED BY <1>1, <2>1 DEF BlocksInv
<1> QED BY <1>2, <1>3

\* block_assembler.py: however the deltas and ends of several blocks
\* interleave, each block is put together from its own deltas and the blocks
\* come in the order of their starts, for any number of blocks and chunks; a
\* truncated response loses its tool calls and nothing else.
THEOREM BlocksAreAssembled == ASSUME Gapless PROVE Spec => []BlocksAssembled
<1> DEFINE Inv == api = "any" => BlocksInv
<1>1. HandlerInit => Inv
  <2>1. HandlerInit => received = << >> /\ asm = NewAssembler
    BY DEF HandlerInit, Init
  <2> QED BY <2>1, ListInit, AssembledInit DEF BlocksInv
<1>2. Inv /\ [HandlerNext]_vars => Inv'
  <2> SUFFICES ASSUME Inv, [HandlerNext]_vars, api' = "any" PROVE BlocksInv'
    OBVIOUS
  <2>1. api = "any" /\ BlocksInv
    BY DEF HandlerNext, vars
  <2>2. CASE UNCHANGED vars
    BY <2>1, <2>2 DEF vars, baseVars, BlocksInv, ListInv
  <2>3. CASE HandlerNext
    <3>1. PICK k \in Custom!Chunk : Custom!Receive(k)
      BY <2>1, <2>3 DEF HandlerNext, Custom!Next
    <3> QED BY <2>1, <3>1, BlocksInvKept
  <2> QED BY <2>2, <2>3
<1>3. Inv => BlocksAssembled
  BY InvAssembles DEF BlocksAssembled
<1>4. QED
  BY <1>1, <1>2, <1>3, PTL DEF Spec

=============================================================================
