------------------------ MODULE Conversation_proofs ------------------------
(***************************************************************************)
(* Theorems about Conversation, for every bound and both kinds of host:    *)
(*   - every request pairs the calls it holds with their results           *)
(*     (RequestIsWellFormed), because Normalize makes a legal chat request *)
(*     of any messages, and its conversion for the Responses API keeps the *)
(*     pairs if no call is there twice (RequestPairs);                     *)
(*   - no call is there twice and none is answered twice, in the context   *)
(*     and in the host's copy (ConversationInvariant), because whatever is *)
(*     written adds a known set of calls and results, if any (Adds, Grown),*)
(*     and none of them is there already;                                  *)
(*   - a suspended reply waits for the same answers in the context and in  *)
(*     the copy of a host that opens a message at its first block          *)
(*     (PausedReplySurvives), because each call of the context is in the   *)
(*     message of the copy to which an answer will go (Located).           *)
(***************************************************************************)
EXTENDS Conversation, FiniteSetTheorems, WellFoundedInduction, TLAPS

-----------------------------------------------------------------------------
(* Lists.                                                                  *)

Less == {p \in Nat \X Nat : p[1] < p[2]}

LEMMA LessWellFounded == IsWellFoundedOn(Less, Nat)
<1>1. Less = OpToRel(<, Nat)
  BY DEF Less, OpToRel
<1> QED BY <1>1, NatLessThanWellFounded

LEMMA Induction ==
    ASSUME NEW S, 0 \in S, \A n \in Nat : n \in S => n + 1 \in S
    PROVE  Nat \subseteq S
<1> SUFFICES ASSUME Nat \ S # {} PROVE FALSE
  OBVIOUS
<1>1. PICK x \in Nat \ S : \A y \in Nat \ S : ~ (<<y, x>> \in Less)
  BY LessWellFounded, WFMin
<1>2. x - 1 \in Nat /\ <<x - 1, x>> \in Less /\ (x - 1) + 1 = x
  BY DEF Less
<1> QED BY <1>1, <1>2

Flattening(f, s, N) == f = [n \in 1..N |-> IF n = 1 THEN s[n] ELSE f[n - 1] \o s[n]]

LEMMA FlatteningExists == \A s : \A N \in Nat : \E f : Flattening(f, s, N)
<1> SUFFICES ASSUME NEW s PROVE \A N \in Nat : \E f : Flattening(f, s, N)
  OBVIOUS
<1> DEFINE S == {N \in Nat : \E f : Flattening(f, s, N)}
<1>1. 0 \in S
  <2> DEFINE f == [n \in {} |-> << >>]
  <2>1. Flattening(f, s, 0)
    BY DEF Flattening
  <2> QED BY <2>1
<1>2. ASSUME NEW N \in Nat, N \in S PROVE N + 1 \in S
  <2>1. PICK f : Flattening(f, s, N)
    BY <1>2
  <2> DEFINE last == IF N = 0 THEN s[1] ELSE f[N] \o s[N + 1]
             h == [n \in 1..(N + 1) |-> IF n = N + 1 THEN last ELSE f[n]]
  <2>2. \A n \in 1..N : h[n] = f[n]
    OBVIOUS
  <2>3. ASSUME NEW n \in 1..(N + 1)
        PROVE  h[n] = IF n = 1 THEN s[n] ELSE h[n - 1] \o s[n]
    <3>1. CASE n = N + 1 /\ N = 0
      BY <3>1
    <3>2. CASE n = N + 1 /\ N # 0
      <4>1. N \in 1..N /\ n - 1 = N /\ n # 1
        BY <3>2
      <4>2. last = f[N] \o s[N + 1]
        BY <3>2
      <4> HIDE DEF last
      <4>3. h[n] = last
        BY <3>2
      <4> QED BY <2>2, <3>2, <4>1, <4>2, <4>3
    <3>3. CASE n # N + 1
      <4>1. n \in 1..N /\ (n = 1 \/ n - 1 \in 1..N)
        BY <3>3
      <4>2. f[n] = IF n = 1 THEN s[n] ELSE f[n - 1] \o s[n]
        BY <2>1, <4>1 DEF Flattening
      <4>3. h[n] = f[n] /\ (n = 1 \/ h[n - 1] = f[n - 1])
        BY <2>2, <4>1
      <4> HIDE DEF h
      <4> QED BY <4>2, <4>3
    <3> QED BY <3>1, <3>2, <3>3
  <2>4. h = [n \in 1..(N + 1) |-> h[n]]
    OBVIOUS
  <2> HIDE DEF h
  <2>5. Flattening(h, s, N + 1)
    BY <2>3, <2>4 DEF Flattening
  <2> QED BY <2>5
<1> HIDE DEF S
<1>3. Nat \subseteq S
  BY <1>1, <1>2, Induction
<1> QED BY <1>3 DEF S

LEMMA FlatteningSteps ==
    ASSUME NEW s, NEW N \in Nat, NEW f, Flattening(f, s, N)
    PROVE  /\ N > 0 => f[1] = s[1]
           /\ \A n \in 1..(N - 1) : f[n + 1] = f[n] \o s[n + 1]
<1>1. ASSUME NEW n \in 1..N PROVE f[n] = IF n = 1 THEN s[n] ELSE f[n - 1] \o s[n]
  BY DEF Flattening
<1>2. ASSUME NEW n \in 1..(N - 1) PROVE f[n + 1] = f[n] \o s[n + 1]
  <2>1. n + 1 \in 1..N /\ n + 1 # 1 /\ (n + 1) - 1 = n
    OBVIOUS
  <2> QED BY <1>1, <2>1
<1>3. N > 0 => 1 \in 1..N
  OBVIOUS
<1> QED BY <1>1, <1>2, <1>3

LEMMA FlattenDef ==
    ASSUME NEW T, NEW s \in Seq(T)
    PROVE  \E f : /\ Flattening(f, s, Len(s))
                  /\ FlattenSeq(s) = IF Len(s) = 0 THEN << >> ELSE f[Len(s)]
<1> DEFINE f == CHOOSE f : Flattening(f, s, Len(s))
<1>1. Flattening(f, s, Len(s))
  <2>1. Len(s) \in Nat
    OBVIOUS
  <2> QED BY <2>1, FlatteningExists
<1>2. FlattenSeq(s) = IF Len(s) = 0 THEN s ELSE f[Len(s)]
  BY DEF FlattenSeq, Flattening
<1>3. Len(s) = 0 => s = << >>
  OBVIOUS
<1> QED BY <1>1, <1>2, <1>3

\* Every element of a flattened list has one place in the lists it is made of:
\* element p is element col[p] of list row[p].  They come in their order, and
\* none is left out.
Places(row, col, xs, s) ==
    /\ row \in [1..Len(xs) -> 1..Len(s)] /\ col \in [1..Len(xs) -> Nat]
    /\ \A p \in 1..Len(xs) : col[p] \in 1..Len(s[row[p]]) /\ xs[p] = s[row[p]][col[p]]
    /\ \A p, q \in 1..Len(xs) : p < q => row[p] < row[q] \/ (row[p] = row[q] /\ col[p] < col[q])
    /\ \A i \in 1..Len(s) : \A k \in 1..Len(s[i]) : \E p \in 1..Len(xs) : row[p] = i /\ col[p] = k

LEMMA FlattenPlaces ==
    ASSUME NEW T, NEW s \in Seq(Seq(T))
    PROVE  /\ FlattenSeq(s) \in Seq(T)
           /\ \E row, col : Places(row, col, FlattenSeq(s), s)
<1> DEFINE N == Len(s)
           Upto(row, col, x, n) ==
             /\ row \in [1..Len(x) -> 1..n] /\ col \in [1..Len(x) -> Nat]
             /\ \A p \in 1..Len(x) : col[p] \in 1..Len(s[row[p]]) /\ x[p] = s[row[p]][col[p]]
             /\ \A p, q \in 1..Len(x) : p < q => row[p] < row[q] \/ (row[p] = row[q] /\ col[p] < col[q])
             /\ \A i \in 1..n : \A k \in 1..Len(s[i]) : \E p \in 1..Len(x) : row[p] = i /\ col[p] = k
<1>1. PICK f : Flattening(f, s, N) /\ FlattenSeq(s) = IF N = 0 THEN << >> ELSE f[N]
  BY FlattenDef
<1>2. N \in Nat /\ \A n \in 1..N : s[n] \in Seq(T)
  OBVIOUS
<1>3. (N > 0 => f[1] = s[1]) /\ \A n \in 1..(N - 1) : f[n + 1] = f[n] \o s[n + 1]
  <2> HIDE DEF N
  <2> QED BY <1>1, <1>2, FlatteningSteps
<1> DEFINE g == [n \in 0..N |-> IF n = 0 THEN << >> ELSE f[n]]
<1>4. g[0] = << >> /\ \A n \in 0..(N - 1) : g[n + 1] = g[n] \o s[n + 1]
  <2>1. g[0] = << >>
    BY <1>2
  <2>2. ASSUME NEW n \in 0..(N - 1) PROVE g[n + 1] = g[n] \o s[n + 1]
    <3>1. n + 1 \in 0..N /\ n \in 0..N /\ n + 1 # 0 /\ n + 1 \in 1..N
      BY <1>2
    <3>2. CASE n = 0
      <4>1. s[n + 1] \in Seq(T) /\ s[n + 1] = s[1] /\ g[n + 1] = f[1] /\ f[1] = s[1]
        BY <1>2, <1>3, <3>1, <3>2
      <4>2. g[n] = << >>
        BY <2>1, <3>2
      <4> HIDE DEF g
      <4>3. << >> \o s[n + 1] = s[n + 1]
        BY <4>1
      <4> QED BY <4>1, <4>2, <4>3
    <3>3. CASE n # 0
      <4>1. n \in 1..(N - 1)
        BY <3>3
      <4>2. g[n + 1] = f[n + 1] /\ g[n] = f[n]
        BY <3>1, <3>3
      <4> HIDE DEF g
      <4> QED BY <1>3, <4>1, <4>2
    <3> QED BY <3>2, <3>3
  <2> QED BY <2>1, <2>2
<1>5. FlattenSeq(s) = g[N]
  BY <1>1, <1>2
<1> HIDE DEF g, N
<1> DEFINE S == {n \in Nat : n <= N => g[n] \in Seq(T) /\ \E row, col : Upto(row, col, g[n], n)}
<1>6. 0 \in S
  <2> DEFINE e == [p \in 1..0 |-> 1]
  <2>1. << >> \in Seq(T) /\ Len(<< >>) = 0 /\ 1..0 = {}
    OBVIOUS
  <2>2. e \in [1..0 -> 1..0] /\ e \in [1..0 -> Nat]
    BY <2>1
  <2>3. Upto(e, e, << >>, 0)
    <3> HIDE DEF e
    <3> QED BY <2>1, <2>2
  <2> HIDE DEF Upto, e
  <2> QED BY <1>4, <2>1, <2>3
<1>7. ASSUME NEW n \in Nat, n \in S PROVE n + 1 \in S
  <2> HIDE DEF Upto
  <2> SUFFICES ASSUME n + 1 <= N
               PROVE  g[n + 1] \in Seq(T) /\ \E row, col : Upto(row, col, g[n + 1], n + 1)
    OBVIOUS
  <2>0. n <= N /\ g[n] \in Seq(T) /\ \E row, col : Upto(row, col, g[n], n)
    <3>1. n <= N
      BY <1>2
    <3> QED BY <1>7, <3>1
  <2> DEFINE x == g[n]
             y == s[n + 1]
             z == g[n + 1]
             L == Len(x)
  <2>1. n \in 0..(N - 1) /\ n + 1 \in 1..N /\ x \in Seq(T) /\ y \in Seq(T)
    BY <1>2, <2>0
  <2>2. z = x \o y
    BY <1>4, <2>1
  <2>3. PICK row, col : Upto(row, col, x, n)
    BY <2>0
  <2> HIDE DEF x, y, z
  <2>4. /\ z \in Seq(T) /\ L \in Nat /\ Len(y) \in Nat /\ Len(z) = L + Len(y)
        /\ \A p \in 1..L : z[p] = x[p]
        /\ \A k \in 1..Len(y) : z[L + k] = y[k]
    BY <2>1, <2>2
  <2> HIDE DEF L
  <2> DEFINE r == [p \in 1..Len(z) |-> IF p <= L THEN row[p] ELSE n + 1]
             c == [p \in 1..Len(z) |-> IF p <= L THEN col[p] ELSE p - L]
  <2>5. \A p \in 1..L : p \in 1..Len(z) /\ r[p] = row[p] /\ c[p] = col[p]
    BY <2>4
  <2>6. \A p \in 1..Len(z) : p \notin 1..L => p - L \in 1..Len(y) /\ p = L + (p - L) /\ r[p] = n + 1 /\ c[p] = p - L
    BY <2>4
  <2>7. \A k \in 1..Len(y) : L + k \in 1..Len(z) /\ r[L + k] = n + 1 /\ c[L + k] = k
    BY <2>4
  <2>8. DOMAIN r = 1..Len(z) /\ DOMAIN c = 1..Len(z) /\ r = [p \in 1..Len(z) |-> r[p]] /\ c = [p \in 1..Len(z) |-> c[p]]
    OBVIOUS
  <2> USE DEF Upto
  <2>9. /\ \A p \in 1..L : row[p] \in 1..n /\ col[p] \in Nat /\ col[p] \in 1..Len(s[row[p]]) /\ x[p] = s[row[p]][col[p]]
        /\ \A p, q \in 1..L : p < q => row[p] < row[q] \/ (row[p] = row[q] /\ col[p] < col[q])
        /\ \A i \in 1..n : \A k \in 1..Len(s[i]) : \E p \in 1..L : row[p] = i /\ col[p] = k
    BY <2>3 DEF L
  <2> HIDE DEF r, c, Upto
  <2>10. \A p \in 1..Len(z) : r[p] \in 1..(n + 1) /\ c[p] \in Nat
    BY <2>5, <2>6, <2>9
  <2>11. r \in [1..Len(z) -> 1..(n + 1)] /\ c \in [1..Len(z) -> Nat]
    BY <2>8, <2>10
  <2>12. \A p \in 1..Len(z) : c[p] \in 1..Len(s[r[p]]) /\ z[p] = s[r[p]][c[p]]
    <3>1. ASSUME NEW p \in 1..Len(z) PROVE c[p] \in 1..Len(s[r[p]]) /\ z[p] = s[r[p]][c[p]]
      <4>1. CASE p \in 1..L
        BY <2>4, <2>5, <2>9, <4>1
      <4>2. CASE p \notin 1..L
        <5>1. p - L \in 1..Len(y) /\ z[p] = y[p - L] /\ r[p] = n + 1 /\ c[p] = p - L
          BY <2>4, <2>6, <4>2
        <5> QED BY <5>1 DEF y
      <4> QED BY <4>1, <4>2
    <3> QED BY <3>1
  <2>13. \A p, q \in 1..Len(z) : p < q => r[p] < r[q] \/ (r[p] = r[q] /\ c[p] < c[q])
    <3>1. ASSUME NEW p \in 1..Len(z), NEW q \in 1..Len(z), p < q
          PROVE  r[p] < r[q] \/ (r[p] = r[q] /\ c[p] < c[q])
      <4>1. CASE p \in 1..L /\ q \in 1..L
        BY <2>5, <2>9, <3>1, <4>1
      <4>2. CASE p \in 1..L /\ q \notin 1..L
        BY SMTT(40), <2>5, <2>6, <2>9, <4>2
      <4>3. CASE p \notin 1..L /\ q \notin 1..L
        BY <2>4, <2>6, <3>1, <4>3
      <4>4. CASE p \notin 1..L /\ q \in 1..L
        BY <2>4, <3>1, <4>4
      <4> QED BY <4>1, <4>2, <4>3, <4>4
    <3> QED BY <3>1
  <2>14. \A i \in 1..(n + 1) : \A k \in 1..Len(s[i]) : \E p \in 1..Len(z) : r[p] = i /\ c[p] = k
    <3>1. ASSUME NEW i \in 1..(n + 1), NEW k \in 1..Len(s[i]) PROVE \E p \in 1..Len(z) : r[p] = i /\ c[p] = k
      <4>1. CASE i = n + 1
        BY <2>7, <4>1 DEF y
      <4>2. CASE i # n + 1
        <5>1. i \in 1..n
          BY <4>2
        <5>2. PICK p \in 1..L : row[p] = i /\ col[p] = k
          BY <2>9, <5>1
        <5> QED BY <2>5, <5>2
      <4> QED BY <4>1, <4>2
    <3> QED BY <3>1
  <2>15. Upto(r, c, z, n + 1)
    BY <2>11, <2>12, <2>13, <2>14 DEF Upto
  <2> QED BY <2>4, <2>15 DEF z
<1> HIDE DEF S, Upto
<1>8. Nat \subseteq S
  BY <1>6, <1>7, Induction
<1>9. N <= N
  BY <1>2
<1>10. g[N] \in Seq(T) /\ \E row, col : Upto(row, col, g[N], N)
  BY <1>2, <1>8, <1>9 DEF S
<1>11. PICK row, col : Upto(row, col, g[N], N)
  BY <1>10
<1>12. Places(row, col, g[N], s)
  BY <1>11 DEF Places, Upto, N
<1> QED BY <1>5, <1>10, <1>12

-----------------------------------------------------------------------------
(* Requests pair calls with results, whatever the messages are.            *)

\* The messages to_openai_message returns.
Said == [role: {"user", "assistant"}, text: BOOLEAN, reasoning: BOOLEAN, calls: Seq(Nat), group: Nat, turns: SUBSET Nat]
Dict == Said \cup [role: {"tool"}, id: Nat, said: BOOLEAN]

LEMMA DictFields ==
    ASSUME NEW d \in Dict
    PROVE  /\ d.role \in {"user", "assistant", "tool"}
           /\ d.role # "tool" => d \in Said /\ d.calls \in Seq(Nat)
           /\ d.role = "tool" => d.id \in Nat
BY DEF Dict, Said

PairedIn(ds) == {i \in DOMAIN ds : Paired(ds, i)}

Keeps(ds, i) ==
    CASE ds[i].role = "user" -> TRUE
      [] ds[i].role = "tool" -> \E j \in PairedIn(ds) : i \in Following(ds, j)
      [] OTHER -> i \in PairedIn(ds) \/ HasPayload(ds[i])

Strip(ds, i) ==
    IF ds[i].role = "assistant" /\ i \notin PairedIn(ds) THEN [ds[i] EXCEPT !.calls = << >>] ELSE ds[i]

\* The messages that are left, in their order: message p was message row[p].
KeptFrom(row, out, ds) ==
    /\ row \in [1..Len(out) -> 1..Len(ds)]
    /\ \A p \in 1..Len(out) : Keeps(ds, row[p]) /\ out[p] = Strip(ds, row[p])
    /\ \A p, q \in 1..Len(out) : p < q => row[p] < row[q]
    /\ \A i \in 1..Len(ds) : Keeps(ds, i) => \E p \in 1..Len(out) : row[p] = i

LEMMA StripTyped ==
    ASSUME NEW ds \in Seq(Dict), NEW i \in 1..Len(ds)
    PROVE  /\ Strip(ds, i) \in Dict /\ Strip(ds, i).role = ds[i].role
           /\ ds[i].role # "assistant" => Strip(ds, i) = ds[i]
           /\ ds[i].role = "assistant" =>
                Strip(ds, i).calls = IF i \in PairedIn(ds) THEN ds[i].calls ELSE << >>
<1>1. ds[i] \in Dict
  OBVIOUS
<1>2. CASE ds[i].role = "assistant" /\ i \notin PairedIn(ds)
  <2> DEFINE d == ds[i]
  <2>1. d \in Said
    BY <1>1, <1>2 DEF Dict, Said
  <2>2. Strip(ds, i) = [d EXCEPT !.calls = << >>]
    BY <1>2 DEF Strip
  <2> HIDE DEF d
  <2>3. << >> \in Seq(Nat)
    OBVIOUS
  <2>4. [d EXCEPT !.calls = << >>] \in Said /\ [d EXCEPT !.calls = << >>].role = d.role /\ [d EXCEPT !.calls = << >>].calls = << >>
    BY <2>1, <2>3 DEF Said
  <2> QED BY <1>2, <2>2, <2>4 DEF Dict, d
<1>3. CASE ~(ds[i].role = "assistant" /\ i \notin PairedIn(ds))
  BY <1>1, <1>3 DEF Strip
<1> QED BY <1>2, <1>3

LEMMA NormalizePlaces ==
    ASSUME NEW ds \in Seq(Dict)
    PROVE  Normalize(ds) \in Seq(Dict) /\ \E row : KeptFrom(row, Normalize(ds), ds)
<1> DEFINE s == [i \in DOMAIN ds |-> IF Keeps(ds, i) THEN <<Strip(ds, i)>> ELSE << >>]
           out == Normalize(ds)
<1>1. Normalize(ds) = FlattenSeq(s)
  BY DEF Normalize, Keeps, Strip, PairedIn
<1>2. DOMAIN ds = 1..Len(ds) /\ Len(ds) \in Nat
  OBVIOUS
<1>3. \A i \in 1..Len(ds) : s[i] = IF Keeps(ds, i) THEN <<Strip(ds, i)>> ELSE << >>
  BY <1>2
<1>4. s \in Seq(Seq(Dict)) /\ Len(s) = Len(ds)
  <2>1. \A i \in 1..Len(ds) : << >> \in Seq(Dict) /\ <<Strip(ds, i)>> \in Seq(Dict)
    BY StripTyped
  <2>2. \A i \in 1..Len(ds) : s[i] \in Seq(Dict)
    BY <1>3, <2>1
  <2>3. s = [i \in 1..Len(ds) |-> s[i]]
    BY <1>2
  <2> HIDE DEF s
  <2>4. s \in [1..Len(ds) -> Seq(Dict)]
    BY <2>2, <2>3
  <2> QED BY <1>2, <2>4
<1> HIDE DEF s
<1>5. out \in Seq(Dict) /\ \E row, col : Places(row, col, out, s)
  BY <1>1, <1>4, FlattenPlaces
<1>6. PICK row, col : Places(row, col, out, s)
  BY <1>5
<1> HIDE DEF out
<1>7. \A i \in 1..Len(ds) : /\ Keeps(ds, i) => Len(s[i]) = 1 /\ s[i][1] = Strip(ds, i)
                            /\ ~Keeps(ds, i) => Len(s[i]) = 0
  <2>1. Len(<< >>) = 0 /\ \A x : Len(<<x>>) = 1 /\ <<x>>[1] = x
    OBVIOUS
  <2> QED BY <1>3, <2>1
<1>8. \A p \in 1..Len(out) : row[p] \in 1..Len(ds) /\ Keeps(ds, row[p]) /\ col[p] = 1 /\ out[p] = Strip(ds, row[p])
  <2>1. ASSUME NEW p \in 1..Len(out)
        PROVE  row[p] \in 1..Len(ds) /\ Keeps(ds, row[p]) /\ col[p] = 1 /\ out[p] = Strip(ds, row[p])
    <3>1. row[p] \in 1..Len(ds) /\ col[p] \in 1..Len(s[row[p]]) /\ out[p] = s[row[p]][col[p]]
      BY <1>4, <1>6 DEF Places
    <3>2. Keeps(ds, row[p])
      BY <1>7, <3>1
    <3>3. col[p] = 1
      BY <1>7, <3>1, <3>2
    <3> QED BY <1>7, <3>1, <3>2, <3>3
  <2> QED BY <2>1
<1>9. \A p, q \in 1..Len(out) : p < q => row[p] < row[q]
  BY <1>6, <1>8 DEF Places
<1>10. \A i \in 1..Len(ds) : Keeps(ds, i) => \E p \in 1..Len(out) : row[p] = i
  <2>1. ASSUME NEW i \in 1..Len(ds), Keeps(ds, i) PROVE \E p \in 1..Len(out) : row[p] = i
    <3>1. 1 \in 1..Len(s[i]) /\ i \in 1..Len(s)
      BY <1>4, <1>7, <2>1
    <3> QED BY <1>6, <3>1 DEF Places
  <2> QED BY <2>1
<1>11. row \in [1..Len(out) -> 1..Len(ds)]
  BY <1>4, <1>6 DEF Places
<1>12. KeptFrom(row, out, ds)
  BY <1>8, <1>9, <1>10, <1>11 DEF KeptFrom
<1> QED BY <1>5, <1>12 DEF out

\* The results of a paired message are as many as its calls, and come at once.
LEMMA FollowingPaired ==
    ASSUME NEW ds \in Seq(Dict), NEW i \in 1..Len(ds), Paired(ds, i)
    PROVE  /\ ds[i].role = "assistant" /\ ds[i].calls \in Seq(Nat) /\ IsInjective(ds[i].calls)
           /\ i + Len(ds[i].calls) <= Len(ds)
           /\ Following(ds, i) = (i + 1)..(i + Len(ds[i].calls))
           /\ \A j \in Following(ds, i) : j \in 1..Len(ds) /\ ds[j].role = "tool"
           /\ {ds[j].id : j \in Following(ds, i)} = Range(ds[i].calls)
<1> DEFINE F == Following(ds, i)
           L == Len(ds[i].calls)
           R == (i + 1)..(i + L)
<1>1. ds[i] \in Dict /\ ds[i].role = "assistant" /\ IsInjective(ds[i].calls) /\ Cardinality(F) = L
      /\ {ds[j].id : j \in F} = Range(ds[i].calls)
  BY DEF Paired
<1>2. ds[i].calls \in Seq(Nat) /\ L \in Nat
  BY <1>1, DictFields
<1>3. /\ F \subseteq (i + 1)..Len(ds)
      /\ \A j \in F : ds[j].role = "tool"
      /\ \A j \in F : \A k \in (i + 1)..j : k \in F
  BY DEF Following
<1> HIDE DEF F, L
<1>4. IsFiniteSet(F) /\ IsFiniteSet(R) /\ Cardinality(R) = L
  <2>1. IsFiniteSet((i + 1)..Len(ds))
    BY FS_Interval
  <2>2. IsFiniteSet(F)
    BY <1>3, <2>1, FS_Subset
  <2>3. IsFiniteSet(R) /\ Cardinality(R) = IF i + 1 > i + L THEN 0 ELSE (i + L) - (i + 1) + 1
    <3>1. i + 1 \in Int /\ i + L \in Int
      BY <1>2
    <3> QED BY <3>1, FS_Interval
  <2> QED BY <1>2, <2>2, <2>3
<1>5. R \subseteq F
  <2> SUFFICES ASSUME NEW j \in R, j \notin F PROVE FALSE
    OBVIOUS
  <2> DEFINE B == (i + 1)..(j - 1)
  <2>1. F \subseteq B
    <3>1. ASSUME NEW k \in F, k >= j PROVE FALSE
      <4>1. j \in (i + 1)..k
        BY <1>2, <1>3, <3>1
      <4> QED BY <1>3, <4>1
    <3> QED BY <1>2, <1>3, <3>1
  <2>2. IsFiniteSet(B) /\ Cardinality(B) < L
    <3>1. IsFiniteSet(B) /\ Cardinality(B) = IF i + 1 > j - 1 THEN 0 ELSE (j - 1) - (i + 1) + 1
      <4>1. i + 1 \in Int /\ j - 1 \in Int
        BY <1>2
      <4> QED BY <4>1, FS_Interval
    <3> QED BY <1>2, <3>1
  <2> HIDE DEF B
  <2>3. Cardinality(F) <= Cardinality(B)
    BY <2>1, <2>2, FS_Subset
  <2>4. Cardinality(F) \in Nat /\ Cardinality(B) \in Nat
    BY <1>4, <2>2, FS_CardinalityType
  <2> QED BY <1>1, <2>2, <2>3, <2>4
<1>6. R = F
  BY <1>1, <1>4, <1>5, FS_Subset
<1>7. i + L <= Len(ds)
  <2>1. CASE L = 0
    BY <1>2, <2>1
  <2>2. CASE L # 0
    <3>1. i + L \in F
      BY <1>2, <1>6, <2>2
    <3>2. i + L \in (i + 1)..Len(ds)
      BY <1>3, <3>1
    <3> QED BY <3>2
  <2> QED BY <2>1, <2>2
<1> QED BY <1>1, <1>2, <1>3, <1>6, <1>7 DEF F, L

\* The normal form: every message's calls are distinct and their results are
\* the messages right after it; and there are no other results.
WellPaired(out) ==
    /\ \A p \in 1..Len(out) : out[p].role = "assistant" =>
         /\ out[p].calls \in Seq(Nat) /\ IsInjective(out[p].calls)
         /\ p + Len(out[p].calls) <= Len(out)
         /\ \A j \in (p + 1)..(p + Len(out[p].calls)) : out[j].role = "tool"
         /\ {out[j].id : j \in (p + 1)..(p + Len(out[p].calls))} = Range(out[p].calls)
    /\ \A j \in 1..Len(out) : out[j].role = "tool" =>
         \E p \in 1..(j - 1) : out[p].role = "assistant" /\ j <= p + Len(out[p].calls)

\* Neighbours that are both kept are neighbours still.
LEMMA KeptNext ==
    ASSUME NEW ds \in Seq(Dict), NEW out \in Seq(Dict), NEW row, KeptFrom(row, out, ds),
           NEW p \in 1..Len(out), row[p] + 1 \in 1..Len(ds), Keeps(ds, row[p] + 1)
    PROVE  p + 1 \in 1..Len(out) /\ row[p + 1] = row[p] + 1
<1> DEFINE i == row[p]
<1>1. i \in 1..Len(ds) /\ Len(out) \in Nat /\ Len(ds) \in Nat
  BY DEF KeptFrom
<1>2. PICK q \in 1..Len(out) : row[q] = i + 1
  BY DEF KeptFrom
<1> HIDE DEF i
<1>3. \A m \in 1..Len(out) : row[m] \in 1..Len(ds)
  BY DEF KeptFrom
<1>4. q > p
  <2>1. q = p \/ q < p => row[q] <= i
    BY <1>1, <1>3 DEF KeptFrom, i
  <2> QED BY <1>1, <1>2, <2>1
<1>5. q = p + 1
  <2> SUFFICES ASSUME q # p + 1 PROVE FALSE
    OBVIOUS
  <2>1. p + 1 \in 1..Len(out) /\ p < p + 1 /\ p + 1 < q
    BY <1>1, <1>4
  <2>2. i < row[p + 1] /\ row[p + 1] < i + 1
    BY <1>2, <2>1 DEF KeptFrom, i
  <2> QED BY <1>1, <1>3, <2>1, <2>2
<1> QED BY <1>2, <1>5 DEF i

LEMMA KeptRun ==
    ASSUME NEW ds \in Seq(Dict), NEW out \in Seq(Dict), NEW row, KeptFrom(row, out, ds),
           NEW p \in 1..Len(out), NEW L \in Nat, row[p] + L <= Len(ds),
           \A i \in (row[p] + 1)..(row[p] + L) : Keeps(ds, i)
    PROVE  \A k \in 0..L : p + k \in 1..Len(out) /\ row[p + k] = row[p] + k
<1> DEFINE i == row[p]
           S == {k \in Nat : k <= L => p + k \in 1..Len(out) /\ row[p + k] = i + k}
<1>1. i \in 1..Len(ds) /\ Len(out) \in Nat /\ Len(ds) \in Nat
  BY DEF KeptFrom
<1>2. 0 \in S
  <2>1. p + 0 = p /\ i + 0 = i
    BY <1>1
  <2> QED BY <2>1
<1>3. ASSUME NEW k \in Nat, k \in S PROVE k + 1 \in S
  <2> SUFFICES ASSUME k + 1 <= L PROVE p + (k + 1) \in 1..Len(out) /\ row[p + (k + 1)] = i + (k + 1)
    OBVIOUS
  <2> DEFINE q == p + k
  <2>1. q \in 1..Len(out) /\ row[q] = i + k
    BY <1>3
  <2>2. (i + k) + 1 \in 1..Len(ds) /\ (i + k) + 1 \in (i + 1)..(i + L)
    BY <1>1
  <2>3. Keeps(ds, (i + k) + 1)
    BY <2>2
  <2>4. p + (k + 1) = q + 1 /\ i + (k + 1) = (i + k) + 1
    BY SMTT(40), <1>1
  <2> HIDE DEF q
  <2>5. q + 1 \in 1..Len(out) /\ row[q + 1] = row[q] + 1
    BY <2>1, <2>2, <2>3, KeptNext
  <2> QED BY <2>1, <2>4, <2>5
<1> HIDE DEF S
<1>4. Nat \subseteq S
  BY <1>2, <1>3, Induction
<1> QED BY <1>4 DEF S

LEMMA NormalizePairs ==
    ASSUME NEW ds \in Seq(Dict)
    PROVE  WellPaired(Normalize(ds))
<1> DEFINE out == Normalize(ds)
<1>1. out \in Seq(Dict) /\ \E row : KeptFrom(row, out, ds)
  BY NormalizePlaces
<1> HIDE DEF out
<1>2. PICK row : KeptFrom(row, out, ds)
  BY <1>1
<1>3. /\ Len(out) \in Nat /\ Len(ds) \in Nat /\ DOMAIN ds = 1..Len(ds)
      /\ \A p \in 1..Len(out) : row[p] \in 1..Len(ds) /\ Keeps(ds, row[p]) /\ out[p] = Strip(ds, row[p])
  BY SMTT(40), <1>1, <1>2 DEF KeptFrom
<1>4. \A p \in 1..Len(out) :
        /\ out[p].role = ds[row[p]].role
        /\ out[p].role # "assistant" => out[p] = ds[row[p]]
        /\ out[p].role = "assistant" =>
             out[p].calls = IF row[p] \in PairedIn(ds) THEN ds[row[p]].calls ELSE << >>
  BY <1>3, StripTyped
<1>5. ASSUME NEW p \in 1..Len(out), row[p] \in PairedIn(ds)
      PROVE  /\ out[p].role = "assistant" /\ out[p].calls = ds[row[p]].calls
             /\ ds[row[p]].calls \in Seq(Nat) /\ IsInjective(ds[row[p]].calls)
             /\ Following(ds, row[p]) = (row[p] + 1)..(row[p] + Len(out[p].calls))
             /\ {ds[j].id : j \in Following(ds, row[p])} = Range(out[p].calls)
             /\ \A k \in 0..Len(out[p].calls) : p + k \in 1..Len(out) /\ row[p + k] = row[p] + k
             /\ \A k \in 1..Len(out[p].calls) : out[p + k] = ds[row[p] + k] /\ out[p + k].role = "tool"
  <2> DEFINE i == row[p]
             L == Len(ds[i].calls)
  <2>1. i \in 1..Len(ds) /\ Paired(ds, i)
    BY <1>3, <1>5 DEF PairedIn
  <2> HIDE DEF i
  <2>2. /\ ds[i].role = "assistant" /\ ds[i].calls \in Seq(Nat) /\ IsInjective(ds[i].calls)
        /\ i + L <= Len(ds)
        /\ Following(ds, i) = (i + 1)..(i + L)
        /\ \A j \in Following(ds, i) : j \in 1..Len(ds) /\ ds[j].role = "tool"
        /\ {ds[j].id : j \in Following(ds, i)} = Range(ds[i].calls)
    BY <2>1, FollowingPaired
  <2>3. L \in Nat
    BY <2>2
  <2>4. out[p].role = "assistant" /\ out[p].calls = ds[i].calls
    BY <1>4, <1>5, <2>2 DEF i
  <2>5. \A j \in (i + 1)..(i + L) : Keeps(ds, j)
    <3>1. i \in PairedIn(ds)
      BY <1>5 DEF i
    <3> QED BY <2>2, <3>1 DEF Keeps
  <2> HIDE DEF L
  <2>6. \A k \in 0..L : p + k \in 1..Len(out) /\ row[p + k] = i + k
    <3>1. row[p] + L <= Len(ds) /\ \A j \in (row[p] + 1)..(row[p] + L) : Keeps(ds, j)
      BY <2>2, <2>5 DEF i
    <3> QED BY <1>1, <1>2, <2>3, <3>1, KeptRun DEF i
  <2>7. ASSUME NEW k \in 1..L PROVE out[p + k] = ds[i + k] /\ out[p + k].role = "tool"
    <3>1. k \in 0..L /\ i + k \in Following(ds, i)
      BY <2>1, <2>2, <2>3
    <3>2. p + k \in 1..Len(out) /\ row[p + k] = i + k /\ ds[i + k].role = "tool"
      BY <2>2, <2>6, <3>1
    <3>3. out[p + k].role = "tool"
      BY <1>4, <3>2
    <3> QED BY <1>4, <3>2, <3>3
  <2>8. Len(out[p].calls) = L
    BY <2>4 DEF L
  <2> QED BY <2>2, <2>4, <2>6, <2>7, <2>8 DEF i
<1>6. ASSUME NEW p \in 1..Len(out), out[p].role = "assistant"
      PROVE  /\ out[p].calls \in Seq(Nat) /\ IsInjective(out[p].calls)
             /\ p + Len(out[p].calls) <= Len(out)
             /\ \A j \in (p + 1)..(p + Len(out[p].calls)) : out[j].role = "tool"
             /\ {out[j].id : j \in (p + 1)..(p + Len(out[p].calls))} = Range(out[p].calls)
  <2>1. CASE row[p] \notin PairedIn(ds)
    <3>1. out[p].calls = << >>
      BY <1>4, <1>6, <2>1
    <3>2. << >> \in Seq(Nat) /\ Len(<< >>) = 0 /\ IsInjective(<< >>) /\ Range(<< >>) = {} /\ (p + 1)..(p + 0) = {}
      BY DEF IsInjective, Range
    <3>3. Len(out[p].calls) = 0
      BY <3>1, <3>2
    <3>4. {out[j].id : j \in {}} = {}
      OBVIOUS
    <3> QED BY <1>3, <3>1, <3>2, <3>3, <3>4
  <2>2. CASE row[p] \in PairedIn(ds)
    <3> DEFINE i == row[p]
               L == Len(out[p].calls)
               R == (p + 1)..(p + L)
    <3>1. /\ out[p].calls \in Seq(Nat) /\ IsInjective(out[p].calls) /\ L \in Nat /\ i \in 1..Len(ds)
          /\ {ds[j].id : j \in (i + 1)..(i + L)} = Range(out[p].calls)
          /\ \A k \in 0..L : p + k \in 1..Len(out)
          /\ \A k \in 1..L : out[p + k] = ds[i + k] /\ out[p + k].role = "tool"
      <4>1. /\ Following(ds, i) = (i + 1)..(i + L)
            /\ {ds[j].id : j \in Following(ds, i)} = Range(out[p].calls)
            /\ \A k \in 0..L : p + k \in 1..Len(out)
            /\ \A k \in 1..L : out[p + k] = ds[i + k] /\ out[p + k].role = "tool"
        BY <1>5, <2>2
      <4>2. out[p].calls \in Seq(Nat) /\ IsInjective(out[p].calls) /\ i \in 1..Len(ds)
        BY <1>3, <1>5, <2>2
      <4>3. L \in Nat
        BY <4>2
      <4> HIDE DEF i, L
      <4>4. {ds[j].id : j \in (i + 1)..(i + L)} = Range(out[p].calls)
        BY <4>1
      <4> QED BY <4>1, <4>2, <4>3, <4>4
    <3> HIDE DEF i, L
    <3>2. p + L <= Len(out)
      <4>1. p + L \in 1..Len(out)
        BY <3>1
      <4> QED BY <4>1
    <3>3. \A j \in R : j - p \in 1..L /\ p + (j - p) = j
      BY <3>1
    <3>4. \A j \in R : out[j].role = "tool" /\ out[j] = ds[i + (j - p)] /\ i + (j - p) \in (i + 1)..(i + L)
      <4>1. ASSUME NEW j \in R
            PROVE  out[j].role = "tool" /\ out[j] = ds[i + (j - p)] /\ i + (j - p) \in (i + 1)..(i + L)
        <5>1. j - p \in 1..L /\ p + (j - p) = j
          BY <3>3
        <5>2. out[p + (j - p)] = ds[i + (j - p)] /\ out[p + (j - p)].role = "tool"
          BY <3>1, <5>1
        <5>3. i + (j - p) \in (i + 1)..(i + L)
          BY <3>1, <5>1
        <5> QED BY <5>1, <5>2, <5>3
      <4> QED BY <4>1
    <3>5. \A j \in (i + 1)..(i + L) : j - i \in 1..L /\ i + (j - i) = j /\ p + (j - i) \in R
      BY <3>1
    <3>6. \A j \in (i + 1)..(i + L) : \E k \in R : out[k] = ds[j]
      BY <3>1, <3>5
    <3>7. {out[j].id : j \in R} = {ds[j].id : j \in (i + 1)..(i + L)}
      <4> DEFINE A == (i + 1)..(i + L)
      <4>1. /\ \A j \in R : \E k \in A : out[j] = ds[k]
            /\ \A k \in A : \E j \in R : out[j] = ds[k]
        BY <3>4, <3>6
      <4> HIDE DEF A, R
      <4>2. {out[j].id : j \in R} = {ds[j].id : j \in A}
        BY <4>1
      <4> QED BY <4>2 DEF A
    <3> QED BY <3>1, <3>2, <3>4, <3>7 DEF L
  <2> QED BY <2>1, <2>2
<1>7. ASSUME NEW j \in 1..Len(out), out[j].role = "tool"
      PROVE  \E p \in 1..(j - 1) : out[p].role = "assistant" /\ j <= p + Len(out[p].calls)
  <2> DEFINE t == row[j]
  <2>1. t \in 1..Len(ds) /\ ds[t].role = "tool" /\ Keeps(ds, t)
    BY <1>3, <1>4, <1>7
  <2> HIDE DEF t
  <2>2. PICK i \in PairedIn(ds) : t \in Following(ds, i)
    BY <2>1 DEF Keeps
  <2>3. i \in 1..Len(ds) /\ Paired(ds, i)
    BY <1>3, <2>2 DEF PairedIn
  <2>4. Keeps(ds, i)
    <3>1. ds[i].role = "assistant"
      BY <2>3, FollowingPaired
    <3> QED BY <2>2, <3>1 DEF Keeps
  <2>5. PICK p \in 1..Len(out) : row[p] = i
    BY <1>2, <2>3, <2>4 DEF KeptFrom
  <2> DEFINE L == Len(out[p].calls)
  <2>6. /\ out[p].role = "assistant" /\ out[p].calls \in Seq(Nat)
        /\ t \in (i + 1)..(i + L)
        /\ \A k \in 0..L : p + k \in 1..Len(out) /\ row[p + k] = i + k
    BY <1>5, <2>2, <2>5
  <2>7. L \in Nat
    BY <2>6
  <2> HIDE DEF L
  <2>8. PICK k \in 1..L : t = i + k
    <3>1. t - i \in 1..L /\ t = i + (t - i)
      BY <2>3, <2>6, <2>7
    <3> QED BY <3>1
  <2>9. p + k \in 1..Len(out) /\ row[p + k] = row[j]
    BY <2>6, <2>7, <2>8 DEF t
  <2>10. p + k = j
    BY <1>2, <1>3, <2>9 DEF KeptFrom
  <2>11. p \in 1..(j - 1) /\ j <= p + L
    BY <2>7, <2>8, <2>10
  <2> QED BY <2>6, <2>11 DEF L
<1>8. WellPaired(out)
  BY <1>6, <1>7 DEF WellPaired
<1> QED BY <1>8 DEF out

LEMMA PairedIsWellFormed ==
    ASSUME NEW out \in Seq(Dict), WellPaired(out)
    PROVE  ChatWellFormed(out)
<1>0. DOMAIN out = 1..Len(out) /\ Len(out) \in Nat
  OBVIOUS
<1>1. ASSUME NEW p \in 1..Len(out), out[p].role = "assistant" PROVE AnsweredNext(out, p)
  <2> DEFINE R == (p + 1)..(p + Len(out[p].calls))
  <2>1. /\ p + Len(out[p].calls) <= Len(out)
        /\ \A j \in R : out[j].role = "tool"
        /\ {out[j].id : j \in R} = Range(out[p].calls)
    BY <1>1 DEF WellPaired
  <2>2. \A c \in Range(out[p].calls) : \E j \in R : out[j].id = c
    <3> HIDE DEF R
    <3> QED BY <2>1
  <2> QED BY <2>1, <2>2 DEF AnsweredNext
<1>2. ASSUME NEW j \in 1..Len(out), out[j].role = "tool"
      PROVE  \E i \in 1..(j - 1) : /\ out[i].role = "assistant" /\ j <= i + Len(out[i].calls)
                                   /\ out[j].id \in Range(out[i].calls)
  <2>1. PICK p \in 1..(j - 1) : out[p].role = "assistant" /\ j <= p + Len(out[p].calls)
    BY <1>2 DEF WellPaired
  <2> DEFINE R == (p + 1)..(p + Len(out[p].calls))
  <2>2. p \in 1..Len(out) /\ out[p].calls \in Seq(Nat) /\ {out[k].id : k \in R} = Range(out[p].calls)
    <3>1. p \in 1..Len(out)
      BY <1>0, <2>1
    <3> QED BY <2>1, <3>1 DEF WellPaired
  <2>3. j \in R
    BY <2>1, <2>2
  <2> HIDE DEF R
  <2> QED BY <2>1, <2>2, <2>3
<1> QED BY <1>0, <1>1, <1>2 DEF ChatWellFormed

-----------------------------------------------------------------------------
(* The input of a Responses request.                                       *)

Item == [type: {"user", "assistant"}] \cup [type: {"reasoning"}, turn: Nat]
   \cup [type: {"function_call", "function_call_output"}, id: Nat]

LEMMA Concatenated ==
    ASSUME NEW T, NEW x \in Seq(T), NEW y \in Seq(T)
    PROVE  /\ x \o y \in Seq(T) /\ Len(x \o y) = Len(x) + Len(y)
           /\ \A k \in 1..Len(x) : (x \o y)[k] = x[k]
           /\ \A k \in 1..Len(y) : (x \o y)[Len(x) + k] = y[k]
OBVIOUS

\* What is left of an assistant message's items but its calls.
Lead(d) ==
    (IF PreserveReasoning /\ d.reasoning /\ d.group # 0
       THEN <<[type |-> "reasoning", turn |-> d.group]>> ELSE << >>)
    \o (IF d.text THEN <<[type |-> "assistant"]>> ELSE << >>)

LEMMA LeadTyped ==
    ASSUME NEW d \in Said
    PROVE  Lead(d) \in Seq(Item) /\ \A k \in 1..Len(Lead(d)) : Lead(d)[k].type \in {"reasoning", "assistant"}
<1> DEFINE a == [type |-> "reasoning", turn |-> d.group]
           b == [type |-> "assistant"]
<1>1. a \in Item /\ a.type = "reasoning" /\ b \in Item /\ b.type = "assistant"
  BY DEF Item, Said
<1>2. Lead(d) = (IF PreserveReasoning /\ d.reasoning /\ d.group # 0 THEN <<a>> ELSE << >>)
                \o (IF d.text THEN <<b>> ELSE << >>)
  BY DEF Lead
<1> HIDE DEF a, b
<1>3. Lead(d) \in {<<a>> \o <<b>>, <<a>> \o << >>, << >> \o <<b>>, << >> \o << >>}
  BY <1>2
<1>4. <<a>> \o << >> = <<a>> /\ << >> \o <<b>> = <<b>> /\ << >> \o << >> = << >>
  <2>1. <<a>> \in Seq(Item) /\ <<b>> \in Seq(Item) /\ << >> \in Seq(Item)
    BY <1>1
  <2>2. << >> \o << >> = << >> /\ << >> \o <<b>> = <<b>> /\ <<a>> \o << >> = <<a>>
    BY <2>1
  <2> QED BY <2>2
<1>5. Lead(d) = <<a>> \o <<b>> \/ Lead(d) = <<a>> \/ Lead(d) = <<b>> \/ Lead(d) = << >>
  BY <1>3, <1>4
<1> HIDE DEF Lead
<1>6. CASE Lead(d) = <<a>> \o <<b>>
  <2> DEFINE x == <<a>>
             y == <<b>>
  <2>1. x \in Seq(Item) /\ Len(x) = 1 /\ x[1] = a /\ y \in Seq(Item) /\ Len(y) = 1 /\ y[1] = b
    BY <1>1
  <2> HIDE DEF x, y
  <2>2. /\ x \o y \in Seq(Item) /\ Len(x \o y) = Len(x) + Len(y)
        /\ \A k \in 1..Len(x) : (x \o y)[k] = x[k]
        /\ \A k \in 1..Len(y) : (x \o y)[Len(x) + k] = y[k]
    <3>1. x \in Seq(Item) /\ y \in Seq(Item)
      BY <2>1
    <3> QED BY ONLY <3>1, Concatenated
  <2> DEFINE z == x \o y
  <2> HIDE DEF z
  <2>4. z \in Seq(Item) /\ Len(z) = 2 /\ z[1] = a /\ z[2] = b
    <3>1. 1 \in 1..Len(x) /\ 1 \in 1..Len(y) /\ Len(x) + 1 = 2
      BY <2>1
    <3> QED BY <2>1, <2>2, <3>1 DEF z
  <2>3. Lead(d) = x \o y
    BY <1>6 DEF x, y
  <2> QED BY <1>1, <2>3, <2>4 DEF z
<1>7. CASE Lead(d) = <<a>>
  <2>1. <<a>> \in Seq(Item) /\ Len(<<a>>) = 1 /\ <<a>>[1] = a
    BY <1>1
  <2> QED BY <1>1, <1>7, <2>1
<1>8. CASE Lead(d) = <<b>>
  <2>1. <<b>> \in Seq(Item) /\ Len(<<b>>) = 1 /\ <<b>>[1] = b
    BY <1>1
  <2> QED BY <1>1, <1>8, <2>1
<1>9. CASE Lead(d) = << >>
  <2>1. << >> \in Seq(Item) /\ Len(<< >>) = 0
    OBVIOUS
  <2> QED BY <1>9, <2>1
<1> QED BY <1>5, <1>6, <1>7, <1>8, <1>9

\* The items of a message: h of them come before its calls.
ItemsAre(xs, h, d) ==
    /\ xs \in Seq(Item) /\ h \in Nat
    /\ d.role = "user" => Len(xs) = 1 /\ xs[1].type = "user"
    /\ d.role = "tool" => Len(xs) = 1 /\ xs[1].type = "function_call_output" /\ xs[1].id = d.id
    /\ d.role = "assistant" =>
         /\ Len(xs) = h + Len(d.calls)
         /\ \A k \in 1..h : xs[k].type \in {"reasoning", "assistant"}
         /\ \A n \in 1..Len(d.calls) : xs[h + n].type = "function_call" /\ xs[h + n].id = d.calls[n]

LEMMA ItemsPlaces ==
    ASSUME NEW d \in Dict
    PROVE  \E h \in Nat : ItemsAre(ResponsesItems(d), h, d)
<1>1. CASE d.role = "user"
  <2> DEFINE x == [type |-> "user"]
  <2>1. ResponsesItems(d) = <<x>>
    BY <1>1 DEF ResponsesItems
  <2>2. x \in Item /\ x.type = "user"
    BY DEF Item
  <2> HIDE DEF x
  <2>3. <<x>> \in Seq(Item) /\ Len(<<x>>) = 1 /\ <<x>>[1] = x
    BY <2>2
  <2>4. ItemsAre(<<x>>, 0, d)
    BY <1>1, <2>2, <2>3 DEF ItemsAre
  <2> QED BY <2>1, <2>4
<1>2. CASE d.role = "tool"
  <2> DEFINE x == [type |-> "function_call_output", id |-> d.id]
  <2>1. ResponsesItems(d) = <<x>>
    BY <1>2 DEF ResponsesItems
  <2>2. x \in Item /\ x.type = "function_call_output" /\ x.id = d.id
    BY <1>2, DictFields DEF Item
  <2> HIDE DEF x
  <2>3. <<x>> \in Seq(Item) /\ Len(<<x>>) = 1 /\ <<x>>[1] = x
    BY <2>2
  <2>4. ItemsAre(<<x>>, 0, d)
    BY <1>2, <2>2, <2>3 DEF ItemsAre
  <2> QED BY <2>1, <2>4
<1>3. CASE d.role = "assistant"
  <2> DEFINE C == [n \in DOMAIN d.calls |-> [type |-> "function_call", id |-> d.calls[n]]]
             xs == Lead(d) \o C
             h == Len(Lead(d))
  <2>1. ResponsesItems(d) = xs
    BY <1>3 DEF ResponsesItems, Lead
  <2>2. d \in Said /\ d.calls \in Seq(Nat) /\ DOMAIN d.calls = 1..Len(d.calls) /\ Len(d.calls) \in Nat
    BY <1>3, DictFields
  <2>3. \A n \in 1..Len(d.calls) : C[n] \in Item /\ C[n].type = "function_call" /\ C[n].id = d.calls[n]
    BY <2>2 DEF Item
  <2>4. C = [n \in 1..Len(d.calls) |-> C[n]]
    BY <2>2
  <2> HIDE DEF C
  <2>5. C \in [1..Len(d.calls) -> Item]
    BY <2>3, <2>4
  <2>6. C \in Seq(Item) /\ Len(C) = Len(d.calls)
    BY <2>2, <2>5
  <2> DEFINE l == Lead(d)
  <2>7. l \in Seq(Item) /\ \A k \in 1..Len(l) : l[k].type \in {"reasoning", "assistant"}
    BY <2>2, LeadTyped
  <2> HIDE DEF l
  <2>8. /\ l \o C \in Seq(Item) /\ Len(l) \in Nat /\ Len(l \o C) = Len(l) + Len(C)
        /\ \A k \in 1..Len(l) : (l \o C)[k] = l[k]
        /\ \A n \in 1..Len(C) : (l \o C)[Len(l) + n] = C[n]
    BY SMTT(40), <2>6, <2>7
  <2>9. ItemsAre(l \o C, Len(l), d)
    <3> DEFINE z == l \o C
    <3> HIDE DEF z
    <3> QED BY <1>3, <2>3, <2>6, <2>7, <2>8 DEF ItemsAre, z
  <2> QED BY <2>1, <2>8, <2>9 DEF l
<1> QED BY <1>1, <1>2, <1>3, DictFields

\* No two calls of a request are one.
DistinctCalls(ds) ==
    \A i, j \in 1..Len(ds) : ds[i].role = "assistant" /\ ds[j].role = "assistant" =>
      \A m \in 1..Len(ds[i].calls), n \in 1..Len(ds[j].calls) :
        ds[i].calls[m] = ds[j].calls[n] => i = j /\ m = n

\* The results after a message are as many as its calls, so each comes once.
LEMMA ResultsOnce ==
    ASSUME NEW out, WellPaired(out), NEW p \in 1..Len(out), out[p].role = "assistant",
           NEW j \in (p + 1)..(p + Len(out[p].calls)), NEW k \in (p + 1)..(p + Len(out[p].calls)),
           out[j].id = out[k].id
    PROVE  j = k
<1> DEFINE calls == out[p].calls
           L == Len(calls)
           R == (p + 1)..(p + L)
           f == [m \in R |-> out[m].id]
           g == [n \in 1..L |-> calls[n]]
<1>1. calls \in Seq(Nat) /\ IsInjective(calls) /\ {out[m].id : m \in R} = Range(calls)
  BY DEF WellPaired
<1> HIDE DEF calls
<1>2. L \in Nat /\ p \in Nat /\ DOMAIN calls = 1..L /\ Range(calls) = {calls[n] : n \in 1..L}
  BY SMTT(40), <1>1 DEF Range
<1>3. \A m, n \in 1..L : calls[m] = calls[n] => m = n
  BY <1>1, <1>2 DEF IsInjective
<1> HIDE DEF L
<1>4. IsFiniteSet(R) /\ Cardinality(R) = L
  <2>1. p + 1 \in Int /\ p + L \in Int
    BY <1>2
  <2>2. IsFiniteSet(R) /\ Cardinality(R) = IF p + 1 > p + L THEN 0 ELSE (p + L) - (p + 1) + 1
    BY <2>1, FS_Interval
  <2> QED BY <1>2, <2>2
<1> DEFINE S == Range(calls)
<1>5. IsFiniteSet(S) /\ Cardinality(S) = L
  <2>1. IsFiniteSet(1..L) /\ Cardinality(1..L) = L
    <3>1. 1 \in Int /\ L \in Int
      BY <1>2
    <3>2. IsFiniteSet(1..L) /\ Cardinality(1..L) = IF 1 > L THEN 0 ELSE L - 1 + 1
      BY <3>1, FS_Interval
    <3> QED BY <1>2, <3>2
  <2>2. g \in Bijection(1..L, S)
    <3>1. \A n \in 1..L : g[n] = calls[n] /\ g[n] \in S
      BY <1>2
    <3>2. g = [n \in 1..L |-> g[n]]
      OBVIOUS
    <3>3. \A t \in S : \E n \in 1..L : g[n] = t
      BY <1>2
    <3> HIDE DEF g, S
    <3>4. g \in [1..L -> S]
      BY <3>1, <3>2
    <3>5. g \in Injection(1..L, S)
      BY <1>3, <3>1, <3>4 DEF Injection, IsInjective
    <3>6. g \in Surjection(1..L, S)
      BY <3>3, <3>4 DEF Surjection
    <3> QED BY <3>5, <3>6 DEF Bijection
  <2> HIDE DEF g, S
  <2> QED BY <2>1, <2>2, FS_Bijection DEF ExistsBijection
<1>6. f \in Surjection(R, S)
  <2>1. \A m \in R : f[m] = out[m].id /\ f[m] \in S
    BY <1>1
  <2>2. f = [m \in R |-> f[m]]
    OBVIOUS
  <2>3. \A t \in S : \E m \in R : f[m] = t
    BY <1>1
  <2> HIDE DEF f, S, R
  <2>4. f \in [R -> S]
    BY <2>1, <2>2
  <2> QED BY <2>3, <2>4 DEF Surjection
<1>7. f[j] = out[j].id /\ f[k] = out[k].id /\ j \in R /\ k \in R
  BY DEF calls, L
<1> HIDE DEF f, S, R
<1>8. f \in Injection(R, S)
  BY <1>4, <1>5, <1>6, FS_SurjSameCardinalityImpliesInj
<1> QED BY <1>7, <1>8 DEF Injection, IsInjective

\* Place p of the input is an item of message row[p]; head[i] items of an
\* assistant's come before its calls.
Laid(xs, out, row, col, head) ==
    /\ \A p \in 1..Len(xs) : row[p] \in 1..Len(out) /\ col[p] \in Nat
    /\ \A i \in 1..Len(out) : head[i] \in Nat
    /\ \A p, q \in 1..Len(xs) : p < q => row[p] < row[q] \/ (row[p] = row[q] /\ col[p] < col[q])
    /\ \A p \in 1..Len(xs) : xs[p].type = "function_call" =>
         /\ out[row[p]].role = "assistant"
         /\ col[p] - head[row[p]] \in 1..Len(out[row[p]].calls)
         /\ xs[p].id = out[row[p]].calls[col[p] - head[row[p]]]
    /\ \A p \in 1..Len(xs) : xs[p].type = "function_call_output" =>
         out[row[p]].role = "tool" /\ col[p] = 1 /\ xs[p].id = out[row[p]].id
    /\ \A p \in 1..Len(xs) : out[row[p]].role = "tool" => xs[p].type = "function_call_output"
    /\ \A p \in 1..Len(xs) : out[row[p]].role = "assistant" /\ col[p] > head[row[p]] => xs[p].type = "function_call"
    /\ \A i \in 1..Len(out) : out[i].role = "assistant" =>
         \A n \in 1..Len(out[i].calls) : \E p \in 1..Len(xs) :
           xs[p].type = "function_call" /\ row[p] = i /\ col[p] = head[i] + n
    /\ \A i \in 1..Len(out) : out[i].role = "tool" =>
         \E p \in 1..Len(xs) : xs[p].type = "function_call_output" /\ row[p] = i

LEMMA InputLaid ==
    ASSUME NEW out \in Seq(Dict)
    PROVE  \E row, col, head : Laid(ResponsesInput(out), out, row, col, head)
<1> DEFINE s == [i \in DOMAIN out |-> ResponsesItems(out[i])]
           xs == ResponsesInput(out)
           head == [i \in 1..Len(out) |-> CHOOSE h \in Nat : ItemsAre(s[i], h, out[i])]
<1>1. xs = FlattenSeq(s)
  BY DEF ResponsesInput
<1>2. DOMAIN out = 1..Len(out) /\ Len(out) \in Nat /\ \A i \in 1..Len(out) : out[i] \in Dict
  OBVIOUS
<1>3. \A i \in 1..Len(out) : s[i] = ResponsesItems(out[i])
  BY <1>2
<1>4. s = [i \in 1..Len(out) |-> s[i]]
  BY <1>2
<1> HIDE DEF s, xs
<1>5. ASSUME NEW i \in 1..Len(out) PROVE head[i] \in Nat /\ ItemsAre(s[i], head[i], out[i])
  <2>1. \E h \in Nat : ItemsAre(s[i], h, out[i])
    BY <1>2, <1>3, ItemsPlaces
  <2> QED BY <2>1
<1> HIDE DEF head
<1>6. s \in Seq(Seq(Item)) /\ Len(s) = Len(out)
  <2>1. \A i \in 1..Len(out) : s[i] \in Seq(Item)
    BY <1>5 DEF ItemsAre
  <2>2. s \in [1..Len(out) -> Seq(Item)]
    BY <1>4, <2>1
  <2> QED BY <1>2, <2>2
<1>7. xs \in Seq(Item) /\ \E row, col : Places(row, col, xs, s)
  BY <1>1, <1>6, FlattenPlaces
<1>8. PICK row, col : Places(row, col, xs, s)
  BY <1>7
<1>9. ASSUME NEW p \in 1..Len(xs)
      PROVE  /\ row[p] \in 1..Len(out) /\ col[p] \in 1..Len(s[row[p]]) /\ col[p] \in Nat
             /\ xs[p] = s[row[p]][col[p]] /\ ItemsAre(s[row[p]], head[row[p]], out[row[p]])
             /\ head[row[p]] \in Nat /\ out[row[p]] \in Dict
  <2>1. row[p] \in 1..Len(out) /\ col[p] \in 1..Len(s[row[p]]) /\ col[p] \in Nat /\ xs[p] = s[row[p]][col[p]]
    BY <1>6, <1>8 DEF Places
  <2> QED BY <1>2, <1>5, <2>1
<1>10. ASSUME NEW p \in 1..Len(xs), out[row[p]].role = "assistant"
       PROVE  /\ col[p] > head[row[p]] =>
                   /\ xs[p].type = "function_call" /\ col[p] - head[row[p]] \in 1..Len(out[row[p]].calls)
                   /\ xs[p].id = out[row[p]].calls[col[p] - head[row[p]]]
              /\ col[p] <= head[row[p]] => xs[p].type \in {"reasoning", "assistant"}
  <2> DEFINE i == row[p]
             h == head[i]
             k == col[p]
             L == Len(out[i].calls)
  <2>1. /\ i \in 1..Len(out) /\ k \in 1..Len(s[i]) /\ k \in Nat /\ xs[p] = s[i][k] /\ ItemsAre(s[i], h, out[i])
        /\ h \in Nat /\ out[i] \in Dict
    BY <1>9
  <2>2. out[i].role = "assistant"
    BY <1>10
  <2> HIDE DEF h, i, k
  <2>3. /\ Len(s[i]) = h + L
        /\ \A m \in 1..h : s[i][m].type \in {"reasoning", "assistant"}
        /\ \A n \in 1..L : s[i][h + n].type = "function_call" /\ s[i][h + n].id = out[i].calls[n]
    BY <2>1, <2>2 DEF ItemsAre
  <2>4. L \in Nat
    BY <2>1, <2>2, DictFields
  <2> HIDE DEF L
  <2>5. k > h => k - h \in 1..L /\ h + (k - h) = k
    BY <2>1, <2>3, <2>4
  <2>6. k <= h => k \in 1..h
    BY <2>1
  <2>7. /\ k > h => xs[p].type = "function_call" /\ k - h \in 1..L /\ xs[p].id = out[i].calls[k - h]
        /\ k <= h => xs[p].type \in {"reasoning", "assistant"}
    BY <2>1, <2>3, <2>5, <2>6
  <2> QED BY <2>7 DEF h, i, k, L
<1>11. ASSUME NEW p \in 1..Len(xs), out[row[p]].role = "tool"
       PROVE  xs[p].type = "function_call_output" /\ col[p] = 1 /\ xs[p].id = out[row[p]].id
  <2>1. Len(s[row[p]]) = 1 /\ s[row[p]][1].type = "function_call_output" /\ s[row[p]][1].id = out[row[p]].id
    BY <1>9, <1>11 DEF ItemsAre
  <2>2. col[p] = 1
    BY <1>9, <2>1
  <2> QED BY <1>9, <2>1, <2>2
<1>12. ASSUME NEW p \in 1..Len(xs), out[row[p]].role = "user"
       PROVE  xs[p].type = "user"
  <2>1. Len(s[row[p]]) = 1 /\ s[row[p]][1].type = "user"
    BY <1>9, <1>12 DEF ItemsAre
  <2>2. col[p] = 1
    BY <1>9, <2>1
  <2> QED BY <1>9, <2>1, <2>2
<1>13. ASSUME NEW p \in 1..Len(xs)
       PROVE  out[row[p]].role \in {"user", "assistant", "tool"}
  BY <1>9, DictFields
<1>14. ASSUME NEW i \in 1..Len(out), out[i].role = "assistant", NEW n \in 1..Len(out[i].calls)
       PROVE  \E p \in 1..Len(xs) : xs[p].type = "function_call" /\ row[p] = i /\ col[p] = head[i] + n
  <2>1. head[i] \in Nat /\ Len(s[i]) = head[i] + Len(out[i].calls) /\ i \in 1..Len(s)
    BY <1>5, <1>6, <1>14 DEF ItemsAre
  <2>2. Len(out[i].calls) \in Nat
    BY <1>2, <1>14, DictFields
  <2>3. head[i] + n \in 1..Len(s[i]) /\ head[i] + n > head[i]
    BY <2>1, <2>2
  <2>4. PICK p \in 1..Len(xs) : row[p] = i /\ col[p] = head[i] + n
    BY <1>8, <2>1, <2>3 DEF Places
  <2> QED BY <1>10, <1>14, <2>3, <2>4
<1>15. ASSUME NEW i \in 1..Len(out), out[i].role = "tool"
       PROVE  \E p \in 1..Len(xs) : xs[p].type = "function_call_output" /\ row[p] = i
  <2>1. 1 \in 1..Len(s[i]) /\ i \in 1..Len(s)
    BY <1>5, <1>6, <1>15 DEF ItemsAre
  <2>2. PICK p \in 1..Len(xs) : row[p] = i /\ col[p] = 1
    <3>1. \A m \in 1..Len(s) : \A k \in 1..Len(s[m]) : \E p \in 1..Len(xs) : row[p] = m /\ col[p] = k
      BY <1>8 DEF Places
    <3> QED BY <2>1, <3>1
  <2> QED BY <1>11, <1>15, <2>2
<1>16. \A p, q \in 1..Len(xs) : p < q => row[p] < row[q] \/ (row[p] = row[q] /\ col[p] < col[q])
  BY <1>8 DEF Places
<1>17. ASSUME NEW p \in 1..Len(xs), xs[p].type = "function_call"
       PROVE  /\ out[row[p]].role = "assistant"
              /\ col[p] - head[row[p]] \in 1..Len(out[row[p]].calls)
              /\ xs[p].id = out[row[p]].calls[col[p] - head[row[p]]]
  <2>1. out[row[p]].role = "assistant"
    BY <1>11, <1>12, <1>13, <1>17
  <2>2. col[p] > head[row[p]]
    BY SMTT(40), <1>9, <1>10, <1>17, <2>1
  <2> QED BY <1>10, <2>1, <2>2
<1>18. ASSUME NEW p \in 1..Len(xs), xs[p].type = "function_call_output"
       PROVE  out[row[p]].role = "tool" /\ col[p] = 1 /\ xs[p].id = out[row[p]].id
  <2>1. out[row[p]].role = "tool"
    BY <1>9, <1>10, <1>12, <1>13, <1>18
  <2> QED BY <1>11, <2>1
<1>19. Laid(xs, out, row, col, head)
  BY <1>5, <1>9, <1>10, <1>11, <1>14, <1>15, <1>16, <1>17, <1>18 DEF Laid
<1> QED BY <1>19 DEF xs

\* With distinct calls the pairs of a normal form are the pairs of the input.
LEMMA PairedIsWellLaid ==
    ASSUME NEW out \in Seq(Dict), WellPaired(out), DistinctCalls(out)
    PROVE  ResponsesWellFormed(ResponsesInput(out))
<1> DEFINE xs == ResponsesInput(out)
<1>1. PICK row, col, head : Laid(xs, out, row, col, head)
  BY InputLaid
<1> HIDE DEF xs
<1>2. DOMAIN xs = 1..Len(xs) /\ Len(xs) \in Nat
  <2>1. xs \in Seq(Item)
    <3> DEFINE s == [i \in DOMAIN out |-> ResponsesItems(out[i])]
    <3>1. xs = FlattenSeq(s) /\ DOMAIN out = 1..Len(out) /\ Len(out) \in Nat
      BY DEF ResponsesInput, xs
    <3>2. \A i \in 1..Len(out) : s[i] \in Seq(Item)
      <4>1. ASSUME NEW i \in 1..Len(out) PROVE s[i] \in Seq(Item)
        <5>1. out[i] \in Dict
          OBVIOUS
        <5> QED BY <3>1, <5>1, ItemsPlaces DEF ItemsAre
      <4> QED BY <4>1
    <3>3. s = [i \in 1..Len(out) |-> s[i]]
      BY <3>1
    <3> HIDE DEF s
    <3>4. s \in Seq(Seq(Item))
      BY <3>1, <3>2, <3>3
    <3> QED BY <3>1, <3>4, FlattenPlaces
  <2> QED BY <2>1
<1>3. /\ \A p \in 1..Len(xs) : row[p] \in 1..Len(out) /\ col[p] \in Nat
      /\ \A i \in 1..Len(out) : head[i] \in Nat
      /\ \A p, q \in 1..Len(xs) : p < q => row[p] < row[q] \/ (row[p] = row[q] /\ col[p] < col[q])
      /\ \A p \in 1..Len(xs) : out[row[p]].role = "tool" => xs[p].type = "function_call_output"
      /\ \A p \in 1..Len(xs) : out[row[p]].role = "assistant" /\ col[p] > head[row[p]] => xs[p].type = "function_call"
  BY <1>1 DEF Laid
<1>4. ASSUME NEW p \in 1..Len(xs), xs[p].type = "function_call"
      PROVE  /\ row[p] \in 1..Len(out) /\ out[row[p]].role = "assistant" /\ col[p] > head[row[p]]
             /\ col[p] - head[row[p]] \in 1..Len(out[row[p]].calls)
             /\ xs[p].id = out[row[p]].calls[col[p] - head[row[p]]]
             /\ xs[p].id \in Range(out[row[p]].calls)
  <2>1. /\ out[row[p]].role = "assistant"
        /\ col[p] - head[row[p]] \in 1..Len(out[row[p]].calls)
        /\ xs[p].id = out[row[p]].calls[col[p] - head[row[p]]]
    BY <1>1, <1>4 DEF Laid
  <2>2. out[row[p]].calls \in Seq(Nat)
    BY <1>3, <2>1, DictFields
  <2>3. xs[p].id \in Range(out[row[p]].calls)
    BY <2>1, <2>2 DEF Range
  <2> QED BY <1>3, <2>1, <2>3
<1>5. ASSUME NEW p \in 1..Len(xs), xs[p].type = "function_call_output"
      PROVE  row[p] \in 1..Len(out) /\ out[row[p]].role = "tool" /\ col[p] = 1 /\ xs[p].id = out[row[p]].id
  BY <1>1, <1>3, <1>5 DEF Laid
\* A call comes once.
<1>6. ASSUME NEW p \in 1..Len(xs), NEW q \in 1..Len(xs), xs[p].type = "function_call",
             xs[q].type = "function_call", xs[p].id = xs[q].id
      PROVE  p = q
  <2>1. row[p] = row[q] /\ col[p] - head[row[p]] = col[q] - head[row[q]]
    <3> DEFINE i == row[p]
               j == row[q]
               m == col[p] - head[row[p]]
               n == col[q] - head[row[q]]
    <3>1. /\ i \in 1..Len(out) /\ j \in 1..Len(out) /\ out[i].role = "assistant" /\ out[j].role = "assistant"
          /\ m \in 1..Len(out[i].calls) /\ n \in 1..Len(out[j].calls) /\ out[i].calls[m] = out[j].calls[n]
      BY <1>4, <1>6
    <3> HIDE DEF i, j, m, n
    <3>2. i = j /\ m = n
      BY <3>1 DEF DistinctCalls
    <3> QED BY <3>2 DEF i, j, m, n
  <2>2. col[p] = col[q]
    BY SMTT(40), <1>3, <1>4, <1>6, <2>1
  <2> QED BY <1>2, <1>3, <2>1, <2>2
\* An output is one of those after its call, and comes once.
<1>7. ASSUME NEW q \in 1..Len(xs), xs[q].type = "function_call_output"
      PROVE  \E p \in 1..Len(xs) : /\ xs[p].type = "function_call" /\ xs[p].id = xs[q].id
                                   /\ row[q] \in (row[p] + 1)..(row[p] + Len(out[row[p]].calls))
  <2> DEFINE j == row[q]
  <2>1. j \in 1..Len(out) /\ out[j].role = "tool" /\ xs[q].id = out[j].id
    BY <1>5, <1>7
  <2> HIDE DEF j
  <2>2. PICK i \in 1..(j - 1) : out[i].role = "assistant" /\ j <= i + Len(out[i].calls)
    BY <2>1 DEF WellPaired
  <2> DEFINE L == Len(out[i].calls)
             R == (i + 1)..(i + L)
  <2>3. i \in 1..Len(out) /\ out[i].calls \in Seq(Nat) /\ {out[k].id : k \in R} = Range(out[i].calls)
    <3>1. i \in 1..Len(out)
      BY <2>1, <2>2
    <3> QED BY <2>2, <3>1 DEF WellPaired
  <2>4. j \in R
    BY <2>1, <2>2, <2>3
  <2>5. PICK n \in 1..L : out[i].calls[n] = out[j].id
    <3>1. out[j].id \in Range(out[i].calls)
      BY <2>3, <2>4
    <3>2. DOMAIN out[i].calls = 1..L
      BY <2>3
    <3> QED BY <3>1, <3>2 DEF Range
  <2>6. PICK p \in 1..Len(xs) : xs[p].type = "function_call" /\ row[p] = i /\ col[p] = head[i] + n
    <3>1. \A m \in 1..Len(out) : out[m].role = "assistant" =>
            \A k \in 1..Len(out[m].calls) : \E p \in 1..Len(xs) :
              xs[p].type = "function_call" /\ row[p] = m /\ col[p] = head[m] + k
      BY <1>1 DEF Laid
    <3> QED BY <2>2, <2>3, <3>1
  <2>7. head[i] \in Nat /\ n \in Nat /\ (head[i] + n) - head[i] = n
    BY <1>3, <2>3
  <2>8. xs[p].id = out[i].calls[n]
    BY <1>4, <2>6, <2>7
  <2> QED BY <2>1, <2>4, <2>5, <2>6, <2>8 DEF j
<1>8. ASSUME NEW p \in 1..Len(xs), NEW q \in 1..Len(xs), NEW r \in 1..Len(xs),
             xs[p].type = "function_call", xs[q].type = "function_call_output",
             xs[r].type = "function_call_output", xs[q].id = xs[p].id, xs[r].id = xs[p].id
      PROVE  q = r
  <2>1. /\ row[q] \in (row[p] + 1)..(row[p] + Len(out[row[p]].calls))
        /\ row[r] \in (row[p] + 1)..(row[p] + Len(out[row[p]].calls))
    <3>1. PICK p1 \in 1..Len(xs) : /\ xs[p1].type = "function_call" /\ xs[p1].id = xs[q].id
                                   /\ row[q] \in (row[p1] + 1)..(row[p1] + Len(out[row[p1]].calls))
      BY <1>7, <1>8
    <3>2. PICK p2 \in 1..Len(xs) : /\ xs[p2].type = "function_call" /\ xs[p2].id = xs[r].id
                                   /\ row[r] \in (row[p2] + 1)..(row[p2] + Len(out[row[p2]].calls))
      BY <1>7, <1>8
    <3>3. p1 = p /\ p2 = p
      BY <1>6, <1>8, <3>1, <3>2
    <3> QED BY <3>1, <3>2, <3>3
  <2>2. row[q] = row[r]
    <3>1. out[row[q]].id = out[row[r]].id /\ row[p] \in 1..Len(out) /\ out[row[p]].role = "assistant"
      BY <1>4, <1>5, <1>8
    <3> QED BY <2>1, <3>1, ResultsOnce
  <2>3. col[q] = 1 /\ col[r] = 1
    BY <1>5, <1>8
  <2> QED BY <1>2, <1>3, <2>2, <2>3
\* Every call has an output.
<1>9. ASSUME NEW p \in 1..Len(xs), xs[p].type = "function_call"
      PROVE  \E q \in 1..Len(xs) : xs[q].type = "function_call_output" /\ xs[q].id = xs[p].id
  <2> DEFINE i == row[p]
             R == (i + 1)..(i + Len(out[i].calls))
  <2>1. i \in 1..Len(out) /\ out[i].role = "assistant" /\ xs[p].id \in Range(out[i].calls)
    BY <1>4, <1>9
  <2> HIDE DEF i
  <2>2. i + Len(out[i].calls) <= Len(out) /\ out[i].calls \in Seq(Nat) /\ (\A j \in R : out[j].role = "tool")
        /\ {out[j].id : j \in R} = Range(out[i].calls)
    BY <2>1 DEF WellPaired
  <2>3. PICK j \in R : out[j].id = xs[p].id
    <3> HIDE DEF R
    <3> QED BY <2>1, <2>2
  <2>4. j \in 1..Len(out) /\ out[j].role = "tool"
    <3>1. Len(out[i].calls) \in Nat /\ Len(out) \in Nat
      BY <2>2
    <3>2. j \in 1..Len(out)
      BY <2>1, <2>2, <2>3, <3>1
    <3> QED BY <2>2, <2>3, <3>2
  <2>5. PICK q \in 1..Len(xs) : xs[q].type = "function_call_output" /\ row[q] = j
    <3>1. \A m \in 1..Len(out) : out[m].role = "tool" =>
            \E q \in 1..Len(xs) : xs[q].type = "function_call_output" /\ row[q] = m
      BY <1>1 DEF Laid
    <3> QED BY <2>4, <3>1
  <2> QED BY <1>5, <2>3, <2>5
\* And nothing else between them.
<1>10. ASSUME NEW p \in 1..Len(xs), NEW q \in 1..Len(xs), xs[p].type = "function_call",
              xs[q].type = "function_call_output", xs[p].id = xs[q].id
       PROVE  p < q /\ \A k \in p..q : xs[k].type \notin {"user", "assistant", "reasoning"}
  <2> DEFINE i == row[p]
             L == Len(out[i].calls)
  <2>1. i \in 1..Len(out) /\ out[i].role = "assistant" /\ col[p] > head[i] /\ row[q] \in (i + 1)..(i + L)
    <3>1. PICK p1 \in 1..Len(xs) : /\ xs[p1].type = "function_call" /\ xs[p1].id = xs[q].id
                                   /\ row[q] \in (row[p1] + 1)..(row[p1] + Len(out[row[p1]].calls))
      BY <1>7, <1>10
    <3>2. p1 = p
      BY <1>6, <1>10, <3>1
    <3> QED BY <1>4, <1>10, <3>1, <3>2
  <2>2. row[p] = i
    OBVIOUS
  <2> HIDE DEF i
  <2>3. /\ L \in Nat /\ \A j \in (i + 1)..(i + L) : out[j].role = "tool"
    <3>1. out[i].calls \in Seq(Nat) /\ \A j \in (i + 1)..(i + L) : out[j].role = "tool"
      BY <2>1 DEF WellPaired
    <3> QED BY <3>1
  <2> HIDE DEF L
  <2>4. p < q
    BY <1>2, <1>3, <2>1, <2>2, <2>3
  <2>5. ASSUME NEW k \in p..q PROVE xs[k].type \in {"function_call", "function_call_output"}
    <3>1. k \in 1..Len(xs) /\ row[k] \in Nat /\ i \in Nat /\ col[k] \in Nat /\ col[p] \in Nat /\ head[i] \in Nat
      BY <1>2, <1>3, <2>1
    <3>2. i < row[k] \/ (row[k] = i /\ col[k] >= col[p])
      <4>1. CASE k = p
        BY <2>2, <3>1, <4>1
      <4>2. CASE k # p
        <5>1. p < k
          BY <1>2, <4>2
        <5> QED BY <1>3, <2>2, <3>1, <5>1
      <4> QED BY <4>1, <4>2
    <3>3. row[k] <= row[q]
      <4>1. CASE k = q
        BY <3>1, <4>1
      <4>2. CASE k # q
        <5>1. k < q
          BY <1>2, <4>2
        <5> QED BY <1>3, <3>1, <5>1
      <4> QED BY <4>1, <4>2
    <3>4. CASE i < row[k]
      <4>1. row[k] \in (i + 1)..(i + L)
        BY <2>1, <2>3, <3>1, <3>3, <3>4
      <4> QED BY <1>3, <2>3, <3>1, <4>1
    <3>5. CASE row[k] = i /\ col[k] >= col[p]
      <4>1. col[k] > head[row[k]] /\ out[row[k]].role = "assistant"
        BY <2>1, <3>1, <3>5
      <4> QED BY <1>3, <3>1, <4>1
    <3> QED BY <3>2, <3>4, <3>5
  <2> QED BY <2>4, <2>5
<1>11. ASSUME NEW c \in Calls
       PROVE  LET calls == {i \in DOMAIN xs : xs[i].type = "function_call" /\ xs[i].id = c}
                  outputs == {i \in DOMAIN xs : xs[i].type = "function_call_output" /\ xs[i].id = c}
              IN  /\ Cardinality(calls) = Cardinality(outputs) /\ Cardinality(calls) <= 1
                  /\ \A i \in calls, j \in outputs :
                       i < j /\ \A k \in i..j : xs[k].type \notin {"user", "assistant", "reasoning"}
  <2> DEFINE calls == {i \in DOMAIN xs : xs[i].type = "function_call" /\ xs[i].id = c}
             outputs == {i \in DOMAIN xs : xs[i].type = "function_call_output" /\ xs[i].id = c}
  <2>1. \A i \in calls, j \in outputs : i < j /\ \A k \in i..j : xs[k].type \notin {"user", "assistant", "reasoning"}
    BY <1>2, <1>10
  <2>2. Cardinality(calls) = Cardinality(outputs) /\ Cardinality(calls) <= 1
    <3>1. CASE calls = {}
      <4>1. outputs = {}
        BY SMTT(40), <1>2, <1>7, <3>1
      <4> HIDE DEF calls, outputs
      <4>2. Cardinality({}) = 0
        BY FS_EmptySet
      <4> QED BY <3>1, <4>1, <4>2
    <3>2. CASE calls # {}
      <4>1. PICK p \in calls : TRUE
        BY <3>2
      <4>2. PICK q \in outputs : TRUE
        BY <1>2, <1>9, <4>1
      <4>3. calls = {p}
        BY <1>2, <1>6, <4>1
      <4>4. outputs = {q}
        BY <1>2, <1>8, <4>1, <4>2
      <4> HIDE DEF calls, outputs
      <4>5. Cardinality({p}) = 1 /\ Cardinality({q}) = 1
        BY FS_Singleton
      <4> QED BY <4>3, <4>4, <4>5
    <3> QED BY <3>1, <3>2
  <2> QED BY <2>1, <2>2
<1> QED BY <1>11 DEF ResponsesWellFormed, xs

-----------------------------------------------------------------------------
(* Blocks and messages, and the ids of their calls and results.            *)

BlockStates == {"-", "PENDING", "ASKING", "ALLOWED", "FINISHED", "RUNNING", "SUCCESS", "DENIED"}
BlockTypes == {"text", "thinking", "hint", "tool_call", "tool_result"}
BlockT == [type: BlockTypes, id: Nat, state: BlockStates, said: BOOLEAN, turn: Nat]
MsgT == [role: {"user", "assistant"}, id: Nat, content: Seq(BlockT), groups: Seq(Nat)]

\* The ids of the blocks of one type.
IdsOf(bs, t) == {c \in Nat : \E i \in 1..Len(bs) : bs[i].type = t /\ bs[i].id = c}

OneEach(bs, t) ==
    \A i, j \in 1..Len(bs) : bs[i].type = t /\ bs[j].type = t /\ bs[i].id = bs[j].id => i = j

AllIds(ms, t) == {c \in Nat : \E i \in 1..Len(ms) : c \in IdsOf(ms[i].content, t)}

Once(ms, t) ==
    /\ \A i \in 1..Len(ms) : OneEach(ms[i].content, t)
    /\ \A i, j \in 1..Len(ms) : \A c \in Nat :
         c \in IdsOf(ms[i].content, t) /\ c \in IdsOf(ms[j].content, t) => i = j

\* A list of blocks, or of messages, to which at most the ids C were added;
\* if they are new, no id comes twice that did not before.
Adds(bs, bs2, t, C) ==
    /\ bs2 \in Seq(BlockT)
    /\ IdsOf(bs, t) \subseteq IdsOf(bs2, t) /\ IdsOf(bs2, t) \subseteq IdsOf(bs, t) \cup C
    /\ OneEach(bs, t) /\ C \cap IdsOf(bs, t) = {} => OneEach(bs2, t)

Grown(ms, ms2, t, C) ==
    /\ ms2 \in Seq(MsgT)
    /\ AllIds(ms, t) \subseteq AllIds(ms2, t) /\ AllIds(ms2, t) \subseteq AllIds(ms, t) \cup C
    /\ Once(ms, t) /\ C \cap AllIds(ms, t) = {} => Once(ms2, t)

LEMMA BlockFields ==
    ASSUME NEW bs \in Seq(BlockT), NEW i \in 1..Len(bs)
    PROVE  /\ bs[i] \in BlockT /\ bs[i].id \in Nat /\ bs[i].type \in BlockTypes
           /\ bs[i].state \in BlockStates /\ bs[i].said \in BOOLEAN /\ bs[i].turn \in Nat
<1>1. bs[i] \in BlockT
  OBVIOUS
<1> QED BY <1>1 DEF BlockT

LEMMA MsgFields ==
    ASSUME NEW m \in MsgT
    PROVE  /\ m.role \in {"user", "assistant"} /\ m.id \in Nat /\ m.content \in Seq(BlockT) /\ m.groups \in Seq(Nat)
           /\ m = [role |-> m.role, id |-> m.id, content |-> m.content, groups |-> m.groups]
           /\ \A bs \in Seq(BlockT) : /\ [m EXCEPT !.content = bs] \in MsgT /\ [m EXCEPT !.content = bs].content = bs
                                      /\ [m EXCEPT !.content = bs].role = m.role /\ [m EXCEPT !.content = bs].id = m.id
BY DEF MsgT

LEMMA AddsSame ==
    ASSUME NEW bs \in Seq(BlockT), NEW bs2 \in Seq(BlockT), NEW t, Len(bs2) = Len(bs),
           \A i \in 1..Len(bs) : bs2[i].type = bs[i].type /\ bs2[i].id = bs[i].id
    PROVE  Adds(bs, bs2, t, {})
<1>1. IdsOf(bs, t) = IdsOf(bs2, t)
  BY DEF IdsOf
<1>2. OneEach(bs, t) => OneEach(bs2, t)
  BY DEF OneEach
<1> QED BY <1>1, <1>2 DEF Adds

LEMMA AddsNothing == ASSUME NEW bs \in Seq(BlockT), NEW t PROVE Adds(bs, bs, t, {})
BY DEF Adds

LEMMA AddsConcat ==
    ASSUME NEW x \in Seq(BlockT), NEW y \in Seq(BlockT), NEW t, OneEach(y, t)
    PROVE  Adds(x, x \o y, t, IdsOf(y, t)) /\ IdsOf(y, t) \subseteq IdsOf(x \o y, t)
<1> DEFINE z == x \o y
           L == Len(x)
           M == Len(y)
<1>1. /\ z \in Seq(BlockT) /\ L \in Nat /\ M \in Nat /\ Len(z) = L + M
      /\ \A k \in 1..L : z[k] = x[k]
      /\ \A k \in 1..M : z[L + k] = y[k]
  BY Concatenated
<1> HIDE DEF z
<1>2. \A k \in 1..Len(z) : (k \in 1..L /\ z[k] = x[k]) \/ (k - L \in 1..M /\ k = L + (k - L) /\ z[k] = y[k - L])
  <2>1. ASSUME NEW k \in 1..Len(z), k \notin 1..L PROVE k - L \in 1..M /\ k = L + (k - L) /\ z[k] = y[k - L]
    <3>1. k - L \in 1..M /\ k = L + (k - L)
      BY <1>1, <2>1
    <3> QED BY <1>1, <3>1
  <2> QED BY <1>1, <2>1
<1>3. \A k \in 1..L : k \in 1..Len(z)
  BY <1>1
<1>4. \A k \in 1..M : L + k \in 1..Len(z)
  BY <1>1
<1>5. IdsOf(x, t) \subseteq IdsOf(z, t)
  BY <1>1, <1>3 DEF IdsOf
<1>6. IdsOf(y, t) \subseteq IdsOf(z, t)
  BY <1>1, <1>4 DEF IdsOf
<1>7. IdsOf(z, t) \subseteq IdsOf(x, t) \cup IdsOf(y, t)
  BY <1>2 DEF IdsOf
<1>8. ASSUME OneEach(x, t), IdsOf(y, t) \cap IdsOf(x, t) = {} PROVE OneEach(z, t)
  <2> SUFFICES ASSUME NEW i \in 1..Len(z), NEW j \in 1..Len(z), z[i].type = t, z[j].type = t, z[i].id = z[j].id
               PROVE  i = j
    BY DEF OneEach
  <2>1. \A p \in 1..L, q \in 1..M : ~(x[p].type = t /\ y[q].type = t /\ x[p].id = y[q].id)
    <3>1. ASSUME NEW p \in 1..L, NEW q \in 1..M, x[p].type = t, y[q].type = t, x[p].id = y[q].id PROVE FALSE
      <4>1. x[p].id \in Nat
        BY BlockFields
      <4>2. x[p].id \in IdsOf(x, t) /\ x[p].id \in IdsOf(y, t)
        BY <3>1, <4>1 DEF IdsOf
      <4> QED BY <1>8, <4>2
    <3> QED BY <3>1
  <2>2. CASE i \in 1..L /\ j \in 1..L
    <3>1. z[i] = x[i] /\ z[j] = x[j]
      BY <1>1, <2>2
    <3> QED BY <1>8, <2>2, <3>1 DEF OneEach
  <2>3. CASE i \notin 1..L /\ j \notin 1..L
    <3>1. i - L \in 1..M /\ j - L \in 1..M /\ z[i] = y[i - L] /\ z[j] = y[j - L]
      BY <1>2, <2>3
    <3>2. i - L = j - L
      BY <3>1 DEF OneEach
    <3> QED BY <1>1, <3>2
  <2>4. CASE i \in 1..L /\ j \notin 1..L
    <3>1. j - L \in 1..M /\ z[i] = x[i] /\ z[j] = y[j - L]
      BY <1>1, <1>2, <2>4
    <3> QED BY <2>1, <2>4, <3>1
  <2>5. CASE i \notin 1..L /\ j \in 1..L
    <3>1. i - L \in 1..M /\ z[j] = x[j] /\ z[i] = y[i - L]
      BY <1>1, <1>2, <2>5
    <3> QED BY <2>1, <2>5, <3>1
  <2> QED BY <2>2, <2>3, <2>4, <2>5
<1> QED BY <1>1, <1>5, <1>6, <1>7, <1>8 DEF Adds, z

IdIf(b, t) == IF b.type = t THEN {b.id} ELSE {}

LEMMA OneBlock ==
    ASSUME NEW b \in BlockT, NEW t
    PROVE  /\ <<b>> \in Seq(BlockT) /\ OneEach(<<b>>, t) /\ IdsOf(<<b>>, t) = IdIf(b, t)
<1> DEFINE s == <<b>>
<1>1. s \in Seq(BlockT) /\ Len(s) = 1 /\ s[1] = b
  OBVIOUS
<1> HIDE DEF s
<1>2. OneEach(s, t)
  BY <1>1 DEF OneEach
<1>3. b.id \in Nat
  BY DEF BlockT
<1>4. IdsOf(s, t) = IdIf(b, t)
  BY <1>1, <1>3 DEF IdsOf, IdIf
<1> QED BY <1>1, <1>2, <1>4 DEF s

LEMMA AddsAppend ==
    ASSUME NEW bs \in Seq(BlockT), NEW b \in BlockT, NEW t
    PROVE  Adds(bs, Append(bs, b), t, IdIf(b, t)) /\ IdIf(b, t) \subseteq IdsOf(Append(bs, b), t)
<1>1. Append(bs, b) = bs \o <<b>>
  OBVIOUS
<1>2. <<b>> \in Seq(BlockT) /\ OneEach(<<b>>, t) /\ IdsOf(<<b>>, t) = IdIf(b, t)
  BY OneBlock
<1> DEFINE s == <<b>>
<1> HIDE DEF s
<1>3. Adds(bs, bs \o s, t, IdsOf(s, t)) /\ IdsOf(s, t) \subseteq IdsOf(bs \o s, t)
  BY <1>2, AddsConcat DEF s
<1> QED BY <1>1, <1>2, <1>3 DEF s

LEMMA GrownAt ==
    ASSUME NEW ms \in Seq(MsgT), NEW i \in 1..Len(ms), NEW m \in MsgT, NEW t, NEW C,
           Adds(ms[i].content, m.content, t, C)
    PROVE  Grown(ms, [ms EXCEPT ![i] = m], t, C)
<1> DEFINE ns == [ms EXCEPT ![i] = m]
<1>1. ns \in Seq(MsgT) /\ Len(ns) = Len(ms) /\ ns[i] = m /\ \A j \in 1..Len(ms) : j # i => ns[j] = ms[j]
  OBVIOUS
<1> HIDE DEF ns
<1>2. AllIds(ms, t) \subseteq AllIds(ns, t)
  <2>1. ASSUME NEW c \in Nat, NEW j \in 1..Len(ms), c \in IdsOf(ms[j].content, t)
        PROVE  c \in AllIds(ns, t)
    <3>1. c \in IdsOf(ns[j].content, t)
      BY <1>1, <2>1 DEF Adds
    <3> QED BY <1>1, <3>1 DEF AllIds
  <2> QED BY <2>1 DEF AllIds
<1>3. AllIds(ns, t) \subseteq AllIds(ms, t) \cup C
  <2>1. ASSUME NEW c \in Nat, NEW j \in 1..Len(ms), c \in IdsOf(ns[j].content, t)
        PROVE  c \in AllIds(ms, t) \cup C
    <3>1. c \in IdsOf(ms[j].content, t) \/ c \in C
      BY <1>1, <2>1 DEF Adds
    <3> QED BY <3>1 DEF AllIds
  <2> QED BY <1>1, <2>1 DEF AllIds
<1>4. ASSUME Once(ms, t), C \cap AllIds(ms, t) = {} PROVE Once(ns, t)
  <2>1. \A j \in 1..Len(ms) : \A c \in Nat : c \in IdsOf(ms[j].content, t) => c \notin C
    BY <1>4 DEF AllIds
  <2>2. C \cap IdsOf(ms[i].content, t) = {}
    <3>1. \A c \in IdsOf(ms[i].content, t) : c \in Nat
      BY DEF IdsOf
    <3> QED BY <2>1, <3>1
  <2>3. OneEach(m.content, t)
    BY <1>4, <2>2 DEF Once, Adds
  <2>4. \A j \in 1..Len(ns) : OneEach(ns[j].content, t)
    BY <1>1, <1>4, <2>3 DEF Once
  <2>5. ASSUME NEW j \in 1..Len(ns), NEW k \in 1..Len(ns), NEW c \in Nat,
               c \in IdsOf(ns[j].content, t), c \in IdsOf(ns[k].content, t)
        PROVE  j = k
    <3>1. c \in IdsOf(m.content, t) => c \in IdsOf(ms[i].content, t) \/ c \in C
      BY DEF Adds
    <3>2. CASE j # i /\ k # i
      BY <1>1, <1>4, <2>5, <3>2 DEF Once
    <3>3. CASE j = i /\ k # i
      BY <1>1, <1>4, <2>1, <2>5, <3>1, <3>3 DEF Once
    <3>4. CASE j # i /\ k = i
      BY <1>1, <1>4, <2>1, <2>5, <3>1, <3>4 DEF Once
    <3> QED BY <3>2, <3>3, <3>4
  <2> QED BY <2>4, <2>5 DEF Once
<1> QED BY <1>1, <1>2, <1>3, <1>4 DEF Grown, ns

LEMMA GrownAppend ==
    ASSUME NEW ms \in Seq(MsgT), NEW m \in MsgT, NEW t, OneEach(m.content, t)
    PROVE  /\ Grown(ms, Append(ms, m), t, IdsOf(m.content, t))
           /\ IdsOf(m.content, t) \subseteq AllIds(Append(ms, m), t)
<1> DEFINE ns == Append(ms, m)
           n == Len(ms) + 1
           C == IdsOf(m.content, t)
<1>1. /\ ns \in Seq(MsgT) /\ Len(ns) = n /\ n \in Nat /\ n \in 1..Len(ns) /\ ns[n] = m
      /\ \A j \in 1..Len(ms) : ns[j] = ms[j] /\ j \in 1..Len(ns) /\ j # n
      /\ \A j \in 1..Len(ns) : j # n => j \in 1..Len(ms)
  OBVIOUS
<1> HIDE DEF ns, n
<1>2. AllIds(ms, t) \subseteq AllIds(ns, t)
  BY <1>1 DEF AllIds
<1>3. C \subseteq AllIds(ns, t)
  <2>1. C \subseteq Nat
    BY DEF IdsOf
  <2> HIDE DEF C
  <2>2. \A c \in C : c \in IdsOf(ns[n].content, t)
    BY <1>1 DEF C
  <2> QED BY <1>1, <2>1, <2>2 DEF AllIds
<1>4. AllIds(ns, t) \subseteq AllIds(ms, t) \cup C
  <2>1. ASSUME NEW c \in Nat, NEW j \in 1..Len(ns), c \in IdsOf(ns[j].content, t)
        PROVE  c \in AllIds(ms, t) \cup C
    <3>1. CASE j = n
      BY <1>1, <2>1, <3>1
    <3>2. CASE j # n
      BY <1>1, <2>1, <3>2 DEF AllIds
    <3> QED BY <3>1, <3>2
  <2> QED BY <2>1 DEF AllIds
<1>5. ASSUME Once(ms, t), C \cap AllIds(ms, t) = {} PROVE Once(ns, t)
  <2>1. \A j \in 1..Len(ms) : \A c \in Nat : c \in IdsOf(ms[j].content, t) => c \notin C
    BY <1>5 DEF AllIds
  <2>2. \A j \in 1..Len(ns) : OneEach(ns[j].content, t)
    BY <1>1, <1>5 DEF Once
  <2> HIDE DEF C
  <2>3. ASSUME NEW j \in 1..Len(ns), NEW k \in 1..Len(ns), NEW c \in Nat,
               c \in IdsOf(ns[j].content, t), c \in IdsOf(ns[k].content, t)
        PROVE  j = k
    <3>1. \A l \in 1..Len(ns) : l = n => IdsOf(ns[l].content, t) = C
      BY <1>1 DEF C
    <3>2. CASE j # n /\ k # n
      BY <1>1, <1>5, <2>3, <3>2 DEF Once
    <3>3. CASE j = n /\ k # n
      BY <1>1, <2>1, <2>3, <3>1, <3>3
    <3>4. CASE j # n /\ k = n
      BY <1>1, <2>1, <2>3, <3>1, <3>4
    <3> QED BY <3>2, <3>3, <3>4
  <2> QED BY <2>2, <2>3 DEF Once
<1> QED BY <1>1, <1>2, <1>3, <1>4, <1>5 DEF Grown, ns

-----------------------------------------------------------------------------
(* From messages to what a request is made of.                             *)

\* What is selected comes in its order, each element from its own place.
SelectedFrom(row, out, s, P) ==
    /\ row \in [1..Len(out) -> 1..Len(s)]
    /\ \A p \in 1..Len(out) : row[p] \in P /\ out[p] = s[row[p]]
    /\ \A p, q \in 1..Len(out) : p < q => row[p] < row[q]
    /\ \A i \in 1..Len(s) : i \in P => \E p \in 1..Len(out) : row[p] = i

LEMMA SelectPlaces ==
    ASSUME NEW T, NEW s \in Seq(T), NEW P
    PROVE  Select(s, P) \in Seq(T) /\ \E row : SelectedFrom(row, Select(s, P), s, P)
<1> DEFINE r == [i \in DOMAIN s |-> IF i \in P THEN <<s[i]>> ELSE << >>]
           out == Select(s, P)
<1>1. out = FlattenSeq(r)
  BY DEF Select
<1>2. DOMAIN s = 1..Len(s) /\ Len(s) \in Nat /\ \A i \in 1..Len(s) : s[i] \in T
  OBVIOUS
<1>3. \A i \in 1..Len(s) : r[i] = IF i \in P THEN <<s[i]>> ELSE << >>
  BY <1>2
<1>4. r = [i \in 1..Len(s) |-> r[i]]
  BY <1>2
<1> HIDE DEF r, out
<1>5. \A i \in 1..Len(s) : r[i] \in Seq(T) /\ (i \in P => Len(r[i]) = 1 /\ r[i][1] = s[i]) /\ (i \notin P => Len(r[i]) = 0)
  <2>1. Len(<< >>) = 0 /\ << >> \in Seq(T) /\ \A x \in T : <<x>> \in Seq(T) /\ Len(<<x>>) = 1 /\ <<x>>[1] = x
    OBVIOUS
  <2> QED BY <1>2, <1>3, <2>1
<1>6. r \in Seq(Seq(T)) /\ Len(r) = Len(s)
  <2>1. r \in [1..Len(s) -> Seq(T)]
    BY <1>4, <1>5
  <2> QED BY <1>2, <2>1
<1>7. out \in Seq(T) /\ \E row, col : Places(row, col, out, r)
  BY <1>1, <1>6, FlattenPlaces
<1>8. PICK row, col : Places(row, col, out, r)
  BY <1>7
<1>9. /\ row \in [1..Len(out) -> 1..Len(s)]
      /\ \A p \in 1..Len(out) : row[p] \in 1..Len(s) /\ col[p] \in 1..Len(r[row[p]]) /\ out[p] = r[row[p]][col[p]]
      /\ \A p, q \in 1..Len(out) : p < q => row[p] < row[q] \/ (row[p] = row[q] /\ col[p] < col[q])
      /\ \A i \in 1..Len(s) : \A k \in 1..Len(r[i]) : \E p \in 1..Len(out) : row[p] = i /\ col[p] = k
  BY <1>6, <1>8 DEF Places
<1>10. \A p \in 1..Len(out) : row[p] \in P /\ col[p] = 1 /\ out[p] = s[row[p]]
  <2>1. ASSUME NEW p \in 1..Len(out) PROVE row[p] \in P /\ col[p] = 1 /\ out[p] = s[row[p]]
    <3>1. row[p] \in 1..Len(s) /\ col[p] \in 1..Len(r[row[p]]) /\ out[p] = r[row[p]][col[p]]
      BY <1>9
    <3>2. row[p] \in P
      BY <1>5, <3>1
    <3> QED BY <1>5, <3>1, <3>2
  <2> QED BY <2>1
<1>11. \A p, q \in 1..Len(out) : p < q => row[p] < row[q]
  BY SMTT(40), <1>9, <1>10
<1>12. \A i \in 1..Len(s) : i \in P => \E p \in 1..Len(out) : row[p] = i
  <2>1. ASSUME NEW i \in 1..Len(s), i \in P PROVE \E p \in 1..Len(out) : row[p] = i
    <3>1. 1 \in 1..Len(r[i])
      BY <1>5, <2>1
    <3> QED BY <1>9, <3>1
  <2> QED BY <2>1
<1>13. SelectedFrom(row, out, s, P)
  BY <1>9, <1>10, <1>11, <1>12 DEF SelectedFrom
<1> QED BY <1>7, <1>13 DEF out

LEMMA SelectedApart ==
    ASSUME NEW T, NEW out \in Seq(T), NEW row, NEW s \in Seq(T), NEW P, SelectedFrom(row, out, s, P),
           NEW p \in 1..Len(out), NEW q \in 1..Len(out), row[p] = row[q]
    PROVE  p = q
<1>1. row[p] \in Int /\ Len(out) \in Nat
  BY DEF SelectedFrom
<1>2. ~(p < q) /\ ~(q < p)
  BY <1>1 DEF SelectedFrom
<1> QED BY <1>1, <1>2

\* The ids of a list of blocks.
LEMMA IdsTyped ==
    ASSUME NEW bs \in Seq(BlockT)
    PROVE  Ids(bs) \in Seq(Nat) /\ Len(Ids(bs)) = Len(bs) /\ \A i \in 1..Len(bs) : Ids(bs)[i] = bs[i].id
<1>1. DOMAIN bs = 1..Len(bs) /\ Len(bs) \in Nat
  OBVIOUS
<1>2. Ids(bs) = [i \in 1..Len(bs) |-> bs[i].id]
  BY <1>1 DEF Ids
<1>3. \A i \in 1..Len(bs) : bs[i].id \in Nat
  BY BlockFields
<1>4. Ids(bs) \in [1..Len(bs) -> Nat]
  BY <1>2, <1>3
<1>5. \A i \in 1..Len(bs) : Ids(bs)[i] = bs[i].id
  BY <1>2
<1> QED BY <1>1, <1>4, <1>5

\* The calls of a message come from blocks of its own.
CallsFrom(d, bs) ==
    /\ d \in Said
    /\ \A n \in 1..Len(d.calls) : d.calls[n] \in IdsOf(bs, "tool_call")
    /\ OneEach(bs, "tool_call") => \A m, n \in 1..Len(d.calls) : d.calls[m] = d.calls[n] => m = n

LEMMA ToOpenAITyped ==
    ASSUME NEW role \in {"user", "assistant"}, NEW bs \in Seq(BlockT)
    PROVE  CallsFrom(ToOpenAI(role, bs), bs) /\ ToOpenAI(role, bs).role = role
<1> DEFINE P == {i \in DOMAIN bs : bs[i].type = "tool_call"}
           picked == Select(bs, P)
           d == ToOpenAI(role, bs)
           calls == Ids(picked)
           text == (\E i \in DOMAIN bs : bs[i].type = "text" /\ bs[i].said) \/ (\E i \in DOMAIN bs : bs[i].type = "hint" /\ bs[i].said)
           reasoning == \E i \in DOMAIN bs : bs[i].type = "thinking" /\ bs[i].said
           turns == {bs[i].turn : i \in DOMAIN bs}
<1>1. d = [role |-> role, text |-> text, reasoning |-> reasoning, calls |-> calls, group |-> 0, turns |-> turns]
  BY DEF ToOpenAI
<1>2. picked \in Seq(BlockT) /\ \E row : SelectedFrom(row, picked, bs, P)
  BY SelectPlaces
<1>3. PICK row : SelectedFrom(row, picked, bs, P)
  BY <1>2
<1>4. turns \subseteq Nat
  BY BlockFields
<1>5. text \in BOOLEAN /\ reasoning \in BOOLEAN
  OBVIOUS
<1>6. P = {i \in 1..Len(bs) : bs[i].type = "tool_call"}
  OBVIOUS
<1> HIDE DEF P, picked, calls, text, reasoning, turns, d
<1>7. calls \in Seq(Nat) /\ Len(calls) = Len(picked) /\ \A i \in 1..Len(picked) : calls[i] = picked[i].id
  BY <1>2, IdsTyped DEF calls
<1>8. d \in Said /\ d.role = role /\ d.calls = calls
  BY <1>1, <1>4, <1>5, <1>7 DEF Said
<1>9. \A n \in 1..Len(calls) : row[n] \in 1..Len(bs) /\ bs[row[n]].type = "tool_call" /\ calls[n] = bs[row[n]].id
  BY <1>3, <1>6, <1>7 DEF SelectedFrom
<1>10. \A n \in 1..Len(calls) : calls[n] \in IdsOf(bs, "tool_call")
  BY <1>9, BlockFields DEF IdsOf
<1>11. ASSUME OneEach(bs, "tool_call"), NEW m \in 1..Len(calls), NEW n \in 1..Len(calls), calls[m] = calls[n]
       PROVE  m = n
  <2>1. row[m] = row[n]
    BY <1>9, <1>11 DEF OneEach
  <2> QED BY <1>2, <1>3, <1>7, <2>1, SelectedApart
<1> QED BY <1>8, <1>10, <1>11 DEF CallsFrom, d

-----------------------------------------------------------------------------

\* The calls of a list of messages.
OutIds(ds) ==
    {c \in Nat : \E i \in 1..Len(ds) : ds[i].role # "tool" /\ \E n \in 1..Len(ds[i].calls) : ds[i].calls[n] = c}

DistinctAll(ds) ==
    \A i, j \in 1..Len(ds) : ds[i].role # "tool" /\ ds[j].role # "tool" =>
      \A m \in 1..Len(ds[i].calls), n \in 1..Len(ds[j].calls) :
        ds[i].calls[m] = ds[j].calls[n] => i = j /\ m = n

LEMMA OutAppend ==
    ASSUME NEW ds \in Seq(Dict), NEW d \in Dict, NEW C, DistinctAll(ds), C \cap OutIds(ds) = {},
           d.role # "tool" => /\ \A n \in 1..Len(d.calls) : d.calls[n] \in C
                              /\ \A m, n \in 1..Len(d.calls) : d.calls[m] = d.calls[n] => m = n
    PROVE  /\ Append(ds, d) \in Seq(Dict) /\ OutIds(Append(ds, d)) \subseteq OutIds(ds) \cup C
           /\ DistinctAll(Append(ds, d))
<1> DEFINE es == Append(ds, d)
           N == Len(ds)
<1>1. /\ es \in Seq(Dict) /\ N \in Nat /\ Len(es) = N + 1 /\ es[N + 1] = d
      /\ \A i \in 1..N : es[i] = ds[i]
      /\ \A i \in 1..Len(es) : i = N + 1 \/ i \in 1..N
  OBVIOUS
<1> HIDE DEF es, N
<1>2. \A i \in 1..N : ds[i].role # "tool" => \A n \in 1..Len(ds[i].calls) : ds[i].calls[n] \in OutIds(ds)
  <2>1. ASSUME NEW i \in 1..N, ds[i].role # "tool", NEW n \in 1..Len(ds[i].calls) PROVE ds[i].calls[n] \in OutIds(ds)
    <3>1. ds[i] \in Dict
      BY DEF N
    <3>2. ds[i].calls \in Seq(Nat)
      BY <2>1, <3>1, DictFields
    <3>3. ds[i].calls[n] \in Nat
      BY <3>2
    <3> QED BY <2>1, <3>3 DEF OutIds, N
  <2> QED BY <2>1
<1>3. OutIds(es) \subseteq OutIds(ds) \cup C
  <2>1. ASSUME NEW c \in Nat, NEW i \in 1..Len(es), es[i].role # "tool", NEW n \in 1..Len(es[i].calls), es[i].calls[n] = c
        PROVE  c \in OutIds(ds) \cup C
    <3>1. CASE i = N + 1
      BY <1>1, <2>1, <3>1
    <3>2. CASE i \in 1..N
      BY <1>1, <1>2, <2>1, <3>2
    <3> QED BY <1>1, <3>1, <3>2
  <2> QED BY <2>1 DEF OutIds
<1>4. ASSUME NEW i \in 1..Len(es), NEW j \in 1..Len(es), es[i].role # "tool", es[j].role # "tool",
             NEW m \in 1..Len(es[i].calls), NEW n \in 1..Len(es[j].calls), es[i].calls[m] = es[j].calls[n]
      PROVE  i = j /\ m = n
  <2>1. CASE i \in 1..N /\ j \in 1..N
    <3>1. es[i] = ds[i] /\ es[j] = ds[j]
      BY <1>1, <2>1
    <3> QED BY <1>4, <2>1, <3>1 DEF DistinctAll, N
  <2>2. CASE i = N + 1 /\ j = N + 1
    BY <1>1, <1>4, <2>2
  <2>3. CASE i = N + 1 /\ j \in 1..N
    <3>1. es[i].calls[m] \in C /\ es[j].calls[n] \in OutIds(ds)
      BY <1>1, <1>2, <1>4, <2>3
    <3> QED BY <1>4, <3>1
  <2>4. CASE i \in 1..N /\ j = N + 1
    <3>1. es[j].calls[n] \in C /\ es[i].calls[m] \in OutIds(ds)
      BY <1>1, <1>2, <1>4, <2>4
    <3> QED BY <1>4, <3>1
  <2> QED BY <1>1, <2>1, <2>2, <2>3, <2>4
<1> QED BY <1>1, <1>3, <1>4 DEF DistinctAll, es

\* An expansion so far, of blocks whose calls are C.
Expanding == [out: Seq(Dict), open: Seq(BlockT), used: Nat]
Partly(x, C) ==
    /\ x \in Expanding
    /\ OutIds(x.out) \subseteq C /\ IdsOf(x.open, "tool_call") \subseteq C
    /\ OutIds(x.out) \cap IdsOf(x.open, "tool_call") = {}
    /\ DistinctAll(x.out) /\ OneEach(x.open, "tool_call")

LEMMA EmptyLists ==
    /\ << >> \in Seq(Dict) /\ << >> \in Seq(BlockT) /\ OutIds(<< >>) = {} /\ DistinctAll(<< >>)
    /\ \A t : IdsOf(<< >>, t) = {} /\ OneEach(<< >>, t)
<1>1. Len(<< >>) = 0 /\ 1..0 = {}
  OBVIOUS
<1> QED BY <1>1 DEF OutIds, DistinctAll, IdsOf, OneEach

LEMMA FlushKeeps ==
    ASSUME NEW x, NEW C, Partly(x, C), NEW m \in MsgT
    PROVE  Partly(Flush(x, m), C) /\ Flush(x, m).open = << >>
<1>1. CASE x.open = << >>
  BY <1>1 DEF Flush
<1>2. CASE x.open # << >>
  <2> DEFINE group == IF x.used < Len(m.groups) THEN m.groups[x.used + 1] ELSE 0
             said == ToOpenAI(m.role, x.open)
             written == [said EXCEPT !.group = group]
             y == [out |-> Append(x.out, written), open |-> << >>, used |-> x.used + 1]
  <2>1. Flush(x, m) = y
    BY <1>2 DEF Flush
  <2>2. /\ x.out \in Seq(Dict) /\ x.open \in Seq(BlockT) /\ x.used \in Nat /\ m.role \in {"user", "assistant"}
        /\ m.groups \in Seq(Nat)
    BY MsgFields DEF Partly, Expanding
  <2>3. group \in Nat
    <3>1. CASE x.used < Len(m.groups)
      <4>1. x.used + 1 \in 1..Len(m.groups)
        BY <2>2, <3>1
      <4>2. m.groups[x.used + 1] \in Nat
        BY <2>2, <4>1
      <4> QED BY <3>1, <4>2
    <3>2. CASE ~(x.used < Len(m.groups))
      BY <3>2
    <3> QED BY <3>1, <3>2
  <2>4. CallsFrom(said, x.open) /\ said.role = m.role
    BY <2>2, ToOpenAITyped
  <2> HIDE DEF group, said
  <2>5. written \in Said /\ written.calls = said.calls /\ written.role = m.role
    BY <2>3, <2>4 DEF CallsFrom, Said
  <2> DEFINE I == IdsOf(x.open, "tool_call")
             out == Append(x.out, written)
  <2>6. /\ \A n \in 1..Len(written.calls) : written.calls[n] \in I
        /\ \A k, n \in 1..Len(written.calls) : written.calls[k] = written.calls[n] => k = n
    BY <2>4, <2>5 DEF CallsFrom, Partly
  <2>7. written \in Dict /\ DistinctAll(x.out) /\ I \cap OutIds(x.out) = {} /\ I \subseteq C /\ OutIds(x.out) \subseteq C
    BY <2>5 DEF Partly, Dict
  <2> HIDE DEF written, I
  <2>8. out \in Seq(Dict) /\ OutIds(out) \subseteq OutIds(x.out) \cup I /\ DistinctAll(out)
    BY <2>2, <2>6, <2>7, OutAppend
  <2> HIDE DEF out
  <2>9. y.out = out /\ y.open = << >> /\ y \in Expanding
    BY <2>2, <2>8, EmptyLists DEF Expanding, out
  <2> HIDE DEF y
  <2>10. Partly(y, C)
    BY <2>7, <2>8, <2>9, EmptyLists DEF Partly
  <2> QED BY <2>1, <2>9, <2>10
<1> QED BY <1>1, <1>2

Written(x, d) == [x EXCEPT !.out = Append(@, d)]

\* A message without calls, or with those of a block that is not among C.
LEMMA WrittenKeeps ==
    ASSUME NEW x, NEW C, Partly(x, C), x.open = << >>, NEW d \in Dict, d.role # "tool" => Len(d.calls) = 0
    PROVE  Partly(Written(x, d), C)
<1> DEFINE out == Append(x.out, d)
<1>1. x.out \in Seq(Dict) /\ DistinctAll(x.out) /\ OutIds(x.out) \subseteq C
  BY DEF Partly, Expanding
<1> DEFINE N == {}
<1>5. N \cap OutIds(x.out) = {}
  OBVIOUS
<1>6. d.role # "tool" => /\ \A n \in 1..Len(d.calls) : d.calls[n] \in N
                         /\ \A m, n \in 1..Len(d.calls) : d.calls[m] = d.calls[n] => m = n
  <2>1. d.role # "tool" => 1..Len(d.calls) = {}
    OBVIOUS
  <2> QED BY <2>1
<1> HIDE DEF N
<1>2. out \in Seq(Dict) /\ OutIds(out) \subseteq OutIds(x.out) \cup N /\ DistinctAll(out)
  BY <1>1, <1>5, <1>6, OutAppend
<1> HIDE DEF out
<1>3. /\ [x EXCEPT !.out = out] \in Expanding /\ [x EXCEPT !.out = out].out = out
      /\ [x EXCEPT !.out = out].open = x.open
  BY <1>2 DEF Partly, Expanding
<1>4. Written(x, d) = [x EXCEPT !.out = out]
  BY DEF Written, out
<1> QED BY <1>1, <1>2, <1>3, <1>4, EmptyLists DEF Partly, N

Take(x, b, m) ==
    CASE b.type = "hint" -> Written(Flush(x, m), ToOpenAI("user", <<b>>))
      [] b.type = "tool_result" -> Written(Flush(x, m), ToolMessage(b))
      [] OTHER -> [x EXCEPT !.open = Append(@, b)]

LEMMA TakeKeeps ==
    ASSUME NEW x, NEW C, Partly(x, C), NEW m \in MsgT, NEW b \in BlockT, b.type = "tool_call" => b.id \notin C
    PROVE  Partly(Take(x, b, m), C \cup IdIf(b, "tool_call"))
<1>0. b.type \in BlockTypes /\ b.id \in Nat /\ b.said \in BOOLEAN
  BY DEF BlockT
<1>1. CASE b.type = "hint"
  <2> DEFINE d == ToOpenAI("user", <<b>>)
  <2>1. <<b>> \in Seq(BlockT) /\ IdsOf(<<b>>, "tool_call") = {}
    BY <1>1, OneBlock DEF IdIf
  <2>2. CallsFrom(d, <<b>>)
    BY <2>1, ToOpenAITyped
  <2> HIDE DEF d
  <2>3. d \in Said /\ \A n \in 1..Len(d.calls) : FALSE
    BY <2>1, <2>2 DEF CallsFrom
  <2>4. d.calls \in Seq(Nat) /\ d \in Dict
    BY <2>3 DEF Said, Dict
  <2>5. Len(d.calls) = 0
    <3> DEFINE l == d.calls
    <3>1. Len(l) \in Nat /\ ~(Len(l) >= 1)
      BY <2>3, <2>4
    <3> QED BY <3>1
  <2>6. Partly(Written(Flush(x, m), d), C)
    BY <2>4, <2>5, FlushKeeps, WrittenKeeps
  <2>7. Take(x, b, m) = Written(Flush(x, m), d) /\ IdIf(b, "tool_call") = {}
    BY <1>1 DEF Take, d, IdIf
  <2> QED BY <2>6, <2>7
<1>2. CASE b.type = "tool_result"
  <2> DEFINE d == ToolMessage(b)
  <2>1. d \in Dict /\ d.role = "tool"
    BY <1>0 DEF ToolMessage, Dict
  <2> HIDE DEF d
  <2>2. Partly(Written(Flush(x, m), d), C)
    BY <2>1, FlushKeeps, WrittenKeeps
  <2>3. Take(x, b, m) = Written(Flush(x, m), d) /\ IdIf(b, "tool_call") = {}
    BY <1>2 DEF Take, d, IdIf
  <2> QED BY <2>2, <2>3
<1>3. CASE b.type \notin {"hint", "tool_result"}
  <2> DEFINE open == Append(x.open, b)
             D == IdIf(b, "tool_call")
             I == IdsOf(x.open, "tool_call")
             J == IdsOf(open, "tool_call")
  <2>1. x \in Expanding /\ x.open \in Seq(BlockT)
    BY DEF Partly, Expanding
  <2>2. Adds(x.open, open, "tool_call", D)
    BY <2>1, AddsAppend
  <2>3. D \cap C = {}
    BY DEF IdIf
  <2> HIDE DEF open, D
  <2>4. open \in Seq(BlockT) /\ J \subseteq I \cup D /\ (OneEach(x.open, "tool_call") /\ D \cap I = {} => OneEach(open, "tool_call"))
    BY <2>2 DEF Adds
  <2>5. OneEach(open, "tool_call") /\ J \subseteq C \cup D /\ OutIds(x.out) \cap J = {} /\ OutIds(x.out) \subseteq C \cup D /\ DistinctAll(x.out)
    BY <2>3, <2>4 DEF Partly
  <2> HIDE DEF I, J
  <2>6. /\ [x EXCEPT !.open = open] \in Expanding /\ [x EXCEPT !.open = open].open = open
        /\ [x EXCEPT !.open = open].out = x.out
    BY <2>1, <2>4 DEF Expanding
  <2>7. Take(x, b, m) = [x EXCEPT !.open = open]
    BY <1>3 DEF Take, open
  <2> DEFINE y == [x EXCEPT !.open = open]
  <2> HIDE DEF y
  <2>8. Partly(y, C \cup D)
    BY <2>5, <2>6 DEF Partly, J, y
  <2> QED BY <2>7, <2>8 DEF D, y
<1> QED BY <1>0, <1>1, <1>2, <1>3

Start == [out |-> << >>, open |-> << >>, used |-> 0]
Taking(f, m, N) == f = [n \in 0..N |-> IF n = 0 THEN Start ELSE Take(f[n - 1], m.content[n], m)]

LEMMA TakingExists == \A m : \A N \in Nat : \E f : Taking(f, m, N)
<1> SUFFICES ASSUME NEW m PROVE \A N \in Nat : \E f : Taking(f, m, N)
  OBVIOUS
<1> DEFINE S == {N \in Nat : \E f : Taking(f, m, N)}
<1>1. 0 \in S
  <2> DEFINE f == [n \in 0..0 |-> Start]
  <2>1. f[0] = Start /\ \A n \in 0..0 : n = 0
    OBVIOUS
  <2>2. f = [n \in 0..0 |-> IF n = 0 THEN Start ELSE Take(f[n - 1], m.content[n], m)]
    BY <2>1
  <2> HIDE DEF f
  <2>3. Taking(f, m, 0)
    BY <2>2 DEF Taking
  <2> QED BY <2>3
<1>2. ASSUME NEW N \in Nat, N \in S PROVE N + 1 \in S
  <2>1. PICK f : Taking(f, m, N)
    BY <1>2
  <2> DEFINE last == Take(f[N], m.content[N + 1], m)
             h == [n \in 0..(N + 1) |-> IF n = N + 1 THEN last ELSE f[n]]
  <2> HIDE DEF last
  <2>2. \A n \in 0..N : h[n] = f[n] /\ n # N + 1
    OBVIOUS
  <2>3. h[N + 1] = last /\ N + 1 # 0 /\ (N + 1) - 1 = N
    OBVIOUS
  <2>4. h = [n \in 0..(N + 1) |-> h[n]]
    OBVIOUS
  <2> HIDE DEF h
  <2>5. ASSUME NEW n \in 0..(N + 1)
        PROVE  h[n] = IF n = 0 THEN Start ELSE Take(h[n - 1], m.content[n], m)
    <3>1. CASE n = N + 1
      <4>1. h[n - 1] = f[N]
        BY <2>2, <2>3, <3>1
      <4> QED BY <2>3, <3>1, <4>1 DEF last
    <3>2. CASE n # N + 1
      <4>1. n \in 0..N /\ (n = 0 \/ n - 1 \in 0..N)
        BY <3>2
      <4>2. f[n] = IF n = 0 THEN Start ELSE Take(f[n - 1], m.content[n], m)
        BY <2>1, <4>1 DEF Taking
      <4>3. h[n] = f[n] /\ (n = 0 \/ h[n - 1] = f[n - 1])
        BY <2>2, <4>1
      <4> QED BY <4>2, <4>3
    <3> QED BY <3>1, <3>2
  <2>6. Taking(h, m, N + 1)
    BY <2>4, <2>5 DEF Taking
  <2> QED BY <2>6
<1> HIDE DEF S
<1>3. Nat \subseteq S
  BY <1>1, <1>2, Induction
<1> QED BY <1>3 DEF S

LEMMA TakingSteps ==
    ASSUME NEW m, NEW N \in Nat, NEW f, Taking(f, m, N)
    PROVE  f[0] = Start /\ \A n \in 0..(N - 1) : f[n + 1] = Take(f[n], m.content[n + 1], m)
<1>1. ASSUME NEW n \in 0..N PROVE f[n] = IF n = 0 THEN Start ELSE Take(f[n - 1], m.content[n], m)
  BY DEF Taking
<1>2. ASSUME NEW n \in 0..(N - 1) PROVE f[n + 1] = Take(f[n], m.content[n + 1], m)
  <2>1. n + 1 \in 0..N /\ n + 1 # 0 /\ (n + 1) - 1 = n
    OBVIOUS
  <2> QED BY <1>1, <2>1
<1>3. 0 \in 0..N
  OBVIOUS
<1> QED BY <1>1, <1>2, <1>3

LEMMA ExpandDef ==
    ASSUME NEW m \in MsgT
    PROVE  \E f : /\ Taking(f, m, Len(m.content))
                  /\ Expand(m) = LET whole == Flush(f[Len(m.content)], m).out
                                 IN  IF whole = << >> THEN <<ToOpenAI(m.role, << >>)>> ELSE whole
<1> DEFINE f == CHOOSE f : Taking(f, m, Len(m.content))
<1>1. Taking(f, m, Len(m.content))
  <2>1. Len(m.content) \in Nat
    BY MsgFields
  <2> QED BY <2>1, TakingExists
<1>2. Expand(m) = LET whole == Flush(f[Len(m.content)], m).out
                  IN  IF whole = << >> THEN <<ToOpenAI(m.role, << >>)>> ELSE whole
  BY DEF Expand, Taking, Take, Start, Written
<1> QED BY <1>1, <1>2

\* _msg_to_dicts gives every call of a message to one of its messages.
LEMMA ExpandKeepsCalls ==
    ASSUME NEW m \in MsgT, OneEach(m.content, "tool_call")
    PROVE  /\ Expand(m) \in Seq(Dict) /\ DistinctAll(Expand(m))
           /\ OutIds(Expand(m)) \subseteq IdsOf(m.content, "tool_call")
<1> DEFINE bs == m.content
           N == Len(bs)
           C(n) == {c \in Nat : \E i \in 1..n : bs[i].type = "tool_call" /\ bs[i].id = c}
<1>1. bs \in Seq(BlockT) /\ N \in Nat /\ m.role \in {"user", "assistant"}
  BY MsgFields
<1>2. PICK f : /\ Taking(f, m, N)
               /\ Expand(m) = LET whole == Flush(f[N], m).out
                              IN  IF whole = << >> THEN <<ToOpenAI(m.role, << >>)>> ELSE whole
  BY ExpandDef
<1>3. f[0] = Start /\ \A n \in 0..(N - 1) : f[n + 1] = Take(f[n], bs[n + 1], m)
  BY <1>1, <1>2, TakingSteps
<1> HIDE DEF N
<1> DEFINE S == {n \in Nat : n <= N => Partly(f[n], C(n))}
<1>4. 0 \in S
  <2>1. Start \in Expanding /\ Start.out = << >> /\ Start.open = << >>
    BY EmptyLists DEF Start, Expanding
  <2>2. Partly(Start, C(0))
    BY <2>1, EmptyLists DEF Partly
  <2> QED BY <1>3, <2>2
<1>5. ASSUME NEW n \in Nat, n \in S PROVE n + 1 \in S
  <2> SUFFICES ASSUME n + 1 <= N PROVE Partly(f[n + 1], C(n + 1))
    OBVIOUS
  <2> DEFINE b == bs[n + 1]
  <2>1. n \in 0..(N - 1) /\ n <= N /\ n + 1 \in 1..Len(bs)
    BY <1>1 DEF N
  <2>2. b \in BlockT /\ b.id \in Nat
    BY <1>1, <2>1, BlockFields
  <2>3. b.type = "tool_call" => b.id \notin C(n)
    <3>1. ASSUME NEW i \in 1..n, b.type = "tool_call", bs[i].type = "tool_call", bs[i].id = b.id PROVE FALSE
      <4>1. i \in 1..Len(bs) /\ i # n + 1
        BY <1>1, <2>1
      <4> QED BY <2>1, <3>1, <4>1 DEF OneEach
    <3> QED BY <3>1
  <2>4. C(n + 1) = C(n) \cup IdIf(b, "tool_call")
    <3>1. 1..(n + 1) = 1..n \cup {n + 1}
      OBVIOUS
    <3> QED BY <2>2, <3>1 DEF IdIf
  <2>5. f[n + 1] = Take(f[n], b, m) /\ Partly(f[n], C(n))
    BY <1>3, <1>5, <2>1
  <2> HIDE DEF b, C
  <2> QED BY <2>2, <2>3, <2>4, <2>5, TakeKeeps
<1> HIDE DEF S
<1>6. Nat \subseteq S
  BY <1>4, <1>5, Induction
<1>7. Partly(f[N], C(N)) /\ C(N) = IdsOf(bs, "tool_call")
  <2>1. N \in S /\ N <= N
    BY <1>1, <1>6 DEF N
  <2>2. C(N) = IdsOf(bs, "tool_call")
    BY DEF IdsOf, N
  <2> QED BY <2>1, <2>2 DEF S
<1> HIDE DEF C
<1> DEFINE whole == Flush(f[N], m).out
           only == ToOpenAI(m.role, << >>)
<1>8. /\ whole \in Seq(Dict) /\ DistinctAll(whole) /\ OutIds(whole) \subseteq IdsOf(bs, "tool_call")
  <2>1. Partly(Flush(f[N], m), C(N))
    BY <1>7, FlushKeeps
  <2> QED BY <1>7, <2>1 DEF Partly, Expanding
<1>9. /\ <<only>> \in Seq(Dict) /\ DistinctAll(<<only>>) /\ OutIds(<<only>>) = {}
  <2>1. CallsFrom(only, << >>)
    BY <1>1, EmptyLists, ToOpenAITyped
  <2>2. only \in Dict /\ \A n \in 1..Len(only.calls) : FALSE
    BY <2>1, EmptyLists DEF CallsFrom, Dict
  <2> HIDE DEF only
  <2> DEFINE s == <<only>>
  <2>3. s \in Seq(Dict) /\ Len(s) = 1 /\ s[1] = only
    BY <2>2
  <2> HIDE DEF s
  <2>4. \A i \in 1..Len(s) : s[i] = only
    BY <2>3
  <2>5. OutIds(s) = {} /\ DistinctAll(s)
    BY <2>2, <2>4 DEF OutIds, DistinctAll
  <2> QED BY <2>3, <2>5 DEF s
<1>10. Expand(m) = IF whole = << >> THEN <<only>> ELSE whole
  BY <1>2
<1> HIDE DEF whole, only
<1> QED BY <1>8, <1>9, <1>10

\* get_messages
LEMMA MessagesKeepCalls ==
    ASSUME NEW ms \in Seq(MsgT), Once(ms, "tool_call")
    PROVE  GetMessages(ms) \in Seq(Dict) /\ DistinctAll(GetMessages(ms))
<1> DEFINE s == [i \in DOMAIN ms |-> Expand(ms[i])]
           ds == GetMessages(ms)
<1>1. ds = FlattenSeq(s)
  BY DEF GetMessages
<1>2. DOMAIN ms = 1..Len(ms) /\ Len(ms) \in Nat /\ \A i \in 1..Len(ms) : ms[i] \in MsgT
  OBVIOUS
<1>3. \A i \in 1..Len(ms) : s[i] = Expand(ms[i])
  BY <1>2
<1>4. s = [i \in 1..Len(ms) |-> s[i]]
  BY <1>2
<1> HIDE DEF s, ds
<1>5. ASSUME NEW i \in 1..Len(ms)
      PROVE  s[i] \in Seq(Dict) /\ DistinctAll(s[i]) /\ OutIds(s[i]) \subseteq IdsOf(ms[i].content, "tool_call")
  <2>1. OneEach(ms[i].content, "tool_call")
    BY DEF Once
  <2> QED BY <1>2, <1>3, <2>1, ExpandKeepsCalls
<1>6. s \in Seq(Seq(Dict)) /\ Len(s) = Len(ms)
  <2>1. s \in [1..Len(ms) -> Seq(Dict)]
    BY <1>4, <1>5
  <2> QED BY <1>2, <2>1
<1>7. ds \in Seq(Dict) /\ \E row, col : Places(row, col, ds, s)
  BY <1>1, <1>6, FlattenPlaces
<1>8. PICK row, col : Places(row, col, ds, s)
  BY <1>7
<1>9. /\ \A p \in 1..Len(ds) : row[p] \in 1..Len(ms) /\ col[p] \in 1..Len(s[row[p]]) /\ ds[p] = s[row[p]][col[p]]
      /\ \A p, q \in 1..Len(ds) : p < q => row[p] < row[q] \/ (row[p] = row[q] /\ col[p] < col[q])
  BY <1>6, <1>8 DEF Places
<1>10. ASSUME NEW p \in 1..Len(ds), NEW q \in 1..Len(ds), ds[p].role # "tool", ds[q].role # "tool",
              NEW m \in 1..Len(ds[p].calls), NEW n \in 1..Len(ds[q].calls), ds[p].calls[m] = ds[q].calls[n]
       PROVE  p = q /\ m = n
  <2> DEFINE i == row[p]
             j == row[q]
             c == ds[p].calls[m]
  <2>1. /\ i \in 1..Len(ms) /\ col[p] \in 1..Len(s[i]) /\ ds[p] = s[i][col[p]]
        /\ j \in 1..Len(ms) /\ col[q] \in 1..Len(s[j]) /\ ds[q] = s[j][col[q]]
    BY <1>9
  <2>2. c \in Nat
    <3>1. ds[p] \in Dict
      BY <1>7
    <3>2. ds[p].calls \in Seq(Nat)
      BY <1>10, <3>1, DictFields
    <3> QED BY <3>2
  <2>3. c \in OutIds(s[i]) /\ c \in OutIds(s[j])
    BY <1>10, <2>1, <2>2 DEF OutIds
  <2>4. i = j
    <3>1. c \in IdsOf(ms[i].content, "tool_call") /\ c \in IdsOf(ms[j].content, "tool_call")
      BY <1>5, <2>1, <2>3
    <3> HIDE DEF c, i, j
    <3> QED BY <2>1, <2>2, <3>1 DEF Once
  <2>5. col[p] = col[q] /\ m = n
    <3> DEFINE k == col[p]
               l == col[q]
               x == s[i]
    <3>1. /\ k \in 1..Len(x) /\ l \in 1..Len(x) /\ ds[p] = x[k] /\ ds[q] = x[l] /\ DistinctAll(x)
      BY <1>5, <2>1, <2>4
    <3> HIDE DEF k, l, x
    <3>2. /\ x[k].role # "tool" /\ x[l].role # "tool" /\ m \in 1..Len(x[k].calls) /\ n \in 1..Len(x[l].calls)
          /\ x[k].calls[m] = x[l].calls[n]
      BY <1>10, <3>1
    <3>3. k = l /\ m = n
      BY <3>1, <3>2 DEF DistinctAll
    <3> QED BY <3>3 DEF k, l
  <2>6. p = q
    <3>1. ~(p < q) /\ ~(q < p)
      <4>1. row[p] = row[q] /\ row[p] \in Int /\ col[p] = col[q] /\ col[p] \in Int
        BY <2>1, <2>4, <2>5
      <4> QED BY SMTT(40), <1>9, <4>1
    <3> QED BY <1>7, <3>1
  <2> QED BY <2>5, <2>6
<1>11. DistinctAll(ds)
  BY <1>10 DEF DistinctAll
<1> QED BY <1>7, <1>11 DEF ds

LEMMA NormalizeKeepsCalls ==
    ASSUME NEW ds \in Seq(Dict), DistinctAll(ds)
    PROVE  DistinctCalls(Normalize(ds))
<1> DEFINE out == Normalize(ds)
<1>1. out \in Seq(Dict) /\ \E row : KeptFrom(row, out, ds)
  BY NormalizePlaces
<1> HIDE DEF out
<1>2. PICK row : KeptFrom(row, out, ds)
  BY <1>1
<1>3. /\ \A p \in 1..Len(out) : row[p] \in 1..Len(ds) /\ out[p] = Strip(ds, row[p])
      /\ \A p, q \in 1..Len(out) : p < q => row[p] < row[q]
  BY <1>2 DEF KeptFrom
<1>4. ASSUME NEW p \in 1..Len(out), out[p].role = "assistant", NEW m \in 1..Len(out[p].calls)
      PROVE  ds[row[p]].role = "assistant" /\ out[p].calls = ds[row[p]].calls
  <2>1. /\ row[p] \in 1..Len(ds) /\ out[p].role = ds[row[p]].role
        /\ ds[row[p]].role = "assistant" =>
             out[p].calls = IF row[p] \in PairedIn(ds) THEN ds[row[p]].calls ELSE << >>
    BY <1>3, StripTyped
  <2>2. out[p].calls = << >> => FALSE
    <3>1. out[p].calls = << >> => Len(out[p].calls) = 0 /\ 1..0 = {}
      BY EmptyLists
    <3> QED BY <1>4, <3>1
  <2> QED BY <1>4, <2>1, <2>2
<1>5. ASSUME NEW p \in 1..Len(out), NEW q \in 1..Len(out), out[p].role = "assistant", out[q].role = "assistant",
             NEW m \in 1..Len(out[p].calls), NEW n \in 1..Len(out[q].calls), out[p].calls[m] = out[q].calls[n]
      PROVE  p = q /\ m = n
  <2> DEFINE i == row[p]
             j == row[q]
  <2>1. /\ i \in 1..Len(ds) /\ j \in 1..Len(ds) /\ ds[i].role = "assistant" /\ ds[j].role = "assistant"
        /\ out[p].calls = ds[i].calls /\ out[q].calls = ds[j].calls
    BY <1>3, <1>4, <1>5
  <2> HIDE DEF i, j
  <2>2. m \in 1..Len(ds[i].calls) /\ n \in 1..Len(ds[j].calls) /\ ds[i].calls[m] = ds[j].calls[n]
    BY <1>5, <2>1
  <2>3. i = j /\ m = n
    BY SMTT(40), <2>1, <2>2 DEF DistinctAll
  <2>4. p = q
    <3>1. row[p] = row[q] /\ row[p] \in Int
      BY <2>1, <2>3 DEF i, j
    <3>2. ~(p < q) /\ ~(q < p)
      BY <1>3, <3>1
    <3> QED BY <1>1, <3>2
  <2> QED BY <2>3, <2>4
<1>6. DistinctCalls(out)
  BY <1>5 DEF DistinctCalls
<1> QED BY <1>6 DEF out

\* A request is well formed whatever the messages are, as long as no two calls
\* have one id.
LEMMA RequestPairs ==
    ASSUME NEW ms \in Seq(MsgT), Once(ms, "tool_call")
    PROVE  ChatWellFormed(Request(ms)) /\ ResponsesWellFormed(ResponsesInput(Request(ms)))
<1> DEFINE ds == GetMessages(ms)
           out == Normalize(ds)
<1>1. ds \in Seq(Dict) /\ DistinctAll(ds)
  BY MessagesKeepCalls
<1> HIDE DEF ds
<1>2. out \in Seq(Dict) /\ WellPaired(out) /\ DistinctCalls(out)
  BY <1>1, NormalizePlaces, NormalizePairs, NormalizeKeepsCalls
<1>3. Request(ms) = out
  BY DEF Request, ds
<1> HIDE DEF out
<1> QED BY <1>2, <1>3, PairedIsWellFormed, PairedIsWellLaid

-----------------------------------------------------------------------------
(* The writes.                                                             *)

LEMMA MinIn == ASSUME NEW S, S \subseteq Nat, S # {} PROVE Min(S) \in S
<1>1. PICK x \in S : \A y \in S : ~ (<<y, x>> \in Less)
  BY LessWellFounded, WFMin
<1>2. ASSUME NEW y \in S PROVE x <= y
  <2>1. x \in Nat /\ y \in Nat
    OBVIOUS
  <2>2. ~(y < x)
    BY <1>1, <2>1 DEF Less
  <2> QED BY <2>1, <2>2
<1> QED BY <1>2 DEF Min

LEMMA MaxIn == ASSUME NEW N \in Nat, NEW S, S \subseteq 1..N, S # {} PROVE Max(S) \in S
<1> DEFINE R == {N - x : x \in S}
<1>1. R \subseteq Nat /\ R # {}
  OBVIOUS
<1> HIDE DEF R
<1>2. PICK r \in R : \A y \in R : ~ (<<y, r>> \in Less)
  BY <1>1, LessWellFounded, WFMin
<1>3. PICK x \in S : r = N - x
  BY <1>2 DEF R
<1>4. ASSUME NEW y \in S PROVE x >= y
  <2>1. N - y \in R /\ N - y \in Nat /\ r \in Nat /\ y \in Nat /\ x \in Nat
    BY <1>1, <1>2 DEF R
  <2>2. ~(N - y < r)
    BY <1>2, <2>1 DEF Less
  <2> QED BY <1>3, <2>1, <2>2
<1> QED BY <1>4 DEF Max

LEMMA StateKept ==
    ASSUME NEW m \in MsgT, NEW at, NEW state \in BlockStates, NEW t
    PROVE  SetState(m, at, state) \in MsgT /\ Adds(m.content, SetState(m, at, state).content, t, {})
<1> DEFINE bs == m.content
           cs == [i \in DOMAIN bs |-> IF i \in at THEN [bs[i] EXCEPT !.state = state] ELSE bs[i]]
<1>1. bs \in Seq(BlockT) /\ DOMAIN bs = 1..Len(bs) /\ Len(bs) \in Nat
  BY MsgFields
<1>2. \A b \in BlockT : LET c == [b EXCEPT !.state = state] IN c \in BlockT /\ c.type = b.type /\ c.id = b.id
  BY DEF BlockT
<1>3. \A i \in 1..Len(bs) : cs[i] \in BlockT /\ cs[i].type = bs[i].type /\ cs[i].id = bs[i].id
  <2>1. \A i \in 1..Len(bs) : cs[i] = IF i \in at THEN [bs[i] EXCEPT !.state = state] ELSE bs[i]
    BY <1>1
  <2>2. \A i \in 1..Len(bs) : bs[i] \in BlockT
    BY <1>1
  <2> HIDE DEF cs
  <2> QED BY <1>2, <2>1, <2>2
<1>4. cs = [i \in 1..Len(bs) |-> cs[i]]
  BY <1>1
<1>5. SetState(m, at, state) = [m EXCEPT !.content = cs]
  BY DEF SetState
<1> HIDE DEF cs, bs
<1>6. cs \in [1..Len(bs) -> BlockT]
  BY <1>3, <1>4
<1>7. cs \in Seq(BlockT) /\ Len(cs) = Len(bs)
  BY <1>1, <1>6
<1>8. Adds(bs, cs, t, {})
  BY <1>1, <1>3, <1>7, AddsSame
<1> QED BY <1>5, <1>7, <1>8, MsgFields DEF bs

LEMMA SayKept ==
    ASSUME NEW m \in MsgT, NEW at, NEW t
    PROVE  Say(m, at) \in MsgT /\ Adds(m.content, Say(m, at).content, t, {})
<1> DEFINE bs == m.content
           cs == [i \in DOMAIN bs |-> IF i \in at THEN [bs[i] EXCEPT !.said = TRUE] ELSE bs[i]]
<1>1. bs \in Seq(BlockT) /\ DOMAIN bs = 1..Len(bs) /\ Len(bs) \in Nat
  BY MsgFields
<1>2. \A b \in BlockT : LET c == [b EXCEPT !.said = TRUE] IN c \in BlockT /\ c.type = b.type /\ c.id = b.id
  BY DEF BlockT
<1>3. \A i \in 1..Len(bs) : cs[i] \in BlockT /\ cs[i].type = bs[i].type /\ cs[i].id = bs[i].id
  <2>1. \A i \in 1..Len(bs) : cs[i] = IF i \in at THEN [bs[i] EXCEPT !.said = TRUE] ELSE bs[i]
    BY <1>1
  <2>2. \A i \in 1..Len(bs) : bs[i] \in BlockT
    BY <1>1
  <2> HIDE DEF cs
  <2> QED BY <1>2, <2>1, <2>2
<1>4. cs = [i \in 1..Len(bs) |-> cs[i]]
  BY <1>1
<1>5. Say(m, at) = [m EXCEPT !.content = cs]
  BY DEF Say
<1> HIDE DEF cs, bs
<1>6. cs \in [1..Len(bs) -> BlockT]
  BY <1>3, <1>4
<1>7. cs \in Seq(BlockT) /\ Len(cs) = Len(bs)
  BY <1>1, <1>6
<1>8. Adds(bs, cs, t, {})
  BY <1>1, <1>3, <1>7, AddsSame
<1> QED BY <1>5, <1>7, <1>8, MsgFields DEF bs

LEMMA PutKept ==
    ASSUME NEW m \in MsgT, NEW b \in BlockT, NEW t
    PROVE  Put(m, b) \in MsgT /\ Adds(m.content, Put(m, b).content, t, IdIf(b, t))
<1> DEFINE bs == m.content
           cs == Append(bs, b)
<1>1. bs \in Seq(BlockT)
  BY MsgFields
<1>2. Put(m, b) = [m EXCEPT !.content = cs]
  BY DEF Put
<1>3. Adds(bs, cs, t, IdIf(b, t))
  BY <1>1, AddsAppend
<1> HIDE DEF cs
<1>4. cs \in Seq(BlockT)
  BY <1>3 DEF Adds
<1> QED BY <1>2, <1>3, <1>4, MsgFields DEF bs

LEMMA AddsThen ==
    ASSUME NEW a, NEW b, NEW c, NEW t, NEW C, NEW D, Adds(a, b, t, C), Adds(b, c, t, D), C \cap D = {}
    PROVE  Adds(a, c, t, C \cup D)
BY DEF Adds

\* The events of a run.
EventT ==
         [type: {"MODEL_CALL_END"}, turn: Nat, items: BOOLEAN]
    \cup [type: {"BLOCK_START", "BLOCK_DELTA"}, block: {b \in BlockT : b.type \in {"text", "thinking"}}]
    \cup [type: {"HINT_BLOCK"}]
    \cup [type: {"TOOL_CALL_START"}, id: Nat, turn: Nat]
    \cup [type: {"TOOL_RESULT_START", "TOOL_RESULT_TEXT_DELTA", "REQUIRE_USER_CONFIRM"}, id: Nat]
    \cup [type: {"TOOL_RESULT_END"}, id: Nat, state: BlockStates]
    \cup [type: {"USER_CONFIRM_RESULT"}, id: Nat, approved: BOOLEAN]

\* The id an event brings to the calls, or to the results.
New(e, t) ==
    IF \/ e.type = "TOOL_CALL_START" /\ t = "tool_call"
       \/ e.type = "TOOL_RESULT_START" /\ t = "tool_result"
      THEN {e.id} ELSE {}

IdTypes == {"tool_call", "tool_result"}

LEMMA EventKept ==
    ASSUME NEW m \in MsgT, NEW e \in EventT, NEW t \in IdTypes
    PROVE  AppendEvent(m, e) \in MsgT /\ Adds(m.content, AppendEvent(m, e).content, t, New(e, t))
<1>1. CASE e.type = "MODEL_CALL_END"
  <2>1. e.turn \in Nat /\ e.items \in BOOLEAN
    BY <1>1 DEF EventT
  <2>2. AppendEvent(m, e) = CallEnded(m, e) /\ New(e, t) = {}
    BY <1>1 DEF AppendEvent, New
  <2>3. m.groups \in Seq(Nat) /\ m.content \in Seq(BlockT)
    BY MsgFields
  <2> DEFINE gs == Append(m.groups, e.turn)
  <2>4. gs \in Seq(Nat)
    BY <2>1, <2>3
  <2> HIDE DEF gs
  <2>5. [m EXCEPT !.groups = gs] \in MsgT /\ [m EXCEPT !.groups = gs].content = m.content
    BY <2>4 DEF MsgT
  <2>6. CallEnded(m, e) \in MsgT /\ CallEnded(m, e).content = m.content
    BY <2>5 DEF CallEnded, gs
  <2> QED BY <2>2, <2>3, <2>6, AddsNothing
<1>2. CASE e.type \in {"BLOCK_START", "BLOCK_DELTA"}
  <2>1. e.block \in BlockT /\ e.block.type \in {"text", "thinking"}
    BY <1>2 DEF EventT
  <2>2. AppendEvent(m, e) = TextEvent(m, e) /\ New(e, t) = {}
    BY <1>2 DEF AppendEvent, New
  <2> DEFINE b == [e.block EXCEPT !.said = FALSE]
  <2>3. b \in BlockT /\ IdIf(b, t) = {}
    BY <2>1 DEF BlockT, IdIf, IdTypes
  <2> HIDE DEF b
  <2>4. Put(m, b) \in MsgT /\ Adds(m.content, Put(m, b).content, t, {})
    BY <2>3, PutKept
  <2> DEFINE at == FindBlock(m, e.block.type, e.block.id)
  <2> HIDE DEF at
  <2>5. Say(m, at) \in MsgT /\ Adds(m.content, Say(m, at).content, t, {})
    BY SayKept
  <2>6. TextEvent(m, e) = Put(m, b) \/ TextEvent(m, e) = Say(m, at)
    BY DEF TextEvent, b, at
  <2> QED BY <2>2, <2>4, <2>5, <2>6
<1>3. CASE e.type = "HINT_BLOCK"
  <2>1. Hint \in BlockT /\ IdIf(Hint, t) = {}
    BY DEF Hint, Block, BlockT, BlockTypes, BlockStates, IdIf, IdTypes
  <2>2. AppendEvent(m, e) = Put(m, Hint) /\ New(e, t) = {}
    BY <1>3 DEF AppendEvent, New
  <2> QED BY <2>1, <2>2, PutKept
<1>4. CASE e.type = "TOOL_CALL_START"
  <2> DEFINE b == Call(e.id, e.turn)
  <2>1. e.id \in Nat /\ e.turn \in Nat
    BY <1>4 DEF EventT
  <2>2. b \in BlockT /\ IdIf(b, t) = New(e, t)
    BY <1>4, <2>1 DEF Call, Block, BlockT, BlockTypes, BlockStates, IdIf, IdTypes, New
  <2>3. AppendEvent(m, e) = Put(m, b)
    BY <1>4 DEF AppendEvent
  <2> HIDE DEF b
  <2>4. Put(m, b) \in MsgT /\ Adds(m.content, Put(m, b).content, t, IdIf(b, t))
    BY <2>2, PutKept
  <2> QED BY <2>2, <2>3, <2>4
<1>5. CASE e.type = "TOOL_RESULT_START"
  <2> DEFINE b == Block("tool_result", e.id, "RUNNING", FALSE, 0)
  <2>1. e.id \in Nat
    BY <1>5 DEF EventT
  <2>2. b \in BlockT /\ IdIf(b, t) = New(e, t)
    BY <1>5, <2>1 DEF Block, BlockT, BlockTypes, BlockStates, IdIf, IdTypes, New
  <2>3. AppendEvent(m, e) = Put(m, b)
    BY <1>5 DEF AppendEvent, ResultEvent
  <2> HIDE DEF b
  <2>4. Put(m, b) \in MsgT /\ Adds(m.content, Put(m, b).content, t, IdIf(b, t))
    BY <2>2, PutKept
  <2> QED BY <2>2, <2>3, <2>4
<1>6. CASE e.type = "TOOL_RESULT_TEXT_DELTA"
  <2> DEFINE at == FindBlock(m, "tool_result", e.id)
  <2>1. AppendEvent(m, e) = Say(m, at) /\ New(e, t) = {}
    BY <1>6 DEF AppendEvent, ResultEvent, New
  <2> HIDE DEF at
  <2> QED BY <2>1, SayKept
<1>7. CASE e.type = "TOOL_RESULT_END"
  <2> DEFINE at == FindBlock(m, "tool_result", e.id)
             ended == SetState(m, at, e.state)
             bt == FindBlock(m, "tool_call", e.id)
             both == SetState(ended, bt, "FINISHED")
  <2>1. AppendEvent(m, e) = (IF at = {} THEN m ELSE both) /\ New(e, t) = {}
    BY <1>7 DEF AppendEvent, ResultEvent, New
  <2>2. e.state \in BlockStates /\ "FINISHED" \in BlockStates
    BY <1>7 DEF EventT, BlockStates
  <2> HIDE DEF at, bt
  <2>3. ended \in MsgT /\ Adds(m.content, ended.content, t, {})
    BY <2>2, StateKept
  <2> HIDE DEF ended
  <2>4. both \in MsgT /\ Adds(ended.content, both.content, t, {})
    BY <2>2, <2>3, StateKept
  <2> HIDE DEF both
  <2>5. Adds(m.content, both.content, t, {})
    BY <2>3, <2>4, AddsThen
  <2>6. Adds(m.content, m.content, t, {})
    BY MsgFields, AddsNothing
  <2> QED BY <2>1, <2>4, <2>5, <2>6
<1>8. CASE e.type \in {"REQUIRE_USER_CONFIRM", "USER_CONFIRM_RESULT"}
  <2> DEFINE at == FindBlock(m, "tool_call", e.id)
             state == CASE e.type = "REQUIRE_USER_CONFIRM" -> "ASKING"
                        [] e.type = "USER_CONFIRM_RESULT" -> IF e.approved THEN "ALLOWED" ELSE "FINISHED"
  <2>1. AppendEvent(m, e) = SetState(m, at, state) /\ New(e, t) = {}
    BY <1>8 DEF AppendEvent, ConfirmEvent, New
  <2>2. state \in BlockStates
    BY <1>8 DEF BlockStates
  <2> HIDE DEF at, state
  <2> QED BY <2>1, <2>2, StateKept
<1> QED BY <1>1, <1>2, <1>3, <1>4, <1>5, <1>6, <1>7, <1>8 DEF EventT

Applying(f, m, es, N) == f = [n \in 0..N |-> IF n = 0 THEN m ELSE AppendEvent(f[n - 1], es[n])]

LEMMA ApplyingExists == \A m, es : \A N \in Nat : \E f : Applying(f, m, es, N)
<1> SUFFICES ASSUME NEW m, NEW es PROVE \A N \in Nat : \E f : Applying(f, m, es, N)
  OBVIOUS
<1> DEFINE S == {N \in Nat : \E f : Applying(f, m, es, N)}
<1>1. 0 \in S
  <2> DEFINE f == [n \in 0..0 |-> m]
  <2>1. f[0] = m /\ \A n \in 0..0 : n = 0
    OBVIOUS
  <2>2. f = [n \in 0..0 |-> IF n = 0 THEN m ELSE AppendEvent(f[n - 1], es[n])]
    BY <2>1
  <2> HIDE DEF f
  <2>3. Applying(f, m, es, 0)
    BY <2>2 DEF Applying
  <2> QED BY <2>3
<1>2. ASSUME NEW N \in Nat, N \in S PROVE N + 1 \in S
  <2>1. PICK f : Applying(f, m, es, N)
    BY <1>2
  <2> DEFINE last == AppendEvent(f[N], es[N + 1])
             h == [n \in 0..(N + 1) |-> IF n = N + 1 THEN last ELSE f[n]]
  <2> HIDE DEF last
  <2>2. \A n \in 0..N : h[n] = f[n] /\ n # N + 1
    OBVIOUS
  <2>3. h[N + 1] = last /\ N + 1 # 0 /\ (N + 1) - 1 = N
    OBVIOUS
  <2>4. h = [n \in 0..(N + 1) |-> h[n]]
    OBVIOUS
  <2> HIDE DEF h
  <2>5. ASSUME NEW n \in 0..(N + 1)
        PROVE  h[n] = IF n = 0 THEN m ELSE AppendEvent(h[n - 1], es[n])
    <3>1. CASE n = N + 1
      <4>1. h[n - 1] = f[N]
        BY <2>2, <2>3, <3>1
      <4> QED BY <2>3, <3>1, <4>1 DEF last
    <3>2. CASE n # N + 1
      <4>1. n \in 0..N /\ (n = 0 \/ n - 1 \in 0..N)
        BY <3>2
      <4>2. f[n] = IF n = 0 THEN m ELSE AppendEvent(f[n - 1], es[n])
        BY <2>1, <4>1 DEF Applying
      <4>3. h[n] = f[n] /\ (n = 0 \/ h[n - 1] = f[n - 1])
        BY <2>2, <4>1
      <4> QED BY <4>2, <4>3
    <3> QED BY <3>1, <3>2
  <2>6. Applying(h, m, es, N + 1)
    BY <2>4, <2>5 DEF Applying
  <2> QED BY <2>6
<1> HIDE DEF S
<1>3. Nat \subseteq S
  BY <1>1, <1>2, Induction
<1> QED BY <1>3 DEF S

LEMMA ApplyingSteps ==
    ASSUME NEW m, NEW es, NEW N \in Nat, NEW f, Applying(f, m, es, N)
    PROVE  f[0] = m /\ \A n \in 0..(N - 1) : f[n + 1] = AppendEvent(f[n], es[n + 1])
<1>1. ASSUME NEW n \in 0..N PROVE f[n] = IF n = 0 THEN m ELSE AppendEvent(f[n - 1], es[n])
  BY DEF Applying
<1>2. ASSUME NEW n \in 0..(N - 1) PROVE f[n + 1] = AppendEvent(f[n], es[n + 1])
  <2>1. n + 1 \in 0..N /\ n + 1 # 0 /\ (n + 1) - 1 = n
    OBVIOUS
  <2> QED BY <1>1, <2>1
<1>3. 0 \in 0..N
  OBVIOUS
<1> QED BY <1>1, <1>2, <1>3

LEMMA AppendEventsDef ==
    ASSUME NEW m, NEW es \in Seq(EventT)
    PROVE  \E f : Applying(f, m, es, Len(es)) /\ AppendEvents(m, es) = f[Len(es)]
<1> DEFINE f == CHOOSE f : Applying(f, m, es, Len(es))
<1>1. Applying(f, m, es, Len(es))
  <2>1. Len(es) \in Nat
    OBVIOUS
  <2> QED BY <2>1, ApplyingExists
<1>2. AppendEvents(m, es) = f[Len(es)]
  BY DEF AppendEvents, Applying
<1> QED BY <1>1, <1>2

\* The ids a list of events brings, if it brings each once.
NewOf(es, t) == {c \in Nat : \E n \in 1..Len(es) : c \in New(es[n], t)}
StartsOnce(es, t) == \A i, j \in 1..Len(es) : \A c \in Nat : c \in New(es[i], t) /\ c \in New(es[j], t) => i = j

LEMMA EventsKept ==
    ASSUME NEW m \in MsgT, NEW es \in Seq(EventT), NEW t \in IdTypes, StartsOnce(es, t)
    PROVE  AppendEvents(m, es) \in MsgT /\ Adds(m.content, AppendEvents(m, es).content, t, NewOf(es, t))
<1> DEFINE N == Len(es)
           D(n) == {c \in Nat : \E i \in 1..n : c \in New(es[i], t)}
<1>1. N \in Nat /\ \A n \in 1..N : es[n] \in EventT
  OBVIOUS
<1>2. PICK f : Applying(f, m, es, N) /\ AppendEvents(m, es) = f[N]
  BY AppendEventsDef
<1>3. f[0] = m /\ \A n \in 0..(N - 1) : f[n + 1] = AppendEvent(f[n], es[n + 1])
  <2> HIDE DEF N
  <2> QED BY <1>1, <1>2, ApplyingSteps
<1>4. D(N) = NewOf(es, t)
  BY DEF NewOf
<1> DEFINE S == {n \in Nat : n <= N => f[n] \in MsgT /\ Adds(m.content, f[n].content, t, D(n))}
<1>5. 0 \in S
  <2>1. D(0) = {}
    OBVIOUS
  <2> HIDE DEF D
  <2>2. Adds(m.content, m.content, t, {})
    BY MsgFields, AddsNothing
  <2> QED BY <1>3, <2>1, <2>2
<1>6. ASSUME NEW n \in Nat, n \in S PROVE n + 1 \in S
  <2> SUFFICES ASSUME n + 1 <= N PROVE f[n + 1] \in MsgT /\ Adds(m.content, f[n + 1].content, t, D(n + 1))
    OBVIOUS
  <2> DEFINE e == es[n + 1]
             E == New(e, t)
  <2>1. n \in 0..(N - 1) /\ n <= N /\ n + 1 \in 1..N
    BY <1>1
  <2>2. e \in EventT
    BY <1>1, <2>1
  <2>3. E \subseteq Nat
    BY <2>2 DEF New, EventT
  <2>4. D(n + 1) = D(n) \cup E
    <3>1. 1..(n + 1) = 1..n \cup {n + 1}
      OBVIOUS
    <3> QED BY <2>3, <3>1
  <2>5. D(n) \cap E = {}
    <3>1. ASSUME NEW c \in Nat, NEW i \in 1..n, c \in New(es[i], t), c \in E PROVE FALSE
      <4>1. i \in 1..N /\ i # n + 1
        BY <1>1, <2>1
      <4> QED BY <2>1, <3>1, <4>1 DEF StartsOnce
    <3> QED BY <3>1
  <2>6. f[n + 1] = AppendEvent(f[n], e) /\ f[n] \in MsgT /\ Adds(m.content, f[n].content, t, D(n))
    BY <1>3, <1>6, <2>1
  <2> HIDE DEF D, e
  <2>7. f[n + 1] \in MsgT /\ Adds(f[n].content, f[n + 1].content, t, E)
    BY <2>2, <2>6, EventKept
  <2> HIDE DEF E
  <2>8. Adds(m.content, f[n + 1].content, t, D(n) \cup E)
    BY <2>5, <2>6, <2>7, AddsThen
  <2> QED BY <2>4, <2>7, <2>8
<1> HIDE DEF S
<1>7. Nat \subseteq S
  BY <1>5, <1>6, Induction
<1>8. N \in S /\ N <= N
  BY <1>1, <1>7
<1>9. f[N] \in MsgT /\ Adds(m.content, f[N].content, t, D(N))
  BY <1>8 DEF S
<1> HIDE DEF D, N
<1> QED BY <1>2, <1>4, <1>9

LEMMA GrownMore ==
    ASSUME NEW ms, NEW ns, NEW t, NEW C, NEW D, Grown(ms, ns, t, C), C \subseteq D
    PROVE  Grown(ms, ns, t, D)
BY DEF Grown

LEMMA GrownNothing == ASSUME NEW ms \in Seq(MsgT), NEW t, NEW C PROVE Grown(ms, ms, t, C)
BY DEF Grown

LEMMA GrownThen ==
    ASSUME NEW a, NEW b, NEW c, NEW t, NEW C, NEW D, Grown(a, b, t, C), Grown(b, c, t, D), C \cap D = {}
    PROVE  Grown(a, c, t, C \cup D)
BY DEF Grown

\* A message without blocks.
LEMMA FreshMsg ==
    ASSUME NEW role \in {"user", "assistant"}, NEW id \in Nat, NEW bs \in Seq(BlockT)
    PROVE  Msg(role, id, bs) \in MsgT /\ Msg(role, id, bs).content = bs
<1>1. << >> \in Seq(Nat)
  OBVIOUS
<1> QED BY <1>1 DEF Msg, MsgT

\* The host applies the events of a message.
LEMMA DeliverKept ==
    ASSUME NEW ms \in Seq(MsgT), NEW id \in Nat, NEW es \in Seq(EventT), NEW t \in IdTypes, StartsOnce(es, t)
    PROVE  Grown(ms, Deliver(ms, id, es), t, NewOf(es, t))
<1> DEFINE at == {i \in DOMAIN ms : ms[i].role = "assistant" /\ ms[i].id = id}
           opens == Host = "first block" /\ \E n \in DOMAIN es : es[n].type \in Opening
           fresh == Msg("assistant", id, << >>)
           C == NewOf(es, t)
           i == Min(at)
<1>1. at \subseteq 1..Len(ms) /\ Len(ms) \in Nat
  OBVIOUS
<1>2. Deliver(ms, id, es) =
        CASE at # {} -> [ms EXCEPT ![i] = AppendEvents(@, es)]
          [] at = {} /\ opens -> Append(ms, AppendEvents(fresh, es))
          [] OTHER -> ms
  BY DEF Deliver
<1> HIDE DEF at, opens, C
<1>3. at # {} => i \in 1..Len(ms)
  <2>1. at \subseteq Nat
    BY <1>1
  <2>2. at # {} => i \in at
    BY <2>1, MinIn
  <2> QED BY <1>1, <2>2
<1> HIDE DEF i
<1>4. CASE at # {}
  <2> DEFINE m == AppendEvents(ms[i], es)
  <2>1. i \in 1..Len(ms) /\ ms[i] \in MsgT
    BY <1>3, <1>4
  <2>2. m \in MsgT /\ Adds(ms[i].content, m.content, t, C)
    BY <2>1, EventsKept DEF C
  <2>3. Deliver(ms, id, es) = [ms EXCEPT ![i] = m]
    BY <1>2, <1>4
  <2> HIDE DEF m
  <2>4. Grown(ms, [ms EXCEPT ![i] = m], t, C)
    BY <2>1, <2>2, GrownAt
  <2> QED BY <2>3, <2>4 DEF C
<1>5. CASE at = {} /\ opens
  <2> DEFINE m == AppendEvents(fresh, es)
  <2>1. fresh \in MsgT /\ fresh.content = << >>
    BY FreshMsg, EmptyLists
  <2> HIDE DEF fresh
  <2>2. m \in MsgT /\ Adds(<< >>, m.content, t, C)
    BY <2>1, EventsKept DEF C
  <2>3. Deliver(ms, id, es) = Append(ms, m)
    BY <1>2, <1>5 DEF fresh
  <2> HIDE DEF m
  <2>4. OneEach(m.content, t) /\ IdsOf(m.content, t) \subseteq C
    BY <2>2, EmptyLists DEF Adds
  <2>5. Grown(ms, Append(ms, m), t, IdsOf(m.content, t))
    BY <2>2, <2>4, GrownAppend
  <2>6. Grown(ms, Append(ms, m), t, C)
    BY <2>4, <2>5, GrownMore
  <2> QED BY <2>3, <2>6 DEF C
<1>6. CASE at = {} /\ ~opens
  BY <1>2, <1>6, GrownNothing
<1> QED BY <1>4, <1>5, <1>6

\* The context gets blocks for a reply.
LEMMA ReplyBlocksKept ==
    ASSUME NEW ms \in Seq(MsgT), NEW id \in Nat, NEW bs \in Seq(BlockT), NEW t, OneEach(bs, t)
    PROVE  /\ Grown(ms, AppendReplyBlocks(ms, id, bs), t, IdsOf(bs, t))
           /\ IdsOf(bs, t) \subseteq AllIds(AppendReplyBlocks(ms, id, bs), t)
<1> DEFINE at == {i \in DOMAIN ms : ms[i].role = "assistant" /\ ms[i].id = id}
           fresh == Msg("assistant", id, bs)
           i == Max(at)
           ns == AppendReplyBlocks(ms, id, bs)
<1>1. at \subseteq 1..Len(ms) /\ Len(ms) \in Nat
  OBVIOUS
<1>2. ns = CASE bs = << >> -> ms
             [] bs # << >> /\ at = {} -> Append(ms, fresh)
             [] OTHER -> [ms EXCEPT ![i].content = @ \o bs]
  BY DEF AppendReplyBlocks
<1>3. at # {} => i \in 1..Len(ms)
  BY <1>1, MaxIn
<1> HIDE DEF at, i, ns
<1>4. CASE bs = << >>
  <2>1. ns = ms /\ IdsOf(bs, t) = {}
    BY <1>2, <1>4, EmptyLists
  <2> QED BY <2>1, GrownNothing DEF ns
<1>5. CASE bs # << >> /\ at = {}
  <2>1. fresh \in MsgT /\ fresh.content = bs
    BY FreshMsg
  <2>2. ns = Append(ms, fresh)
    BY <1>2, <1>5
  <2> HIDE DEF fresh
  <2> QED BY <2>1, <2>2, GrownAppend DEF ns
<1>6. CASE bs # << >> /\ at # {}
  <2> DEFINE cs == ms[i].content \o bs
             m == [ms[i] EXCEPT !.content = cs]
  <2>1. i \in 1..Len(ms) /\ ms[i] \in MsgT
    BY <1>3, <1>6
  <2>2. ns = [ms EXCEPT ![i] = m]
    BY <1>2, <1>6
  <2>3. ms[i].content \in Seq(BlockT)
    BY <2>1, MsgFields
  <2>4. Adds(ms[i].content, cs, t, IdsOf(bs, t)) /\ IdsOf(bs, t) \subseteq IdsOf(cs, t) /\ cs \in Seq(BlockT)
    BY <2>3, AddsConcat DEF Adds
  <2> HIDE DEF cs
  <2>5. m \in MsgT /\ m.content = cs
    BY <2>1, <2>4, MsgFields
  <2> HIDE DEF m
  <2>6. Grown(ms, ns, t, IdsOf(bs, t))
    BY <2>1, <2>2, <2>4, <2>5, GrownAt
  <2>7. IdsOf(bs, t) \subseteq AllIds(ns, t)
    <3>1. i \in 1..Len(ns) /\ ns[i] = m
      BY <2>1, <2>2
    <3>2. IdsOf(bs, t) \subseteq IdsOf(ns[i].content, t)
      BY <2>4, <2>5, <3>1
    <3>3. IdsOf(bs, t) \subseteq Nat
      BY DEF IdsOf
    <3> QED BY <3>1, <3>2, <3>3 DEF AllIds
  <2> QED BY <2>6, <2>7 DEF ns
<1> QED BY <1>4, <1>5, <1>6

LEMMA CallStateKept ==
    ASSUME NEW ms \in Seq(MsgT), NEW c, NEW state \in BlockStates, NEW t
    PROVE  Grown(ms, SetToolCallState(ms, c, state), t, {})
<1> DEFINE at == Owners(ms, c)
           i == Min(at)
           bt == FindBlock(ms[i], "tool_call", c)
           m == SetState(ms[i], bt, state)
<1>1. at \subseteq 1..Len(ms)
  BY DEF Owners
<1>2. at # {} => i \in 1..Len(ms)
  <2> HIDE DEF at
  <2>1. at \subseteq Nat
    BY <1>1
  <2>2. at # {} => i \in at
    BY <2>1, MinIn
  <2> QED BY <1>1, <2>2
<1>3. SetToolCallState(ms, c, state) = IF at = {} THEN ms ELSE [ms EXCEPT ![i] = m]
  BY DEF SetToolCallState
<1> HIDE DEF at, i, bt
<1>4. CASE at # {}
  <2>1. i \in 1..Len(ms) /\ ms[i] \in MsgT
    BY <1>2, <1>4
  <2>2. m \in MsgT /\ Adds(ms[i].content, m.content, t, {})
    BY <2>1, StateKept
  <2> HIDE DEF m
  <2> QED BY <1>3, <1>4, <2>1, <2>2, GrownAt
<1> QED BY <1>3, <1>4, GrownNothing

-----------------------------------------------------------------------------
(* All blocks of a list of messages.                                       *)

LEMMA BlocksKnown ==
    ASSUME NEW ms \in Seq(MsgT), NEW t
    PROVE  /\ Blocks(ms) \in Seq(BlockT)
           /\ IdsOf(Blocks(ms), t) = AllIds(ms, t)
           /\ Once(ms, t) => OneEach(Blocks(ms), t)
<1> DEFINE s == [i \in DOMAIN ms |-> ms[i].content]
           bs == Blocks(ms)
<1>1. bs = FlattenSeq(s)
  BY DEF Blocks
<1>2. DOMAIN ms = 1..Len(ms) /\ Len(ms) \in Nat /\ \A i \in 1..Len(ms) : ms[i] \in MsgT
  OBVIOUS
<1>3. \A i \in 1..Len(ms) : s[i] = ms[i].content
  BY <1>2
<1>4. s = [i \in 1..Len(ms) |-> s[i]]
  BY <1>2
<1> HIDE DEF s, bs
<1>5. \A i \in 1..Len(ms) : s[i] \in Seq(BlockT)
  BY <1>2, <1>3, MsgFields
<1>6. s \in Seq(Seq(BlockT)) /\ Len(s) = Len(ms)
  <2>1. s \in [1..Len(ms) -> Seq(BlockT)]
    BY <1>4, <1>5
  <2> QED BY <1>2, <2>1
<1>7. bs \in Seq(BlockT) /\ \E row, col : Places(row, col, bs, s)
  BY <1>1, <1>6, FlattenPlaces
<1>8. PICK row, col : Places(row, col, bs, s)
  BY <1>7
<1>9. /\ \A p \in 1..Len(bs) : row[p] \in 1..Len(ms) /\ col[p] \in 1..Len(s[row[p]]) /\ bs[p] = s[row[p]][col[p]]
      /\ \A p, q \in 1..Len(bs) : p < q => row[p] < row[q] \/ (row[p] = row[q] /\ col[p] < col[q])
      /\ \A i \in 1..Len(ms) : \A k \in 1..Len(s[i]) : \E p \in 1..Len(bs) : row[p] = i /\ col[p] = k
  BY <1>6, <1>8 DEF Places
<1>10. ASSUME NEW p \in 1..Len(bs), bs[p].type = t
       PROVE  bs[p].id \in Nat /\ bs[p].id \in IdsOf(ms[row[p]].content, t)
  <2>1. bs[p].id \in Nat
    BY <1>7, BlockFields
  <2>2. row[p] \in 1..Len(ms) /\ col[p] \in 1..Len(s[row[p]]) /\ bs[p] = s[row[p]][col[p]] /\ s[row[p]] = ms[row[p]].content
    BY <1>3, <1>9
  <2> QED BY <1>10, <2>1, <2>2 DEF IdsOf
<1>11. IdsOf(bs, t) \subseteq AllIds(ms, t)
  <2>1. ASSUME NEW c \in Nat, NEW p \in 1..Len(bs), bs[p].type = t, bs[p].id = c PROVE c \in AllIds(ms, t)
    <3>1. row[p] \in 1..Len(ms) /\ c \in IdsOf(ms[row[p]].content, t)
      BY <1>9, <1>10, <2>1
    <3> QED BY <3>1 DEF AllIds
  <2> QED BY <2>1 DEF IdsOf
<1>12. AllIds(ms, t) \subseteq IdsOf(bs, t)
  <2>1. ASSUME NEW c \in Nat, NEW i \in 1..Len(ms), NEW k \in 1..Len(s[i]), s[i][k].type = t, s[i][k].id = c
        PROVE  c \in IdsOf(bs, t)
    <3>1. PICK p \in 1..Len(bs) : row[p] = i /\ col[p] = k
      BY <1>9
    <3>2. bs[p] = s[i][k]
      BY <1>9, <3>1
    <3> QED BY <2>1, <3>2 DEF IdsOf
  <2>2. \A i \in 1..Len(ms) : IdsOf(ms[i].content, t) = IdsOf(s[i], t)
    BY <1>3
  <2>3. ASSUME NEW c \in AllIds(ms, t) PROVE c \in IdsOf(bs, t)
    <3>1. PICK i \in 1..Len(ms) : c \in IdsOf(ms[i].content, t)
      BY <2>3 DEF AllIds
    <3>2. c \in IdsOf(s[i], t)
      BY <2>2, <3>1
    <3>3. PICK k \in 1..Len(s[i]) : s[i][k].type = t /\ s[i][k].id = c
      BY <3>2 DEF IdsOf
    <3>4. c \in Nat
      BY <3>2 DEF IdsOf
    <3> QED BY <2>1, <3>3, <3>4
  <2> QED BY <2>3
<1>13. ASSUME Once(ms, t), NEW p \in 1..Len(bs), NEW q \in 1..Len(bs), bs[p].type = t, bs[q].type = t, bs[p].id = bs[q].id
       PROVE  p = q
  <2> DEFINE i == row[p]
             j == row[q]
  <2>1. /\ i \in 1..Len(ms) /\ col[p] \in 1..Len(s[i]) /\ bs[p] = s[i][col[p]]
        /\ j \in 1..Len(ms) /\ col[q] \in 1..Len(s[j]) /\ bs[q] = s[j][col[q]]
    BY <1>9
  <2>2. i = j
    <3>1. bs[p].id \in Nat /\ bs[p].id \in IdsOf(ms[i].content, t) /\ bs[p].id \in IdsOf(ms[j].content, t)
      BY <1>10, <1>13
    <3> HIDE DEF i, j
    <3> QED BY <1>13, <2>1, <3>1 DEF Once
  <2>3. col[p] = col[q]
    <3> DEFINE k == col[p]
               l == col[q]
               x == s[i]
    <3>1. k \in 1..Len(x) /\ l \in 1..Len(x) /\ bs[p] = x[k] /\ bs[q] = x[l]
      BY <2>1, <2>2
    <3>2. OneEach(x, t)
      BY <1>3, <1>13, <2>1 DEF Once
    <3> HIDE DEF k, l, x
    <3>3. k = l
      BY <1>13, <3>1, <3>2 DEF OneEach
    <3> QED BY <3>3 DEF k, l
  <2>4. row[p] = row[q] /\ row[p] \in Int /\ col[p] \in Int
    BY <2>1, <2>2
  <2>5. ~(p < q) /\ ~(q < p)
    BY <1>9, <2>3, <2>4
  <2> QED BY <1>7, <2>5
<1> QED BY <1>7, <1>11, <1>12, <1>13 DEF OneEach, bs

LEMMA AnsweredIds ==
    ASSUME NEW ms \in Seq(MsgT)
    PROVE  Answered(ms) = AllIds(ms, "tool_result")
<1> DEFINE bs == Blocks(ms)
<1>1. bs \in Seq(BlockT) /\ IdsOf(bs, "tool_result") = AllIds(ms, "tool_result")
  BY BlocksKnown
<1>2. Answered(ms) = {b.id : b \in {b \in Range(bs) : b.type = "tool_result"}}
  BY DEF Answered
<1> HIDE DEF bs
<1>3. Range(bs) = {bs[i] : i \in 1..Len(bs)}
  BY <1>1 DEF Range
<1>4. \A i \in 1..Len(bs) : bs[i].id \in Nat
  BY <1>1, BlockFields
<1>5. {b.id : b \in {b \in Range(bs) : b.type = "tool_result"}} = IdsOf(bs, "tool_result")
  BY <1>3, <1>4 DEF IdsOf
<1> QED BY <1>1, <1>2, <1>5

\* The calls a resumption settles are unanswered, and each is there once.
LEMMA PendingOnce ==
    ASSUME NEW ms \in Seq(MsgT), Once(ms, "tool_call")
    PROVE  /\ PendingToolCalls(ms) \in Seq(BlockT) /\ OneEach(PendingToolCalls(ms), "tool_call")
           /\ \A n \in 1..Len(PendingToolCalls(ms)) :
                PendingToolCalls(ms)[n].type = "tool_call" /\ PendingToolCalls(ms)[n].id \notin AllIds(ms, "tool_result")
<1> DEFINE bs == Blocks(ms)
           P == {i \in DOMAIN bs : bs[i].type = "tool_call" /\ bs[i].id \notin Answered(ms)}
           out == Select(bs, P)
<1>1. bs \in Seq(BlockT) /\ OneEach(bs, "tool_call")
  BY BlocksKnown
<1>2. PendingToolCalls(ms) = out
  BY DEF PendingToolCalls
<1> HIDE DEF bs
<1>3. out \in Seq(BlockT) /\ \E row : SelectedFrom(row, out, bs, P)
  BY <1>1, SelectPlaces
<1>4. PICK row : SelectedFrom(row, out, bs, P)
  BY <1>3
<1> HIDE DEF out
<1>5. \A n \in 1..Len(out) : /\ row[n] \in 1..Len(bs) /\ out[n] = bs[row[n]]
                             /\ out[n].type = "tool_call" /\ out[n].id \notin Answered(ms)
  BY <1>4 DEF SelectedFrom
<1>6. ASSUME NEW m \in 1..Len(out), NEW n \in 1..Len(out), out[m].id = out[n].id PROVE m = n
  <2>1. row[m] = row[n]
    <3>1. /\ row[m] \in 1..Len(bs) /\ bs[row[m]] = out[m] /\ out[m].type = "tool_call"
          /\ row[n] \in 1..Len(bs) /\ bs[row[n]] = out[n] /\ out[n].type = "tool_call"
      BY ONLY <1>5, <1>6
    <3>2. \A i, j \in 1..Len(bs) : bs[i].type = "tool_call" /\ bs[j].type = "tool_call" /\ bs[i].id = bs[j].id => i = j
      BY ONLY <1>1 DEF OneEach
    <3> QED BY ONLY <1>6, <3>1, <3>2
  <2> QED BY <1>1, <1>3, <1>4, <2>1, SelectedApart
<1>7. OneEach(out, "tool_call")
  BY <1>6 DEF OneEach
<1> QED BY <1>2, <1>3, <1>5, <1>7, AnsweredIds

\* Two lists of calls without repetition, none of them answered.
Unsettled(todo1, denied1, ms) ==
    /\ \A i, j \in 1..Len(todo1) : todo1[i] = todo1[j] => i = j
    /\ \A i, j \in 1..Len(denied1) : denied1[i] = denied1[j] => i = j
    /\ \A i \in 1..Len(todo1), j \in 1..Len(denied1) : todo1[i] # denied1[j]
    /\ \A i \in 1..Len(todo1) : todo1[i] \notin AllIds(ms, "tool_result")
    /\ \A i \in 1..Len(denied1) : denied1[i] \notin AllIds(ms, "tool_result")

LEMMA PendingUnsettled ==
    ASSUME NEW ms \in Seq(MsgT), Once(ms, "tool_call"), NEW P
    PROVE  LET w == PendingToolCalls(ms)
               a == Ids(Select(w, P))
               b == Ids(Select(w, DOMAIN w \ P))
           IN  a \in Seq(Nat) /\ b \in Seq(Nat) /\ Unsettled(a, b, ms)
<1> DEFINE w == PendingToolCalls(ms)
           Q == DOMAIN w \ P
           x == Select(w, P)
           y == Select(w, Q)
           a == Ids(x)
           b == Ids(y)
<1>1. /\ w \in Seq(BlockT) /\ OneEach(w, "tool_call")
      /\ \A n \in 1..Len(w) : w[n].type = "tool_call" /\ w[n].id \notin AllIds(ms, "tool_result")
  BY PendingOnce
<1> HIDE DEF w
<1>2. \A m, n \in 1..Len(w) : w[m].id = w[n].id => m = n
  BY <1>1 DEF OneEach
<1>3. x \in Seq(BlockT) /\ y \in Seq(BlockT)
      /\ (\E row : SelectedFrom(row, x, w, P)) /\ (\E row : SelectedFrom(row, y, w, Q))
  BY <1>1, SelectPlaces
<1>4. PICK r : SelectedFrom(r, x, w, P)
  BY <1>3
<1>5. PICK s : SelectedFrom(s, y, w, Q)
  BY <1>3
<1> HIDE DEF x, y
<1>6. /\ a \in Seq(Nat) /\ Len(a) = Len(x) /\ \A i \in 1..Len(x) : a[i] = x[i].id
      /\ b \in Seq(Nat) /\ Len(b) = Len(y) /\ \A i \in 1..Len(y) : b[i] = y[i].id
  BY <1>3, IdsTyped
<1> HIDE DEF a, b
<1>7. \A i \in 1..Len(a) : r[i] \in 1..Len(w) /\ r[i] \in P /\ a[i] = w[r[i]].id
  BY <1>4, <1>6 DEF SelectedFrom
<1>8. \A i \in 1..Len(b) : s[i] \in 1..Len(w) /\ s[i] \in Q /\ b[i] = w[s[i]].id
  BY <1>5, <1>6 DEF SelectedFrom
<1>9. ASSUME NEW i \in 1..Len(a), NEW j \in 1..Len(a), a[i] = a[j] PROVE i = j
  <2>1. r[i] = r[j]
    BY <1>2, <1>7, <1>9
  <2> QED BY <1>1, <1>3, <1>4, <1>6, <2>1, SelectedApart
<1>10. ASSUME NEW i \in 1..Len(b), NEW j \in 1..Len(b), b[i] = b[j] PROVE i = j
  <2>1. s[i] = s[j]
    BY <1>2, <1>8, <1>10
  <2> HIDE DEF Q
  <2> QED BY <1>1, <1>3, <1>5, <1>6, <2>1, SelectedApart
<1>11. ASSUME NEW i \in 1..Len(a), NEW j \in 1..Len(b), a[i] = b[j] PROVE FALSE
  <2>1. r[i] = s[j]
    BY SMTT(40), <1>2, <1>7, <1>8, <1>11
  <2> QED BY <1>7, <1>8, <2>1
<1>12. Unsettled(a, b, ms)
  BY <1>1, <1>7, <1>8, <1>9, <1>10, <1>11 DEF Unsettled
<1> QED BY <1>6, <1>12 DEF a, b, w, x, y

LEMMA MadeKnown ==
    ASSUME context \in Seq(MsgT), copy \in Seq(MsgT), NEW c, c \notin Made, NEW t \in IdTypes
    PROVE  c \notin attempt.started /\ c \notin AllIds(context, t) /\ c \notin AllIds(copy, t)
<1> DEFINE x == Blocks(context)
           y == Blocks(copy)
           z == x \o y
           K == {"tool_call", "tool_result"}
<1>1. x \in Seq(BlockT) /\ IdsOf(x, t) = AllIds(context, t) /\ y \in Seq(BlockT) /\ IdsOf(y, t) = AllIds(copy, t)
  BY BlocksKnown
<1>2. c \notin attempt.started /\ c \notin {b.id : b \in {b \in Range(z) : b.type \in K}}
  BY DEF Made
<1> HIDE DEF x, y, z, K
<1>3. /\ z \in Seq(BlockT) /\ Len(x) \in Nat /\ Len(y) \in Nat /\ Len(z) = Len(x) + Len(y)
      /\ \A k \in 1..Len(x) : z[k] = x[k]
      /\ \A k \in 1..Len(y) : z[Len(x) + k] = y[k]
  BY <1>1, Concatenated DEF z
<1>4. \A k \in 1..Len(z) : ~(z[k].type = t /\ z[k].id = c)
  <2>1. DOMAIN z = 1..Len(z)
    BY <1>3
  <2>2. Range(z) = {z[k] : k \in 1..Len(z)}
    BY <2>1 DEF Range
  <2>3. t \in K
    BY DEF K, IdTypes
  <2> QED BY <1>2, <2>2, <2>3
<1>5. \A k \in 1..Len(x) : ~(x[k].type = t /\ x[k].id = c)
  <2>1. \A k \in 1..Len(x) : k \in 1..Len(z)
    BY <1>3
  <2> QED BY <1>3, <1>4, <2>1
<1>6. \A k \in 1..Len(y) : ~(y[k].type = t /\ y[k].id = c)
  <2>1. \A k \in 1..Len(y) : Len(x) + k \in 1..Len(z)
    BY <1>3
  <2> QED BY <1>3, <1>4, <2>1
<1> QED BY <1>1, <1>2, <1>5, <1>6 DEF IdsOf

\* The greatest of finitely many ids.
LEMMA GreatestOf ==
    ASSUME NEW a \in Nat, NEW f, NEW N \in Nat, \A i \in 1..N : f[i] \in Nat
    PROVE  \E m \in {a} \cup {f[i] : i \in 1..N} : \A x \in {a} \cup {f[i] : i \in 1..N} : m >= x
<1> DEFINE D(n) == {a} \cup {f[i] : i \in 1..n}
           S == {n \in Nat : n <= N => \E m \in D(n) : \A x \in D(n) : m >= x}
<1>1. 0 \in S
  <2>1. D(0) = {a}
    OBVIOUS
  <2> HIDE DEF D
  <2> QED BY <2>1
<1>2. ASSUME NEW n \in Nat, n \in S PROVE n + 1 \in S
  <2> SUFFICES ASSUME n + 1 <= N PROVE \E m \in D(n + 1) : \A x \in D(n + 1) : m >= x
    OBVIOUS
  <2>1. PICK m \in D(n) : \A x \in D(n) : m >= x
    BY <1>2
  <2>2. D(n + 1) = D(n) \cup {f[n + 1]} /\ f[n + 1] \in Nat /\ \A x \in D(n) : x \in Nat
    <3>1. 1..(n + 1) = 1..n \cup {n + 1}
      OBVIOUS
    <3> QED BY <3>1
  <2> HIDE DEF D
  <2>3. CASE m >= f[n + 1]
    <3>1. m \in D(n + 1) /\ \A x \in D(n + 1) : m >= x
      BY <2>1, <2>2, <2>3
    <3> QED BY <3>1
  <2>4. CASE ~(m >= f[n + 1])
    <3>1. f[n + 1] \in D(n + 1) /\ \A x \in D(n + 1) : f[n + 1] >= x
      BY <2>1, <2>2, <2>4
    <3> QED BY <3>1
  <2> QED BY <2>3, <2>4
<1> HIDE DEF S
<1>3. Nat \subseteq S
  BY <1>1, <1>2, Induction
<1>4. N \in S
  BY <1>3
<1>5. \E m \in D(N) : \A x \in D(N) : m >= x
  <2> HIDE DEF D
  <2> QED BY <1>4 DEF S
<1> QED BY <1>5 DEF D

LEMMA FreshIdTyped ==
    ASSUME message_id \in Nat, copy \in Seq(MsgT)
    PROVE  FreshId \in Nat
<1> DEFINE f == [i \in 1..Len(copy) |-> copy[i].id]
           S == {message_id} \cup {f[i] : i \in 1..Len(copy)}
<1>1. Len(copy) \in Nat /\ DOMAIN copy = 1..Len(copy)
  OBVIOUS
<1>2. \A i \in 1..Len(copy) : f[i] = copy[i].id /\ f[i] \in Nat
  BY MsgFields
<1>3. FreshId = 1 + Max(S)
  <2>1. S = {message_id} \cup {copy[i].id : i \in DOMAIN copy}
    BY <1>1
  <2> HIDE DEF S
  <2> QED BY <2>1 DEF FreshId
<1> HIDE DEF f
<1>4. \E m \in S : \A x \in S : m >= x
  BY <1>1, <1>2, GreatestOf
<1>5. S \subseteq Nat
  BY <1>2
<1> HIDE DEF S
<1>6. Max(S) \in S
  BY <1>4 DEF Max
<1>7. Max(S) \in Nat
  BY <1>5, <1>6
<1> DEFINE x == Max(S)
<1> HIDE DEF x
<1>8. FreshId = 1 + x /\ x \in Nat
  BY <1>3, <1>7 DEF x
<1> QED BY <1>8

-----------------------------------------------------------------------------
(* The blocks and the events a run writes.                                 *)

LEMMA BlocksTyped ==
    /\ \A n \in Nat : Text(n) \in BlockT /\ Thinking(n) \in BlockT
    /\ Hint \in BlockT
    /\ \A c, n \in Nat : Call(c, n) \in BlockT
    /\ \A c \in Nat : \A state \in BlockStates : Result(c, state) \in BlockT
BY DEF Text, Thinking, Hint, Call, Result, Block, BlockT, BlockTypes, BlockStates

LEMMA BlocksAre ==
    /\ \A n : Text(n).type = "text" /\ Thinking(n).type = "thinking"
    /\ Hint.type = "hint"
    /\ \A c, n : Call(c, n).type = "tool_call" /\ Call(c, n).id = c
    /\ \A c, state : Result(c, state).type = "tool_result" /\ Result(c, state).id = c
BY DEF Text, Thinking, Hint, Call, Result, Block

LEMMA UserTyped == User \in MsgT /\ \A t \in IdTypes : OneEach(User.content, t) /\ IdsOf(User.content, t) = {}
<1>1. 0 \in Nat
  OBVIOUS
<1>2. Text(0) \in BlockT /\ Text(0).type = "text"
  BY <1>1, BlocksTyped, BlocksAre
<1> DEFINE b == Text(0)
<1> HIDE DEF b
<1>3. b \in BlockT /\ b.type = "text" /\ <<b>> \in Seq(BlockT)
  BY <1>2 DEF b
<1>4. User = Msg("user", 0, <<b>>)
  BY DEF User, b
<1>5. User \in MsgT /\ User.content = <<b>>
  BY <1>1, <1>3, <1>4, FreshMsg
<1>6. ASSUME NEW t \in IdTypes PROVE OneEach(<<b>>, t) /\ IdsOf(<<b>>, t) = {}
  BY <1>3, OneBlock DEF IdIf, IdTypes
<1> QED BY <1>5, <1>6

LEMMA EventsTyped ==
    /\ [type |-> "HINT_BLOCK"] \in EventT
    /\ \A n \in Nat : [type |-> "MODEL_CALL_END", turn |-> n, items |-> TRUE] \in EventT
    /\ \A b \in BlockT : b.type \in {"text", "thinking"} =>
         [type |-> "BLOCK_START", block |-> b] \in EventT /\ [type |-> "BLOCK_DELTA", block |-> b] \in EventT
    /\ \A c, n \in Nat : [type |-> "TOOL_CALL_START", id |-> c, turn |-> n] \in EventT
    /\ \A c \in Nat : /\ [type |-> "TOOL_RESULT_START", id |-> c] \in EventT
                      /\ [type |-> "TOOL_RESULT_TEXT_DELTA", id |-> c] \in EventT
                      /\ [type |-> "REQUIRE_USER_CONFIRM", id |-> c] \in EventT
    /\ \A c \in Nat : \A state \in BlockStates : [type |-> "TOOL_RESULT_END", id |-> c, state |-> state] \in EventT
    /\ \A c \in Nat : \A b \in BOOLEAN : [type |-> "USER_CONFIRM_RESULT", id |-> c, approved |-> b] \in EventT
<1>1. [type |-> "HINT_BLOCK"] \in EventT
  BY DEF EventT
<1>2. ASSUME NEW n \in Nat PROVE [type |-> "MODEL_CALL_END", turn |-> n, items |-> TRUE] \in EventT
  BY DEF EventT
<1>3. ASSUME NEW b \in BlockT, b.type \in {"text", "thinking"}
      PROVE  [type |-> "BLOCK_START", block |-> b] \in EventT /\ [type |-> "BLOCK_DELTA", block |-> b] \in EventT
  <2> DEFINE B == {x \in BlockT : x.type \in {"text", "thinking"}}
  <2>1. b \in B
    BY <1>3
  <2>2. [type: {"BLOCK_START", "BLOCK_DELTA"}, block: B] \subseteq EventT
    BY DEF EventT
  <2> HIDE DEF B
  <2> QED BY ONLY <2>1, <2>2
<1>4. ASSUME NEW c \in Nat, NEW n \in Nat PROVE [type |-> "TOOL_CALL_START", id |-> c, turn |-> n] \in EventT
  BY DEF EventT
<1>5. ASSUME NEW c \in Nat
      PROVE  /\ [type |-> "TOOL_RESULT_START", id |-> c] \in EventT
             /\ [type |-> "TOOL_RESULT_TEXT_DELTA", id |-> c] \in EventT
             /\ [type |-> "REQUIRE_USER_CONFIRM", id |-> c] \in EventT
  BY DEF EventT
<1>6. ASSUME NEW c \in Nat, NEW state \in BlockStates
      PROVE  [type |-> "TOOL_RESULT_END", id |-> c, state |-> state] \in EventT
  BY DEF EventT
<1>7. ASSUME NEW c \in Nat, NEW b \in BOOLEAN
      PROVE  [type |-> "USER_CONFIRM_RESULT", id |-> c, approved |-> b] \in EventT
  BY DEF EventT
<1> QED BY <1>1, <1>2, <1>3, <1>4, <1>5, <1>6, <1>7

\* A list of messages with no new calls and results but the given ones.
Grows(ms, ms2, calls, results) ==
    Grown(ms, ms2, "tool_call", calls) /\ Grown(ms, ms2, "tool_result", results)

\* Events of which only the first may start a call or a result.
Leads(es, calls, results) ==
    /\ es \in Seq(EventT)
    /\ \A n \in 1..Len(es) : es[n].type = "TOOL_CALL_START" => n = 1 /\ es[n].id \in calls
    /\ \A n \in 1..Len(es) : es[n].type = "TOOL_RESULT_START" => n = 1 /\ es[n].id \in results

LEMMA Delivered ==
    ASSUME NEW ms \in Seq(MsgT), NEW id \in Nat, NEW es, NEW calls, NEW results, Leads(es, calls, results)
    PROVE  Grows(ms, Deliver(ms, id, es), calls, results)
<1>1. ASSUME NEW t \in IdTypes, NEW D, D = IF t = "tool_call" THEN calls ELSE results
      PROVE  Grown(ms, Deliver(ms, id, es), t, D)
  <2>1. ASSUME NEW n \in 1..Len(es), NEW c \in New(es[n], t) PROVE n = 1 /\ c \in D
    BY <1>1, <2>1 DEF Leads, New, IdTypes
  <2>2. StartsOnce(es, t)
    <3>1. ASSUME NEW i \in 1..Len(es), NEW j \in 1..Len(es), NEW c \in Nat, c \in New(es[i], t), c \in New(es[j], t)
          PROVE  i = j
      BY <2>1, <3>1
    <3> QED BY <3>1 DEF StartsOnce
  <2>3. NewOf(es, t) \subseteq D
    BY <2>1 DEF NewOf
  <2>4. es \in Seq(EventT)
    BY DEF Leads
  <2>5. Grown(ms, Deliver(ms, id, es), t, NewOf(es, t))
    BY <2>2, <2>4, DeliverKept
  <2> QED BY <2>3, <2>5, GrownMore
<1> QED BY <1>1 DEF Grows, IdTypes

LEMMA OneEvent ==
    ASSUME NEW e \in EventT, e.type \notin {"TOOL_CALL_START", "TOOL_RESULT_START"}
    PROVE  Leads(<<e>>, {}, {})
<1>1. <<e>> \in Seq(EventT) /\ Len(<<e>>) = 1 /\ <<e>>[1] = e
  OBVIOUS
<1> DEFINE es == <<e>>
<1> HIDE DEF es
<1>2. es \in Seq(EventT) /\ Len(es) = 1 /\ es[1] = e
  BY <1>1 DEF es
<1>3. Leads(es, {}, {})
  BY <1>2 DEF Leads
<1> QED BY <1>3 DEF es

LEMMA CallLeads ==
    ASSUME NEW c \in Nat, NEW n \in Nat
    PROVE  Leads(<<[type |-> "TOOL_CALL_START", id |-> c, turn |-> n]>>, {c}, {})
<1> DEFINE e == [type |-> "TOOL_CALL_START", id |-> c, turn |-> n]
           es == <<e>>
<1>1. e \in EventT /\ e.type = "TOOL_CALL_START" /\ e.id = c
  BY EventsTyped
<1> HIDE DEF e
<1>2. es \in Seq(EventT) /\ Len(es) = 1 /\ es[1] = e
  BY <1>1
<1> HIDE DEF es
<1>3. Leads(es, {c}, {})
  BY <1>1, <1>2 DEF Leads
<1> QED BY <1>3 DEF es, e

LEMMA TextLeads ==
    ASSUME NEW b \in BlockT, b.type \in {"text", "thinking"}
    PROVE  Leads(<<[type |-> "BLOCK_START", block |-> b], [type |-> "BLOCK_DELTA", block |-> b]>>, {}, {})
<1> DEFINE d == [type |-> "BLOCK_START", block |-> b]
           e == [type |-> "BLOCK_DELTA", block |-> b]
           es == <<d, e>>
<1>1. d \in EventT /\ d.type = "BLOCK_START" /\ e \in EventT /\ e.type = "BLOCK_DELTA"
  BY EventsTyped
<1> HIDE DEF d, e
<1>2. es \in Seq(EventT) /\ Len(es) = 2 /\ es[1] = d /\ es[2] = e
  BY <1>1
<1> HIDE DEF es
<1>3. \A n \in 1..Len(es) : n = 1 \/ n = 2
  BY <1>2
<1>4. Leads(es, {}, {})
  BY <1>1, <1>2, <1>3 DEF Leads
<1> QED BY <1>4 DEF es, d, e

LEMMA EndLeads ==
    ASSUME turn \in Nat, NEW reported
    PROVE  Leads(ModelCallEnd(reported), {}, {})
<1>1. CASE reported
  <2> DEFINE e == [type |-> "MODEL_CALL_END", turn |-> turn, items |-> TRUE]
  <2>1. e \in EventT /\ e.type = "MODEL_CALL_END"
    BY EventsTyped
  <2> HIDE DEF e
  <2>2. Leads(<<e>>, {}, {})
    BY <2>1, OneEvent
  <2>3. ModelCallEnd(reported) = <<e>>
    BY <1>1 DEF ModelCallEnd, e
  <2> QED BY <2>2, <2>3
<1>2. CASE ~reported
  BY <1>2 DEF ModelCallEnd, Leads
<1> QED BY <1>1, <1>2

LEMMA ResultLeads ==
    ASSUME NEW c \in Nat, NEW state \in BlockStates, NEW text
    PROVE  Leads(ResultEvents(c, state, text), {}, {c})
<1> DEFINE d == [type |-> "TOOL_RESULT_START", id |-> c]
           m == [type |-> "TOOL_RESULT_TEXT_DELTA", id |-> c]
           e == [type |-> "TOOL_RESULT_END", id |-> c, state |-> state]
           es == ResultEvents(c, state, text)
<1>1. /\ d \in EventT /\ d.type = "TOOL_RESULT_START" /\ d.id = c
      /\ m \in EventT /\ m.type = "TOOL_RESULT_TEXT_DELTA"
      /\ e \in EventT /\ e.type = "TOOL_RESULT_END"
  BY EventsTyped
<1>2. es = <<d>> \o (IF text THEN <<m>> ELSE << >>) \o <<e>>
  BY DEF ResultEvents
<1> HIDE DEF d, m, e, es
<1> DEFINE mid == IF text THEN <<m>> ELSE << >>
           x == <<d>> \o mid
<1>3. <<d>> \in Seq(EventT) /\ Len(<<d>>) = 1 /\ <<e>> \in Seq(EventT) /\ Len(<<e>>) = 1
      /\ mid \in Seq(EventT) /\ Len(mid) \in Nat /\ \A k \in 1..Len(mid) : mid[k] = m
  <2>1. CASE text
    <3>1. mid = <<m>>
      BY <2>1
    <3> HIDE DEF mid
    <3> QED BY <1>1, <3>1
  <2>2. CASE ~text
    <3>1. mid = << >>
      BY <2>2
    <3> HIDE DEF mid
    <3> QED BY <1>1, <3>1
  <2> QED BY <2>1, <2>2
<1> HIDE DEF mid
<1>4. /\ x \in Seq(EventT) /\ Len(x) = 1 + Len(mid)
      /\ \A k \in 1..Len(<<d>>) : x[k] = <<d>>[k]
      /\ \A k \in 1..Len(mid) : x[1 + k] = mid[k]
  BY <1>3, Concatenated
<1>5. es = x \o <<e>>
  BY <1>2 DEF mid
<1> HIDE DEF x
<1>6. /\ es \in Seq(EventT) /\ Len(es) = Len(x) + 1
      /\ \A k \in 1..Len(x) : es[k] = x[k]
      /\ \A k \in 1..Len(<<e>>) : es[Len(x) + k] = <<e>>[k]
  BY <1>3, <1>4, <1>5, Concatenated
<1>7. es[1] = d
  <2>1. x[1] = d
    BY <1>3, <1>4
  <2> QED BY <1>3, <1>4, <1>6, <2>1
<1>8. ASSUME NEW n \in 1..Len(es), n # 1 PROVE es[n] = m \/ es[n] = e
  <2>1. CASE n = Len(x) + 1
    <3>1. 1 \in 1..Len(<<e>>) /\ <<e>>[1] = e
      BY <1>3
    <3> QED BY <1>6, <2>1, <3>1
  <2>2. CASE n # Len(x) + 1
    <3> DEFINE k == n - 1
    <3>1. k \in 1..Len(mid) /\ n = 1 + k /\ n \in 1..Len(x)
      BY <1>3, <1>4, <1>6, <1>8, <2>2
    <3> HIDE DEF k
    <3> QED BY <1>3, <1>4, <1>6, <3>1
  <2> QED BY <2>1, <2>2
<1>9. Leads(es, {}, {c})
  <2>1. \A n \in 1..Len(es) : n # 1 => es[n].type \notin {"TOOL_CALL_START", "TOOL_RESULT_START"}
    BY <1>1, <1>8
  <2>2. es[1].type = "TOOL_RESULT_START" /\ es[1].id = c
    BY <1>1, <1>7
  <2> QED BY <1>6, <2>1, <2>2 DEF Leads
<1> QED BY <1>9 DEF es

LEMMA StartLeads ==
    ASSUME NEW c \in Nat
    PROVE  Leads(<<[type |-> "TOOL_RESULT_START", id |-> c]>>, {}, {c})
<1> DEFINE e == [type |-> "TOOL_RESULT_START", id |-> c]
           es == <<e>>
<1>1. e \in EventT /\ e.type = "TOOL_RESULT_START" /\ e.id = c
  BY EventsTyped
<1> HIDE DEF e
<1>2. es \in Seq(EventT) /\ Len(es) = 1 /\ es[1] = e
  BY <1>1
<1> HIDE DEF es
<1>3. Leads(es, {}, {c})
  BY <1>1, <1>2 DEF Leads
<1> QED BY <1>3 DEF es, e

\* Blocks that are neither calls nor results.
Silent(bs) == bs \in Seq(BlockT) /\ \A t \in IdTypes : IdsOf(bs, t) = {} /\ OneEach(bs, t)

LEMMA SilentBlock ==
    ASSUME NEW b \in BlockT, b.type \notin IdTypes
    PROVE  Silent(<<b>>)
BY OneBlock DEF Silent, IdIf

LEMMA SilentNone == Silent(<< >>)
BY EmptyLists DEF Silent, IdsOf, OneEach

LEMMA SilentConcat ==
    ASSUME NEW x, NEW y, Silent(x), Silent(y)
    PROVE  Silent(x \o y)
<1>1. x \in Seq(BlockT) /\ y \in Seq(BlockT)
  BY DEF Silent
<1>2. ASSUME NEW t \in IdTypes PROVE IdsOf(x \o y, t) = {} /\ OneEach(x \o y, t)
  <2>1. IdsOf(x, t) = {} /\ OneEach(x, t) /\ IdsOf(y, t) = {} /\ OneEach(y, t)
    BY DEF Silent
  <2>2. Adds(x, x \o y, t, IdsOf(y, t))
    BY <1>1, <2>1, AddsConcat
  <2> QED BY <2>1, <2>2 DEF Adds
<1>3. x \o y \in Seq(BlockT)
  BY <1>1, Concatenated
<1> QED BY <1>2, <1>3 DEF Silent

\* What is stored of an attempt: its calls, and no result.
LEMMA StoredTyped ==
    ASSUME turn \in Nat, NEW calls \in Seq(Nat), \A i, j \in 1..Len(calls) : calls[i] = calls[j] => i = j
    PROVE  /\ Stored(calls) \in Seq(BlockT)
           /\ \A t \in IdTypes : OneEach(Stored(calls), t)
           /\ IdsOf(Stored(calls), "tool_result") = {}
           /\ IdsOf(Stored(calls), "tool_call") \subseteq {calls[n] : n \in 1..Len(calls)}
<1> DEFINE x == IF attempt.thinking THEN <<Thinking(turn)>> ELSE << >>
           y == IF attempt.text THEN <<Text(turn)>> ELSE << >>
           z == [n \in DOMAIN calls |-> Call(calls[n], turn)]
           C == {calls[n] : n \in 1..Len(calls)}
<1>1. Silent(x)
  <2>1. Thinking(turn) \in BlockT /\ Thinking(turn).type \notin IdTypes
    BY BlocksTyped, BlocksAre DEF IdTypes
  <2> QED BY <2>1, SilentBlock, SilentNone
<1>2. Silent(y)
  <2>1. Text(turn) \in BlockT /\ Text(turn).type \notin IdTypes
    BY BlocksTyped, BlocksAre DEF IdTypes
  <2> QED BY <2>1, SilentBlock, SilentNone
<1>3. Stored(calls) = (x \o y) \o z
  BY DEF Stored
<1>4. \A n \in 1..Len(calls) : calls[n] \in Nat /\ DOMAIN calls = 1..Len(calls) /\ Len(calls) \in Nat
  OBVIOUS
<1>5. DOMAIN calls = 1..Len(calls) /\ Len(calls) \in Nat
  OBVIOUS
<1>6. \A n \in 1..Len(calls) : z[n] \in BlockT /\ z[n].type = "tool_call" /\ z[n].id = calls[n]
  BY <1>4, <1>5, BlocksTyped, BlocksAre
<1>7. z = [n \in 1..Len(calls) |-> z[n]]
  BY <1>5
<1> HIDE DEF x, y, z
<1>8. z \in Seq(BlockT) /\ Len(z) = Len(calls)
  <2>1. z \in [1..Len(calls) -> BlockT]
    BY <1>6, <1>7
  <2> QED BY <1>5, <2>1
<1>9. \A t \in IdTypes : OneEach(z, t)
  BY <1>6, <1>8 DEF OneEach, IdTypes
<1>10. IdsOf(z, "tool_result") = {} /\ IdsOf(z, "tool_call") \subseteq C
  BY <1>6, <1>8 DEF IdsOf
<1> HIDE DEF C
<1> DEFINE w == x \o y
<1>11. Silent(w)
  BY <1>1, <1>2, SilentConcat
<1> HIDE DEF w
<1>12. ASSUME NEW t \in IdTypes
       PROVE  OneEach(w \o z, t) /\ IdsOf(w \o z, t) \subseteq IdsOf(z, t)
  <2>1. IdsOf(w, t) = {} /\ OneEach(w, t) /\ w \in Seq(BlockT)
    BY <1>11 DEF Silent
  <2>2. Adds(w, w \o z, t, IdsOf(z, t))
    BY <1>8, <1>9, <2>1, AddsConcat
  <2> QED BY <2>1, <2>2 DEF Adds
<1>13. w \o z \in Seq(BlockT)
  BY <1>8, <1>11, Concatenated DEF Silent
<1>14. \A t \in IdTypes : OneEach(w \o z, t) /\ IdsOf(w \o z, t) \subseteq IdsOf(z, t)
  BY <1>12
<1>15. "tool_call" \in IdTypes /\ "tool_result" \in IdTypes
  BY DEF IdTypes
<1>16. IdsOf(w \o z, "tool_result") = {} /\ IdsOf(w \o z, "tool_call") \subseteq C
  BY <1>10, <1>14, <1>15
<1> QED BY <1>3, <1>13, <1>14, <1>16 DEF w, C

-----------------------------------------------------------------------------
(* The inductive invariant.                                                *)

\* In both lists of messages every call and every result is there once; what
\* the copy has answered the context has answered.
ContextInv ==
    /\ context \in Seq(MsgT) /\ copy \in Seq(MsgT) /\ message_id \in Nat /\ turn \in Nat
    /\ \A t \in IdTypes : Once(context, t) /\ Once(copy, t)
    /\ AllIds(copy, "tool_result") \subseteq AllIds(context, "tool_result")

AttemptOK ==
    /\ attempt \in [text: BOOLEAN, thinking: BOOLEAN, started: SUBSET Nat, ended: Seq(Nat)]
    /\ \A i, j \in 1..Len(attempt.ended) : attempt.ended[i] = attempt.ended[j] => i = j
    /\ \A i \in 1..Len(attempt.ended) : attempt.ended[i] \in attempt.started

\* The calls a run is about to store are not stored yet, and those it is about
\* to answer are not answered yet.
RunInv ==
    /\ AttemptOK /\ todo \in Seq(Nat) /\ denied \in Seq(Nat)
    /\ pc = "stream" => \A t \in IdTypes : attempt.started \cap AllIds(context, t) = {}
    /\ pc = "act" => \A i \in 1..Len(attempt.ended) : attempt.ended[i] \notin AllIds(context, "tool_result")
    /\ pc = "asking" => todo # << >>
    /\ pc = "acting" => Unsettled(todo, denied, context)
    /\ pc # "acting" => denied = << >>

ConvInv == ContextInv /\ RunInv

LEMMA ContextKept ==
    ASSUME ContextInv, message_id' \in Nat, turn' \in Nat,
           NEW C, NEW R, Grows(context, context', C, R), NEW D, NEW S, Grows(copy, copy', D, S),
           C \cap AllIds(context, "tool_call") = {}, R \cap AllIds(context, "tool_result") = {},
           D \cap AllIds(copy, "tool_call") = {}, S \cap AllIds(copy, "tool_result") = {},
           S \subseteq AllIds(context', "tool_result")
    PROVE  /\ ContextInv'
           /\ AllIds(context', "tool_call") \subseteq AllIds(context, "tool_call") \cup C
           /\ AllIds(context', "tool_result") \subseteq AllIds(context, "tool_result") \cup R
<1>1. /\ Once(context, "tool_call") /\ Once(copy, "tool_call") /\ Once(context, "tool_result") /\ Once(copy, "tool_result")
      /\ AllIds(copy, "tool_result") \subseteq AllIds(context, "tool_result")
  BY DEF ContextInv, IdTypes
<1>2. /\ context' \in Seq(MsgT) /\ Once(context', "tool_call")
      /\ AllIds(context', "tool_call") \subseteq AllIds(context, "tool_call") \cup C
  BY <1>1 DEF Grows, Grown
<1>3. /\ Once(context', "tool_result") /\ AllIds(context, "tool_result") \subseteq AllIds(context', "tool_result")
      /\ AllIds(context', "tool_result") \subseteq AllIds(context, "tool_result") \cup R
  BY <1>1 DEF Grows, Grown
<1>4. copy' \in Seq(MsgT) /\ Once(copy', "tool_call")
  BY <1>1 DEF Grows, Grown
<1>5. Once(copy', "tool_result") /\ AllIds(copy', "tool_result") \subseteq AllIds(copy, "tool_result") \cup S
  BY <1>1 DEF Grows, Grown
<1> QED BY <1>1, <1>2, <1>3, <1>4, <1>5 DEF ContextInv, IdTypes

\* No call and no result is added.
LEMMA ContextGrown ==
    ASSUME ContextInv, message_id' \in Nat, turn' \in Nat,
           Grows(context, context', {}, {}), Grows(copy, copy', {}, {})
    PROVE  ContextInv' /\ \A t \in IdTypes : AllIds(context', t) \subseteq AllIds(context, t)
<1> QED BY ContextKept DEF IdTypes

LEMMA GrowsNothing == ASSUME NEW ms \in Seq(MsgT), NEW C, NEW R PROVE Grows(ms, ms, C, R)
BY GrownNothing DEF Grows

LEMMA GrowsSilent ==
    ASSUME NEW ms \in Seq(MsgT), NEW m \in MsgT, Silent(m.content)
    PROVE  Grows(ms, Append(ms, m), {}, {})
<1>1. ASSUME NEW t \in IdTypes PROVE Grown(ms, Append(ms, m), t, {})
  <2>1. OneEach(m.content, t) /\ IdsOf(m.content, t) = {}
    BY DEF Silent
  <2>2. Grown(ms, Append(ms, m), t, IdsOf(m.content, t))
    BY <2>1, GrownAppend
  <2> QED BY <2>1, <2>2
<1> QED BY <1>1 DEF Grows, IdTypes

LEMMA GrowsUser ==
    ASSUME NEW ms \in Seq(MsgT)
    PROVE  Append(ms, User) \in Seq(MsgT) /\ Grows(ms, Append(ms, User), {}, {})
<1>1. User \in MsgT /\ Silent(User.content)
  BY UserTyped, MsgFields DEF Silent
<1> QED BY <1>1, GrowsSilent

LEMMA GrowsReply ==
    ASSUME NEW ms \in Seq(MsgT), NEW id \in Nat, NEW bs \in Seq(BlockT), \A t \in IdTypes : OneEach(bs, t)
    PROVE  /\ Grows(ms, AppendReplyBlocks(ms, id, bs), IdsOf(bs, "tool_call"), IdsOf(bs, "tool_result"))
           /\ IdsOf(bs, "tool_result") \subseteq AllIds(AppendReplyBlocks(ms, id, bs), "tool_result")
BY ReplyBlocksKept DEF Grows, IdTypes

LEMMA GrowsHint ==
    ASSUME NEW ms \in Seq(MsgT), NEW id \in Nat
    PROVE  Grows(ms, AppendReplyBlocks(ms, id, <<Hint>>), {}, {})
<1> DEFINE bs == <<Hint>>
<1>1. Silent(bs)
  BY BlocksTyped, BlocksAre, SilentBlock DEF IdTypes
<1> HIDE DEF bs
<1>2. bs \in Seq(BlockT) /\ \A t \in IdTypes : OneEach(bs, t) /\ IdsOf(bs, t) = {}
  BY <1>1 DEF Silent
<1>3. Grows(ms, AppendReplyBlocks(ms, id, bs), {}, {})
  BY <1>2, GrowsReply DEF IdTypes
<1> QED BY <1>3 DEF bs

LEMMA GrowsState ==
    ASSUME NEW ms \in Seq(MsgT), NEW c, NEW state \in BlockStates
    PROVE  Grows(ms, SetToolCallState(ms, c, state), {}, {})
BY CallStateKept DEF Grows

LEMMA GrowsThen ==
    ASSUME NEW a, NEW b, NEW c, NEW C, NEW R, Grows(a, b, {}, {}), Grows(b, c, C, R)
    PROVE  Grows(a, c, C, R)
BY GrownThen DEF Grows

-----------------------------------------------------------------------------
(* Every action keeps the invariant.                                       *)

LEMMA TwoAppended ==
    ASSUME NEW T, NEW s \in Seq(T), NEW a \in T, NEW b \in T
    PROVE  s \o <<a, b>> = Append(Append(s, a), b)
<1> DEFINE x == s \o <<a, b>>
           y == Append(Append(s, a), b)
<1>1. Len(s) \in Nat /\ x \in Seq(T) /\ y \in Seq(T) /\ Len(x) = Len(s) + 2 /\ Len(y) = Len(s) + 2
  OBVIOUS
<1>2. ASSUME NEW i \in 1..(Len(s) + 2) PROVE x[i] = y[i]
  <2>1. CASE i \in 1..Len(s)
    BY <2>1
  <2>2. CASE i = Len(s) + 1
    BY <2>2
  <2>3. CASE i = Len(s) + 2
    BY <2>3
  <2> QED BY <1>1, <2>1, <2>2, <2>3
<1> HIDE DEF x, y
<1>3. x = [i \in 1..(Len(s) + 2) |-> x[i]] /\ y = [i \in 1..(Len(s) + 2) |-> y[i]]
  BY <1>1
<1> QED BY <1>2, <1>3 DEF x, y

LEMMA CallsAreNat == Calls \subseteq Nat
<1>1. MaxCalls \in {MaxCalls, MaxTurns, MaxUsers, MaxHints, MaxCrashes}
  OBVIOUS
<1>2. MaxCalls \in Nat
  BY ONLY <1>1, ConversationBounds
<1> QED BY <1>2 DEF Calls

LEMMA FreshTyped == ASSUME ContextInv PROVE FreshId \in Nat
BY FreshIdTyped DEF ContextInv

LEMMA InitInv == Init => ConvInv
<1> SUFFICES ASSUME Init PROVE ConvInv
  OBVIOUS
<1>1. << >> \in Seq(MsgT) /\ << >> \in Seq(Nat) /\ Len(<< >>) = 0
  OBVIOUS
<1>2. \A t : Once(<< >>, t) /\ AllIds(<< >>, t) = {}
  BY <1>1 DEF Once, AllIds
<1>3. ContextInv
  BY <1>1, <1>2 DEF ContextInv, Init
<1>4. AttemptOK
  BY <1>1 DEF AttemptOK, Init, NoAttempt
<1>5. RunInv
  BY <1>1, <1>4 DEF RunInv, Init
<1> QED BY <1>3, <1>5 DEF ConvInv

LEMMA StutterInv == ASSUME ConvInv, UNCHANGED vars PROVE ConvInv'
BY DEF ConvInv, ContextInv, RunInv, AttemptOK, vars, run, counters

\* A step that leaves the messages alone.
LEMMA ContextSame ==
    ASSUME ContextInv, UNCHANGED <<context, copy, message_id>>, turn' \in Nat
    PROVE  ContextInv'
BY DEF ContextInv

LEMMA NoAttemptOK == ASSUME attempt' = NoAttempt PROVE AttemptOK' /\ attempt'.started = {} /\ attempt'.ended = << >>
<1>1. << >> \in Seq(Nat) /\ Len(<< >>) = 0
  OBVIOUS
<1> QED BY <1>1 DEF AttemptOK, NoAttempt

LEMMA NewReplyInv == ASSUME ConvInv, NewReply PROVE ConvInv'
<1>1. context \in Seq(MsgT) /\ copy \in Seq(MsgT) /\ FreshId \in Nat /\ turn' \in Nat
  BY FreshTyped DEF ConvInv, ContextInv, NewReply
<1>2. Grows(context, context', {}, {})
  BY <1>1, GrowsUser DEF NewReply
<1>3. Grows(copy, copy', {}, {})
  <2> DEFINE m == Msg("assistant", FreshId, << >>)
             c == Append(copy, User)
  <2>1. c \in Seq(MsgT) /\ Grows(copy, c, {}, {})
    BY <1>1, GrowsUser
  <2>2. m \in MsgT /\ m.content = << >>
    <3>1. << >> \in Seq(BlockT)
      OBVIOUS
    <3> QED BY <1>1, <3>1, FreshMsg
  <2>3. Grows(c, Append(c, m), {}, {})
    <3>1. Silent(m.content)
      BY <2>2, SilentNone
    <3> HIDE DEF c, m
    <3> QED BY <2>1, <2>2, <3>1, GrowsSilent
  <2>4. copy \o <<User, m>> = Append(c, m)
    <3> HIDE DEF m
    <3> QED BY <1>1, <2>2, UserTyped, TwoAppended
  <2>5. copy' = IF Host = "reply start" THEN copy \o <<User, m>> ELSE c
    BY DEF NewReply
  <2> HIDE DEF c, m
  <2>6. Grows(copy, Append(c, m), {}, {})
    BY <2>1, <2>3, GrowsThen
  <2> QED BY <2>1, <2>4, <2>5, <2>6
<1>4. ContextInv' /\ \A t \in IdTypes : AllIds(context', t) \subseteq AllIds(context, t)
  BY <1>1, <1>2, <1>3, ContextGrown DEF ConvInv, NewReply
<1>5. AttemptOK'
  BY DEF ConvInv, RunInv, AttemptOK, NewReply
<1> QED BY <1>4, <1>5 DEF ConvInv, RunInv, NewReply

LEMMA ReasonInv == ASSUME ConvInv, NEW steered \in BOOLEAN, Reason(steered) PROVE ConvInv'
<1>1. context \in Seq(MsgT) /\ copy \in Seq(MsgT) /\ FreshId \in Nat /\ turn' \in Nat /\ message_id' \in Nat
  BY FreshTyped DEF ConvInv, ContextInv, Reason
<1>2. Grows(context, context', {}, {}) /\ Grows(copy, copy', {}, {})
  BY <1>1, GrowsUser, GrowsNothing DEF Reason
<1>3. ContextInv'
  BY <1>1, <1>2, ContextGrown DEF ConvInv
<1>4. AttemptOK' /\ attempt'.started = {}
  BY NoAttemptOK DEF Reason
<1> QED BY <1>3, <1>4 DEF ConvInv, RunInv, Reason

LEMMA SpeakInv == ASSUME ConvInv, NEW kind \in {"text", "thinking"}, Speak(kind) PROVE ConvInv'
<1>1. context \in Seq(MsgT) /\ copy \in Seq(MsgT) /\ message_id \in Nat /\ turn \in Nat
  BY DEF ConvInv, ContextInv
<1> DEFINE b == IF kind = "text" THEN Text(turn) ELSE Thinking(turn)
           es == <<[type |-> "BLOCK_START", block |-> b], [type |-> "BLOCK_DELTA", block |-> b]>>
<1>2. copy' = Deliver(copy, message_id, es)
  BY DEF Speak, Emits
<1>3. b \in BlockT /\ b.type \in {"text", "thinking"}
  BY <1>1, BlocksTyped, BlocksAre
<1>4. Leads(es, {}, {})
  <2> HIDE DEF b
  <2> QED BY <1>3, TextLeads
<1> HIDE DEF es, b
<1>5. Grows(copy, copy', {}, {})
  BY <1>1, <1>2, <1>4, Delivered
<1>6. ContextInv' /\ \A t \in IdTypes : AllIds(context', t) \subseteq AllIds(context, t)
  BY <1>1, <1>5, GrowsNothing, ContextGrown DEF ConvInv, Speak, counters
<1>7. AttemptOK' /\ attempt'.started = attempt.started /\ attempt'.ended = attempt.ended
  <2>1. AttemptOK /\ attempt' = [attempt EXCEPT ![kind] = TRUE]
    BY DEF ConvInv, RunInv, Speak
  <2>2. CASE kind = "text"
    BY <2>1, <2>2 DEF AttemptOK
  <2>3. CASE kind = "thinking"
    BY <2>1, <2>3 DEF AttemptOK
  <2> QED BY <2>2, <2>3
<1> QED BY <1>6, <1>7 DEF ConvInv, RunInv, Speak

LEMMA CallStartsInv == ASSUME ConvInv, CallStarts PROVE ConvInv'
<1>1. context \in Seq(MsgT) /\ copy \in Seq(MsgT) /\ message_id \in Nat /\ turn \in Nat
  BY DEF ConvInv, ContextInv
<1>2. PICK c \in Calls \ Made : /\ Emits(<<[type |-> "TOOL_CALL_START", id |-> c, turn |-> turn]>>)
                               /\ attempt' = [attempt EXCEPT !.started = @ \cup {c}]
  BY DEF CallStarts
<1>3. c \in Nat /\ c \notin Made
  BY <1>2, CallsAreNat
<1>4. \A t \in IdTypes : c \notin AllIds(context, t) /\ c \notin AllIds(copy, t)
  BY <1>1, <1>3, MadeKnown
<1>5. Grows(copy, copy', {c}, {})
  <2> DEFINE es == <<[type |-> "TOOL_CALL_START", id |-> c, turn |-> turn]>>
  <2>1. Leads(es, {c}, {})
    BY <1>1, <1>3, CallLeads
  <2>2. copy' = Deliver(copy, message_id, es)
    BY <1>2 DEF Emits
  <2> HIDE DEF es
  <2> QED BY <1>1, <2>1, <2>2, Delivered
<1>6. ContextInv'
  <2>1. /\ UNCHANGED <<context, message_id, turn>> /\ ContextInv
        /\ Grows(context, context', {}, {})
    BY <1>1, GrowsNothing DEF ConvInv, CallStarts, counters
  <2>2. {c} \cap AllIds(copy, "tool_call") = {}
    BY <1>4 DEF IdTypes
  <2> DEFINE D == {c}
  <2> HIDE DEF D
  <2>3. Grows(copy, copy', D, {}) /\ D \cap AllIds(copy, "tool_call") = {}
    BY <1>5, <2>2 DEF D
  <2> QED BY <1>1, <2>1, <2>3, ContextKept
<1>7. AttemptOK' /\ attempt'.started = attempt.started \cup {c} /\ attempt'.ended = attempt.ended
  <2>1. AttemptOK
    BY DEF ConvInv, RunInv
  <2> QED BY <1>2, <1>3, <2>1 DEF AttemptOK
<1>8. \A t \in IdTypes : attempt'.started \cap AllIds(context', t) = {}
  BY <1>4, <1>7 DEF ConvInv, RunInv, CallStarts
<1> QED BY <1>6, <1>7, <1>8 DEF ConvInv, RunInv, CallStarts

LEMMA CallEndsInv == ASSUME ConvInv, NEW c \in Calls, CallEnds(c) PROVE ConvInv'
<1> DEFINE s == attempt.ended
<1>1. AttemptOK /\ s \in Seq(Nat) /\ Len(s) \in Nat /\ c \in Nat
  <2>1. AttemptOK /\ s \in Seq(Nat)
    BY DEF ConvInv, RunInv, AttemptOK
  <2>2. c \in Nat
    BY CallsAreNat
  <2> HIDE DEF s
  <2> QED BY <2>1, <2>2
<1>2. c \in attempt.started /\ c \notin Range(s) /\ attempt' = [attempt EXCEPT !.ended = Append(@, c)]
  BY DEF CallEnds
<1>3. \A i \in 1..Len(s) : s[i] # c
  BY <1>1, <1>2 DEF Range
<1>4. attempt'.ended = Append(s, c) /\ attempt'.started = attempt.started
  BY <1>1, <1>2 DEF AttemptOK
<1>5. AttemptOK'
  <2> DEFINE r == Append(s, c)
  <2>1. /\ r \in Seq(Nat) /\ Len(r) = Len(s) + 1 /\ r[Len(s) + 1] = c
        /\ \A i \in 1..Len(s) : r[i] = s[i]
    BY <1>1
  <2>2. \A i \in 1..Len(r) : i \in 1..Len(s) \/ i = Len(s) + 1
    BY <1>1, <2>1
  <2> HIDE DEF r
  <2>3. \A i, j \in 1..Len(r) : r[i] = r[j] => i = j
    BY <1>1, <1>3, <2>1, <2>2 DEF AttemptOK
  <2>4. \A i \in 1..Len(r) : r[i] \in attempt.started
    BY <1>1, <1>2, <2>1, <2>2 DEF AttemptOK
  <2>5. attempt'.ended = r
    BY <1>4 DEF r
  <2>6. attempt' \in [text: BOOLEAN, thinking: BOOLEAN, started: SUBSET Nat, ended: Seq(Nat)]
    BY <1>1, <1>2, <2>1, <2>5 DEF AttemptOK, r
  <2> QED BY <1>4, <2>3, <2>4, <2>5, <2>6 DEF AttemptOK
<1>6. ContextInv'
  BY ContextSame DEF ConvInv, ContextInv, CallEnds, counters
<1> QED BY <1>4, <1>5, <1>6 DEF ConvInv, RunInv, CallEnds

LEMMA FinishInv == ASSUME ConvInv, NEW cut \in BOOLEAN, NEW reported, pc = "stream", Finish(cut, reported) PROVE ConvInv'
<1> DEFINE calls == IF cut THEN << >> ELSE attempt.ended
           bs == Stored(calls)
           K == IdsOf(bs, "tool_call")
<1>1. context \in Seq(MsgT) /\ copy \in Seq(MsgT) /\ message_id \in Nat /\ turn \in Nat /\ AttemptOK
      /\ \A t \in IdTypes : attempt.started \cap AllIds(context, t) = {}
  BY DEF ConvInv, ContextInv, RunInv
<1>2. /\ context' = AppendReplyBlocks(context, message_id, bs)
      /\ pc' \in CASE calls # << >> -> {"act"}
                   [] calls = << >> /\ attempt.text -> {"exit"}
                   [] OTHER -> {"reason", "exit"}
      /\ attempt' = IF calls # << >> THEN attempt ELSE NoAttempt
      /\ copy' = Deliver(copy, message_id, ModelCallEnd(reported))
      /\ UNCHANGED <<message_id, todo, denied, turn>>
  BY DEF Finish, Emits, counters
<1>3. /\ calls \in Seq(Nat) /\ \A i, j \in 1..Len(calls) : calls[i] = calls[j] => i = j
      /\ \A i \in 1..Len(calls) : calls[i] \in attempt.started
  <2>1. CASE cut
    <3>1. calls = << >>
      BY <2>1
    <3> HIDE DEF calls
    <3> QED BY <3>1
  <2>2. CASE ~cut
    <3>1. calls = attempt.ended
      BY <2>2
    <3> HIDE DEF calls
    <3> QED BY <1>1, <3>1 DEF AttemptOK
  <2> QED BY <2>1, <2>2
<1>4. calls # << >> => calls = attempt.ended
  OBVIOUS
<1> HIDE DEF calls
<1>5. /\ bs \in Seq(BlockT) /\ \A t \in IdTypes : OneEach(bs, t)
      /\ IdsOf(bs, "tool_result") = {} /\ K \subseteq attempt.started
  <2>1. K \subseteq {calls[n] : n \in 1..Len(calls)}
    BY <1>1, <1>3, StoredTyped
  <2>2. K \subseteq attempt.started
    BY <1>3, <2>1
  <2> QED BY <1>1, <1>3, <2>2, StoredTyped
<1> HIDE DEF bs
<1>6. Grows(context, context', K, {})
  BY <1>1, <1>2, <1>5, GrowsReply
<1>7. Grows(copy, copy', {}, {})
  BY <1>1, <1>2, EndLeads, Delivered
<1> HIDE DEF K
<1>8. ContextInv' /\ AllIds(context', "tool_result") \subseteq AllIds(context, "tool_result")
  <2>1. K \cap AllIds(context, "tool_call") = {}
    BY <1>1, <1>5 DEF IdTypes
  <2>2. ContextInv /\ message_id' \in Nat /\ turn' \in Nat
    BY <1>1, <1>2 DEF ConvInv
  <2> QED BY <1>6, <1>7, <2>1, <2>2, ContextKept
<1>9. AttemptOK'
  <2>1. CASE calls # << >>
    <3>1. attempt' = attempt
      BY <1>2, <2>1
    <3> QED BY <1>1, <3>1 DEF AttemptOK
  <2>2. CASE calls = << >>
    BY <1>2, <2>2, NoAttemptOK
  <2> QED BY <2>1, <2>2
<1>10. pc' = "act" => \A i \in 1..Len(attempt'.ended) : attempt'.ended[i] \notin AllIds(context', "tool_result")
  <2> SUFFICES ASSUME pc' = "act" PROVE \A i \in 1..Len(attempt'.ended) : attempt'.ended[i] \notin AllIds(context', "tool_result")
    OBVIOUS
  <2>1. calls # << >>
    BY <1>2
  <2>2. attempt' = attempt
    BY <1>2, <2>1
  <2>3. \A i \in 1..Len(attempt.ended) : attempt.ended[i] \in attempt.started
    BY <1>1 DEF AttemptOK
  <2> QED BY <1>1, <1>8, <2>2, <2>3 DEF IdTypes
<1>11. pc' \in {"act", "exit", "reason"}
  BY <1>2
<1>12. todo \in Seq(Nat) /\ denied \in Seq(Nat) /\ denied = << >>
  BY DEF ConvInv, RunInv
<1> QED BY <1>2, <1>8, <1>9, <1>10, <1>11, <1>12 DEF ConvInv, RunInv

LEMMA FailInv == ASSUME ConvInv, NEW reported, Fail(reported) PROVE ConvInv'
<1> DEFINE bs == Stored(<< >>)
<1>1. context \in Seq(MsgT) /\ copy \in Seq(MsgT) /\ message_id \in Nat /\ turn \in Nat
  BY DEF ConvInv, ContextInv
<1>2. << >> \in Seq(Nat) /\ Len(<< >>) = 0
  OBVIOUS
<1>3. Silent(bs)
  <2> DEFINE e == << >>
  <2> HIDE DEF e
  <2>1. e \in Seq(Nat) /\ Len(e) = 0
    BY <1>2 DEF e
  <2>2. /\ Stored(e) \in Seq(BlockT) /\ \A t \in IdTypes : OneEach(Stored(e), t)
        /\ IdsOf(Stored(e), "tool_result") = {}
        /\ IdsOf(Stored(e), "tool_call") \subseteq {e[n] : n \in 1..Len(e)}
    <3>1. \A i, j \in 1..Len(e) : e[i] = e[j] => i = j
      BY <2>1
    <3> QED BY <1>1, <2>1, <3>1, StoredTyped
  <2>3. IdsOf(Stored(e), "tool_call") = {}
    BY <2>1, <2>2
  <2>4. Silent(Stored(e))
    BY <2>2, <2>3 DEF Silent, IdTypes
  <2> QED BY <2>4 DEF e
<1>4. /\ context' = AppendReplyBlocks(context, message_id, bs)
      /\ copy' = Deliver(copy, message_id, ModelCallEnd(reported))
  BY DEF Fail, Emits
<1>5. message_id' = message_id /\ turn' \in Nat
  <2>1. turn' = turn \/ turn' = turn + 1
    BY DEF Fail
  <2>2. message_id' = message_id
    BY DEF Fail
  <2> QED BY <1>1, <2>1, <2>2
<1> HIDE DEF bs
<1>6. Grows(context, context', {}, {})
  <2>1. bs \in Seq(BlockT) /\ \A t \in IdTypes : OneEach(bs, t) /\ IdsOf(bs, t) = {}
    BY <1>3 DEF Silent
  <2>2. IdsOf(bs, "tool_call") = {} /\ IdsOf(bs, "tool_result") = {}
    BY <2>1 DEF IdTypes
  <2> QED BY <1>1, <1>4, <2>1, <2>2, GrowsReply
<1>7. Grows(copy, copy', {}, {})
  BY <1>1, <1>4, EndLeads, Delivered
<1>8. ContextInv'
  BY <1>1, <1>5, <1>6, <1>7, ContextGrown DEF ConvInv
<1>9. AttemptOK' /\ attempt'.started = {}
  BY NoAttemptOK DEF Fail
<1>10. pc' \in {"stream", "exit"} /\ UNCHANGED <<todo, denied>> /\ pc = "stream"
  BY DEF Fail
<1> QED BY <1>8, <1>9, <1>10 DEF ConvInv, RunInv

\* The steps that leave the messages alone.
LEMMA IdleStepsInv ==
    ASSUME ConvInv, GiveUp \/ ReplyEnds \/ PassOver \/ BatchEnds \/ BatchCancelled
    PROVE  ConvInv'
<1>1. UNCHANGED <<context, copy, message_id, todo>> /\ turn' \in Nat
  BY DEF ConvInv, ContextInv, GiveUp, ReplyEnds, PassOver, BatchEnds, BatchCancelled, counters
<1>2. ContextInv'
  BY <1>1, ContextSame DEF ConvInv
<1>3. denied' = << >> /\ pc' \in {"exit", "idle", "reason"}
  BY DEF ConvInv, RunInv, GiveUp, ReplyEnds, PassOver, BatchEnds, BatchCancelled
<1>4. AttemptOK'
  <2>1. CASE attempt' = attempt
    BY <2>1 DEF ConvInv, RunInv, AttemptOK
  <2>2. CASE attempt' = NoAttempt
    BY <2>2, NoAttemptOK
  <2> QED BY <2>1, <2>2 DEF GiveUp, ReplyEnds, PassOver, BatchEnds, BatchCancelled
<1>5. << >> \in Seq(Nat)
  OBVIOUS
<1> QED BY <1>1, <1>2, <1>3, <1>4, <1>5 DEF ConvInv, RunInv

LEMMA ExecuteInv == ASSUME ConvInv, Execute PROVE ConvInv'
<1>1. UNCHANGED <<context, copy, message_id, denied>> /\ turn' \in Nat
  BY DEF ConvInv, ContextInv, Execute, counters
<1>2. ContextInv'
  BY <1>1, ContextSame DEF ConvInv
<1>3. AttemptOK /\ denied = << >> /\ \A i \in 1..Len(attempt.ended) : attempt.ended[i] \notin AllIds(context, "tool_result")
  BY DEF ConvInv, RunInv, Execute
<1>4. todo' = attempt.ended /\ pc' = "acting"
  BY DEF Execute
<1>5. todo' \in Seq(Nat) /\ Unsettled(todo', denied', context')
  <2>1. Len(<< >>) = 0
    OBVIOUS
  <2> QED BY <1>1, <1>3, <1>4, <2>1 DEF Unsettled, AttemptOK
<1>6. AttemptOK'
  BY NoAttemptOK DEF Execute
<1>7. denied \in Seq(Nat)
  BY DEF ConvInv, RunInv
<1> QED BY <1>1, <1>2, <1>4, <1>5, <1>6, <1>7 DEF ConvInv, RunInv

LEMMA AskAboutInv == ASSUME ConvInv, NEW asked, asked \subseteq Range(attempt.ended), AskAbout(asked) PROVE ConvInv'
<1> DEFINE s == attempt.ended
           P == {n \in DOMAIN s : s[n] \in asked}
           out == Select(s, P)
<1>1. UNCHANGED <<context, copy, message_id, denied>> /\ turn' \in Nat
  BY DEF ConvInv, ContextInv, AskAbout, counters
<1>2. ContextInv'
  BY <1>1, ContextSame DEF ConvInv
<1>3. s \in Seq(Nat) /\ denied = << >> /\ denied \in Seq(Nat)
  BY DEF ConvInv, RunInv, AttemptOK, AskAbout
<1>4. todo' = out /\ pc' = "asking" /\ asked # {}
  BY DEF AskAbout
<1>5. out \in Seq(Nat) /\ \E row : SelectedFrom(row, out, s, P)
  BY <1>3, SelectPlaces
<1>6. PICK n \in 1..Len(s) : n \in P
  <2>1. PICK c \in asked : c \in Range(s)
    BY <1>4
  <2>2. PICK n \in DOMAIN s : s[n] = c
    BY <2>1 DEF Range
  <2>3. DOMAIN s = 1..Len(s)
    BY <1>3
  <2> QED BY <2>1, <2>2, <2>3
<1> HIDE DEF out, P
<1>7. out # << >>
  <2>1. PICK row : SelectedFrom(row, out, s, P)
    BY <1>5
  <2>2. PICK k \in 1..Len(out) : row[k] = n
    BY <1>6, <2>1 DEF SelectedFrom
  <2> QED BY <1>5, <2>2
<1>8. AttemptOK'
  BY NoAttemptOK DEF AskAbout
<1> QED BY <1>1, <1>2, <1>3, <1>4, <1>5, <1>7, <1>8 DEF ConvInv, RunInv

LEMMA AskInv == ASSUME ConvInv, Ask PROVE ConvInv'
<1> DEFINE c == Head(todo)
           e == [type |-> "REQUIRE_USER_CONFIRM", id |-> c]
           es == <<e>>
<1>1. context \in Seq(MsgT) /\ copy \in Seq(MsgT) /\ message_id \in Nat /\ turn \in Nat
  BY DEF ConvInv, ContextInv
<1>2. todo \in Seq(Nat) /\ todo # << >> /\ pc = "asking" /\ denied = << >> /\ denied \in Seq(Nat) /\ AttemptOK
  BY DEF ConvInv, RunInv, Ask
<1>3. c \in Nat /\ Tail(todo) \in Seq(Nat)
  BY <1>2
<1>4. Leads(es, {}, {})
  <2>1. e \in EventT /\ e.type = "REQUIRE_USER_CONFIRM"
    BY <1>3, EventsTyped
  <2> HIDE DEF e
  <2> QED BY <2>1, OneEvent
<1>5. context' = SetToolCallState(context, c, "ASKING") /\ copy' = Deliver(copy, message_id, es)
  BY DEF Ask, Emits
<1>6. /\ UNCHANGED <<message_id, turn, attempt, denied>> /\ todo' = Tail(todo)
      /\ pc' = IF Tail(todo) = << >> THEN "paused" ELSE pc
  BY DEF Ask, counters
<1> HIDE DEF c, es
<1>7. Grows(context, context', {}, {})
  <2>1. "ASKING" \in BlockStates
    BY DEF BlockStates
  <2> QED BY <1>1, <1>5, <2>1, GrowsState
<1>8. Grows(copy, copy', {}, {})
  BY <1>1, <1>4, <1>5, Delivered
<1>9. ContextInv'
  BY <1>1, <1>6, <1>7, <1>8, ContextGrown DEF ConvInv
<1>10. AttemptOK'
  BY <1>2, <1>6 DEF AttemptOK
<1> QED BY <1>2, <1>3, <1>6, <1>9, <1>10 DEF ConvInv, RunInv

\* The result of a call that has none is written, to the context and to the
\* copy.
LEMMA AnswersInv ==
    ASSUME ContextInv, NEW c \in Nat, NEW state \in {"SUCCESS", "DENIED"}, NEW text, Answers(c, state, text),
           c \notin AllIds(context, "tool_result"), message_id' = message_id, turn' = turn
    PROVE  /\ ContextInv'
           /\ AllIds(context', "tool_result") \subseteq AllIds(context, "tool_result") \cup {c}
<1> DEFINE b == Result(c, state)
           bs == <<b>>
           es == ResultEvents(c, state, text)
           mid == SetToolCallState(context, c, "FINISHED")
           R == {c}
<1>1. context \in Seq(MsgT) /\ copy \in Seq(MsgT) /\ message_id \in Nat /\ turn \in Nat
      /\ AllIds(copy, "tool_result") \subseteq AllIds(context, "tool_result")
  BY DEF ContextInv
<1>2. state \in BlockStates /\ "FINISHED" \in BlockStates
  BY DEF BlockStates
<1>3. b \in BlockT /\ b.type = "tool_result" /\ b.id = c
  BY <1>2, BlocksTyped, BlocksAre
<1>4. context' = AppendReplyBlocks(mid, message_id, bs) /\ copy' = Deliver(copy, message_id, es)
  BY DEF Answers, Emits
<1> HIDE DEF b, es, mid
<1>5. /\ bs \in Seq(BlockT) /\ \A t \in IdTypes : OneEach(bs, t)
      /\ IdsOf(bs, "tool_call") = {} /\ IdsOf(bs, "tool_result") = R
  BY <1>3, OneBlock DEF IdIf
<1> HIDE DEF bs
<1>6. mid \in Seq(MsgT) /\ Grows(context, mid, {}, {})
  <2>1. Grows(context, mid, {}, {})
    BY <1>1, <1>2, GrowsState DEF mid
  <2> QED BY <2>1 DEF Grows, Grown
<1>7. Grows(mid, context', {}, R) /\ R \subseteq AllIds(context', "tool_result")
  <2> DEFINE C == IdsOf(bs, "tool_call")
             S == IdsOf(bs, "tool_result")
  <2>1. Grows(mid, context', C, S) /\ S \subseteq AllIds(context', "tool_result")
    BY <1>1, <1>4, <1>5, <1>6, GrowsReply
  <2>2. C = {} /\ S = R
    BY <1>5
  <2> HIDE DEF C, S, R
  <2> QED BY <2>1, <2>2
<1>8. Grows(context, context', {}, R)
  BY <1>6, <1>7, GrowsThen
<1>9. Grows(copy, copy', {}, R)
  <2>1. Leads(es, {}, R)
    BY <1>2, ResultLeads DEF es
  <2> HIDE DEF R
  <2> QED BY <1>1, <1>4, <2>1, Delivered
<1>10. R \cap AllIds(context, "tool_result") = {} /\ R \cap AllIds(copy, "tool_result") = {}
  BY <1>1
<1> HIDE DEF R
<1>11. ContextInv' /\ AllIds(context', "tool_result") \subseteq AllIds(context, "tool_result") \cup R
  BY <1>1, <1>7, <1>8, <1>9, <1>10, ContextKept
<1> QED BY <1>11 DEF R

\* The first of a list of calls is answered.
LEMMA TailApart ==
    ASSUME NEW s \in Seq(Nat), s # << >>, \A i, j \in 1..Len(s) : s[i] = s[j] => i = j
    PROVE  /\ Head(s) \in Nat /\ Tail(s) \in Seq(Nat) /\ Head(s) = s[1] /\ 1 \in 1..Len(s)
           /\ \A i, j \in 1..Len(Tail(s)) : Tail(s)[i] = Tail(s)[j] => i = j
           /\ \A i \in 1..Len(Tail(s)) : Tail(s)[i] # Head(s) /\ i + 1 \in 1..Len(s) /\ Tail(s)[i] = s[i + 1]
<1> DEFINE r == Tail(s)
<1>1. /\ Len(s) \in Nat /\ Len(s) >= 1 /\ Head(s) = s[1] /\ Head(s) \in Nat
      /\ r \in Seq(Nat) /\ Len(r) = Len(s) - 1 /\ \A i \in 1..Len(r) : r[i] = s[i + 1]
  OBVIOUS
<1> HIDE DEF r
<1>2. \A i \in 1..Len(r) : i + 1 \in 1..Len(s) /\ i + 1 # 1
  BY <1>1
<1>3. 1 \in 1..Len(s)
  BY <1>1
<1>4. ASSUME NEW i \in 1..Len(r), NEW j \in 1..Len(r), r[i] = r[j] PROVE i = j
  <2>1. i + 1 = j + 1
    BY <1>1, <1>2, <1>4
  <2> QED BY <2>1
<1>5. ASSUME NEW i \in 1..Len(r) PROVE r[i] # Head(s)
  BY <1>1, <1>2, <1>3
<1> QED BY <1>1, <1>2, <1>3, <1>4, <1>5 DEF r

LEMMA WriteResultInv == ASSUME ConvInv, NEW hint \in BOOLEAN, WriteResult(hint) PROVE ConvInv'
<1> DEFINE c == Head(todo)
<1>1. /\ ContextInv /\ AttemptOK /\ todo \in Seq(Nat) /\ todo # << >> /\ denied \in Seq(Nat) /\ pc = "acting"
      /\ Unsettled(todo, denied, context)
  BY DEF ConvInv, RunInv, WriteResult
<1>2. /\ c \in Nat /\ Tail(todo) \in Seq(Nat) /\ c = todo[1] /\ 1 \in 1..Len(todo)
      /\ \A i, j \in 1..Len(Tail(todo)) : Tail(todo)[i] = Tail(todo)[j] => i = j
      /\ \A i \in 1..Len(Tail(todo)) : Tail(todo)[i] # c /\ i + 1 \in 1..Len(todo) /\ Tail(todo)[i] = todo[i + 1]
  BY <1>1, TailApart DEF Unsettled
<1>3. Answers(c, "SUCCESS", ~hint) /\ todo' = Tail(todo) /\ UNCHANGED <<pc, message_id, attempt, denied, turn>>
  BY DEF WriteResult
<1> HIDE DEF c
<1>4. c \notin AllIds(context, "tool_result") /\ \A j \in 1..Len(denied) : denied[j] # c
  BY <1>1, <1>2 DEF Unsettled
<1>5. ContextInv' /\ AllIds(context', "tool_result") \subseteq AllIds(context, "tool_result") \cup {c}
  <2>1. "SUCCESS" \in {"SUCCESS", "DENIED"}
    OBVIOUS
  <2> QED BY <1>1, <1>2, <1>3, <1>4, <2>1, AnswersInv
<1>6. Unsettled(Tail(todo), denied, context')
  BY <1>1, <1>2, <1>4, <1>5 DEF Unsettled
<1>7. AttemptOK'
  BY <1>1, <1>3 DEF AttemptOK
<1> QED BY <1>1, <1>2, <1>3, <1>5, <1>6, <1>7 DEF ConvInv, RunInv

LEMMA WriteDeniedInv == ASSUME ConvInv, WriteDenied PROVE ConvInv'
<1> DEFINE c == Head(denied)
<1>1. /\ ContextInv /\ AttemptOK /\ todo \in Seq(Nat) /\ todo = << >> /\ denied \in Seq(Nat) /\ denied # << >>
      /\ pc = "acting" /\ Unsettled(todo, denied, context)
  BY DEF ConvInv, RunInv, WriteDenied
<1>2. /\ c \in Nat /\ Tail(denied) \in Seq(Nat) /\ c = denied[1] /\ 1 \in 1..Len(denied)
      /\ \A i, j \in 1..Len(Tail(denied)) : Tail(denied)[i] = Tail(denied)[j] => i = j
      /\ \A i \in 1..Len(Tail(denied)) : Tail(denied)[i] # c /\ i + 1 \in 1..Len(denied) /\ Tail(denied)[i] = denied[i + 1]
  BY <1>1, TailApart DEF Unsettled
<1>3. Answers(c, "DENIED", TRUE) /\ denied' = Tail(denied) /\ UNCHANGED <<pc, message_id, attempt, todo, turn>>
  BY DEF WriteDenied, counters
<1> HIDE DEF c
<1>4. c \notin AllIds(context, "tool_result")
  BY <1>1, <1>2 DEF Unsettled
<1>5. ContextInv' /\ AllIds(context', "tool_result") \subseteq AllIds(context, "tool_result") \cup {c}
  <2>1. "DENIED" \in {"SUCCESS", "DENIED"}
    OBVIOUS
  <2> QED BY <1>1, <1>2, <1>3, <1>4, <2>1, AnswersInv
<1>6. Unsettled(todo, Tail(denied), context')
  <2>1. Len(todo) = 0
    BY <1>1
  <2> QED BY <1>1, <1>2, <1>4, <1>5, <2>1 DEF Unsettled
<1>7. AttemptOK'
  BY <1>1, <1>3 DEF AttemptOK
<1> QED BY <1>1, <1>2, <1>3, <1>5, <1>6, <1>7 DEF ConvInv, RunInv

\* A hint is written.
LEMMA HintGrows ==
    ASSUME ContextInv, context' = AppendReplyBlocks(context, message_id, <<Hint>>),
           Emits(<<[type |-> "HINT_BLOCK"]>>), message_id' = message_id, turn' = turn
    PROVE  ContextInv' /\ \A t \in IdTypes : AllIds(context', t) \subseteq AllIds(context, t)
<1> DEFINE e == [type |-> "HINT_BLOCK"]
           es == <<e>>
<1>1. context \in Seq(MsgT) /\ copy \in Seq(MsgT) /\ message_id \in Nat /\ turn \in Nat
  BY DEF ContextInv
<1>2. Leads(es, {}, {})
  <2>1. e \in EventT /\ e.type = "HINT_BLOCK"
    BY EventsTyped
  <2> HIDE DEF e
  <2> QED BY <2>1, OneEvent
<1>3. copy' = Deliver(copy, message_id, es)
  BY DEF Emits
<1> HIDE DEF es
<1>4. Grows(copy, copy', {}, {})
  BY <1>1, <1>2, <1>3, Delivered
<1>5. Grows(context, context', {}, {})
  BY <1>1, GrowsHint
<1> QED BY <1>1, <1>4, <1>5, ContextGrown

LEMMA WriteHintInv == ASSUME ConvInv, WriteHint PROVE ConvInv'
<1>1. /\ ContextInv /\ AttemptOK /\ todo \in Seq(Nat) /\ denied \in Seq(Nat) /\ pc = "acting"
      /\ Unsettled(todo, denied, context)
  BY DEF ConvInv, RunInv, WriteHint
<1>2. UNCHANGED <<pc, message_id, attempt, todo, denied, turn>>
  BY DEF WriteHint, counters
<1>3. ContextInv' /\ AllIds(context', "tool_result") \subseteq AllIds(context, "tool_result")
  BY <1>1, <1>2, HintGrows DEF WriteHint, IdTypes
<1>4. Unsettled(todo, denied, context')
  BY <1>1, <1>3 DEF Unsettled
<1>5. AttemptOK'
  BY <1>1, <1>2 DEF AttemptOK
<1> QED BY <1>1, <1>2, <1>3, <1>4, <1>5 DEF ConvInv, RunInv

LEMMA ContinueTurnInv == ASSUME ConvInv, ContinueTurn PROVE ConvInv'
<1>1. ContextInv /\ AttemptOK /\ todo \in Seq(Nat) /\ denied \in Seq(Nat) /\ denied = << >>
  BY DEF ConvInv, RunInv, ContinueTurn
<1>2. UNCHANGED <<message_id, attempt, todo, denied, turn>> /\ pc' = "reason"
  BY DEF ContinueTurn
<1>3. ContextInv'
  BY <1>1, <1>2, HintGrows DEF ContinueTurn
<1>4. AttemptOK'
  BY <1>1, <1>2 DEF AttemptOK
<1> QED BY <1>1, <1>2, <1>3, <1>4 DEF ConvInv, RunInv

\* The process dies, and ms is what the host has.
LEMMA DiesInv ==
    ASSUME ConvInv, NEW ms, NEW R, Grows(copy, ms, {}, R), R \cap AllIds(copy, "tool_result") = {}, Dies(ms)
    PROVE  ConvInv'
<1>1. turn \in Nat /\ Once(copy, "tool_call") /\ Once(copy, "tool_result")
  BY DEF ConvInv, ContextInv, IdTypes
<1>2. ms \in Seq(MsgT) /\ Once(ms, "tool_call") /\ Once(ms, "tool_result")
  BY <1>1 DEF Grows, Grown
<1>3. context' = ms /\ copy' = ms /\ message_id' = 0 /\ turn' = turn
  BY DEF Dies
<1>4. ContextInv'
  BY <1>1, <1>2, <1>3 DEF ContextInv, IdTypes
<1>5. AttemptOK' /\ << >> \in Seq(Nat)
  <2>1. AttemptOK'
    BY NoAttemptOK DEF Dies
  <2>2. << >> \in Seq(Nat)
    OBVIOUS
  <2> QED BY <2>1, <2>2
<1>6. pc' = "idle" /\ todo' = << >> /\ denied' = << >>
  BY DEF Dies
<1> QED BY <1>4, <1>5, <1>6 DEF ConvInv, RunInv

LEMMA CrashInv == ASSUME ConvInv, Crash PROVE ConvInv'
<1>1. copy \in Seq(MsgT)
  BY DEF ConvInv, ContextInv
<1>2. Grows(copy, copy, {}, {})
  BY <1>1, GrowsNothing
<1> QED BY <1>2, DiesInv DEF Crash

LEMMA CrashInResultInv == ASSUME ConvInv, CrashInResult PROVE ConvInv'
<1> DEFINE c == Head(todo)
           es == <<[type |-> "TOOL_RESULT_START", id |-> c]>>
           ms == Deliver(copy, message_id, es)
           R == {c}
<1>1. /\ copy \in Seq(MsgT) /\ message_id \in Nat
      /\ AllIds(copy, "tool_result") \subseteq AllIds(context, "tool_result")
  BY DEF ConvInv, ContextInv
<1>2. Unsettled(todo, denied, context) /\ todo \in Seq(Nat) /\ todo # << >>
  BY DEF ConvInv, RunInv, CrashInResult
<1>3. c \in Nat /\ c = todo[1] /\ 1 \in 1..Len(todo)
  BY <1>2
<1>4. Leads(es, {}, R)
  <2> HIDE DEF c
  <2> QED BY <1>3, StartLeads
<1>5. Dies(ms)
  BY DEF CrashInResult
<1> HIDE DEF c, es
<1>6. Grows(copy, ms, {}, R)
  <2> HIDE DEF R
  <2> QED BY <1>1, <1>4, Delivered
<1>7. R \cap AllIds(copy, "tool_result") = {}
  BY <1>1, <1>2, <1>3 DEF Unsettled
<1> HIDE DEF R, ms
<1> QED BY <1>5, <1>6, <1>7, DiesInv

\* An answer to a call that awaits one.
LEMMA ConfirmInv == ASSUME ConvInv, NEW c \in Calls, NEW approved \in BOOLEAN, Confirm(c, approved) PROVE ConvInv'
<1> DEFINE i == Min(Owners(context, c))
           owner == context[i]
           expected == IF approved THEN "ALLOWED" ELSE "FINISHED"
           confirmed == SetToolCallState(context, c, expected)
           waiting == PendingToolCalls(confirmed)
           allowed == {n \in DOMAIN waiting : waiting[n].state = "ALLOWED"}
           resumes == ToolCallsInState(confirmed, "ASKING") = {}
           e == [type |-> "USER_CONFIRM_RESULT", id |-> c, approved |-> approved]
           es == <<e>>
           a == Ids(Select(waiting, allowed))
           b == Ids(Select(waiting, DOMAIN waiting \ allowed))
<1>1. /\ ContextInv /\ AttemptOK /\ context \in Seq(MsgT) /\ copy \in Seq(MsgT) /\ turn \in Nat
      /\ Once(context, "tool_call")
  BY DEF ConvInv, RunInv, ContextInv, IdTypes
<1>2. Owners(context, c) # {} /\ pc \in {"paused", "idle"}
  BY DEF Confirm
<1>3. /\ context' = confirmed /\ copy' = Deliver(copy, owner.id, es) /\ message_id' = owner.id
      /\ pc' = IF resumes THEN "acting" ELSE "paused"
      /\ todo' = IF resumes THEN a ELSE << >>
      /\ denied' = IF resumes THEN b ELSE << >>
      /\ UNCHANGED <<attempt, turn>>
  BY DEF Confirm, counters
<1>4. owner.id \in Nat
  <2>1. Owners(context, c) \subseteq 1..Len(context)
    BY <1>1 DEF Owners
  <2>2. Owners(context, c) \subseteq Nat
    BY <2>1
  <2>3. i \in 1..Len(context)
    BY <1>2, <2>1, <2>2, MinIn
  <2> HIDE DEF i
  <2> QED BY <1>1, <2>3, MsgFields
<1>5. Leads(es, {}, {})
  <2>1. c \in Nat
    BY CallsAreNat
  <2>2. e \in EventT /\ e.type = "USER_CONFIRM_RESULT"
    BY <2>1, EventsTyped
  <2> HIDE DEF e
  <2> QED BY <2>2, OneEvent
<1>6. expected \in BlockStates
  BY DEF BlockStates
<1> HIDE DEF i, owner, expected, allowed, es, resumes
<1>7. Grows(context, context', {}, {})
  BY <1>1, <1>3, <1>6, GrowsState
<1>8. Grows(copy, copy', {}, {})
  BY <1>1, <1>3, <1>4, <1>5, Delivered
<1>9. ContextInv'
  BY <1>1, <1>3, <1>4, <1>7, <1>8, ContextGrown
<1>10. AttemptOK'
  BY <1>1, <1>3 DEF AttemptOK
<1>11. confirmed \in Seq(MsgT) /\ Once(confirmed, "tool_call")
  BY <1>3, <1>9 DEF ContextInv, IdTypes
<1>12. a \in Seq(Nat) /\ b \in Seq(Nat) /\ Unsettled(a, b, confirmed)
  <2> HIDE DEF confirmed
  <2> QED BY <1>11, PendingUnsettled
<1>13. << >> \in Seq(Nat)
  OBVIOUS
<1> HIDE DEF a, b, confirmed
<1>14. CASE resumes
  <2>1. pc' = "acting" /\ todo' = a /\ denied' = b
    BY <1>3, <1>14
  <2> QED BY <1>3, <1>9, <1>10, <1>12, <2>1 DEF ConvInv, RunInv
<1>15. CASE ~resumes
  <2>1. pc' = "paused" /\ todo' = << >> /\ denied' = << >>
    BY <1>3, <1>15
  <2> QED BY <1>9, <1>10, <1>13, <2>1 DEF ConvInv, RunInv
<1> QED BY <1>14, <1>15

LEMMA NextInv == ASSUME ConvInv, Next PROVE ConvInv'
<1>1. CASE NewReply
  BY <1>1, NewReplyInv
<1>2. CASE GiveUp \/ ReplyEnds \/ PassOver \/ BatchEnds \/ BatchCancelled
  BY <1>2, IdleStepsInv
<1>3. CASE ContinueTurn
  BY <1>3, ContinueTurnInv
<1>4. ASSUME NEW steered \in BOOLEAN, Reason(steered) PROVE ConvInv'
  BY <1>4, ReasonInv
<1>5. ASSUME NEW kind \in {"text", "thinking"}, Speak(kind) PROVE ConvInv'
  BY <1>5, SpeakInv
<1>6. CASE CallStarts
  BY <1>6, CallStartsInv
<1>7. ASSUME NEW c \in Calls, CallEnds(c) PROVE ConvInv'
  BY <1>7, CallEndsInv
<1>8. ASSUME NEW cut \in BOOLEAN, NEW reported \in Reports, Finish(cut, reported) PROVE ConvInv'
  <2>1. pc = "stream"
    BY <1>8 DEF Finish
  <2> QED BY <1>8, <2>1, FinishInv
<1>9. ASSUME NEW reported \in BOOLEAN, Fail(reported) PROVE ConvInv'
  BY <1>9, FailInv
<1>10. CASE Execute
  BY <1>10, ExecuteInv
<1>11. CASE Ask
  BY <1>11, AskInv
<1>12. ASSUME NEW asked \in SUBSET Calls, AskAbout(asked \cap Range(attempt.ended)) PROVE ConvInv'
  BY <1>12, AskAboutInv
<1>13. ASSUME NEW c \in Calls, NEW approved \in BOOLEAN, Confirm(c, approved) PROVE ConvInv'
  BY <1>13, ConfirmInv
<1>14. ASSUME NEW hint \in BOOLEAN, WriteResult(hint) PROVE ConvInv'
  BY <1>14, WriteResultInv
<1>15. CASE WriteHint
  BY <1>15, WriteHintInv
<1>16. CASE WriteDenied
  BY <1>16, WriteDeniedInv
<1>17. CASE Crash
  BY <1>17, CrashInv
<1>18. CASE CrashInResult
  BY <1>18, CrashInResultInv
<1> QED BY <1>1, <1>2, <1>3, <1>4, <1>5, <1>6, <1>7, <1>8, <1>9, <1>10, <1>11, <1>12, <1>13, <1>14, <1>15, <1>16,
           <1>17, <1>18 DEF Next

\* In every context a run builds, and in every copy, each call and each result
\* is there once, whatever was cut short.
THEOREM ConversationInvariant == Spec => []ConvInv
<1>1. Init => ConvInv
  BY InitInv
<1>2. ConvInv /\ [Next]_vars => ConvInv'
  BY NextInv, StutterInv
<1> QED BY <1>1, <1>2, PTL DEF Spec

\* normalize.py:47-49: every request pairs each call it holds with its result,
\* whatever the run, the host and the crashes were.
THEOREM RequestIsWellFormed == Spec => []RequestWellFormed
<1>1. ConvInv => RequestWellFormed
  <2> SUFFICES ASSUME ConvInv, NEW ms \in {context, copy}
               PROVE  ChatWellFormed(Request(ms)) /\ ResponsesWellFormed(ResponsesInput(Request(ms)))
    BY DEF RequestWellFormed
  <2>1. ms \in Seq(MsgT) /\ Once(ms, "tool_call")
    BY DEF ConvInv, ContextInv, IdTypes
  <2> QED BY <2>1, RequestPairs
<1> QED BY <1>1, ConversationInvariant, PTL

\* No call is answered twice, by a resumption after a crash in the middle of
\* its batch neither.
THEOREM NobodyAnsweredTwice == Spec => []AnsweredOnce
<1>1. ConvInv => AnsweredOnce
  <2> SUFFICES ASSUME ConvInv PROVE AnsweredOnce
    OBVIOUS
  <2> DEFINE bs == Blocks(context)
  <2>1. bs \in Seq(BlockT) /\ OneEach(bs, "tool_result")
    BY BlocksKnown DEF ConvInv, ContextInv, IdTypes
  <2> HIDE DEF bs
  <2>2. DOMAIN bs = 1..Len(bs)
    BY <2>1
  <2>3. \A i, j \in DOMAIN bs : bs[i].type = "tool_result" /\ bs[j] = bs[i] => i = j
    BY <2>1, <2>2 DEF OneEach
  <2> QED BY <2>3 DEF AnsweredOnce, bs
<1> QED BY <1>1, ConversationInvariant, PTL

-----------------------------------------------------------------------------
(* The calls that wait for an answer, and the messages that hold them.     *)

AskedIn(bs) == {c \in Nat : \E i \in 1..Len(bs) : bs[i].type = "tool_call" /\ bs[i].id = c /\ bs[i].state = "ASKING"}

Asked(ms) == {c \in Nat : \E i \in 1..Len(ms) : c \in AskedIn(ms[i].content)}

AskedIf(b) == IF b.type = "tool_call" /\ b.state = "ASKING" THEN {b.id} ELSE {}

\* The first message of a reply, the one a host delivers its events to.
First(ms, id, i) ==
    /\ i \in 1..Len(ms) /\ ms[i].role = "assistant" /\ ms[i].id = id
    /\ \A j \in 1..(i - 1) : ~(ms[j].role = "assistant" /\ ms[j].id = id)

Home(ms, id, c) == \E i \in 1..Len(ms) : First(ms, id, i) /\ c \in IdsOf(ms[i].content, "tool_call")

\* The calls of ms are found in ns under the id of their message.
Located(ms, ns) == \A i \in 1..Len(ms) : \A c \in IdsOf(ms[i].content, "tool_call") : Home(ns, ms[i].id, c)

LEMMA AskedAsCalls ==
    /\ \A bs : AskedIn(bs) \subseteq IdsOf(bs, "tool_call")
    /\ \A ms : Asked(ms) \subseteq AllIds(ms, "tool_call")
BY DEF AskedIn, IdsOf, Asked, AllIds

\* tool_calls_in_state(ASKING)
LEMMA AskingIsAsked ==
    ASSUME NEW ms \in Seq(MsgT)
    PROVE  ToolCallsInState(ms, "ASKING") = Asked(ms)
<1> DEFINE s == [i \in DOMAIN ms |-> ms[i].content]
           bs == Blocks(ms)
<1>1. bs = FlattenSeq(s)
  BY DEF Blocks
<1>2. DOMAIN ms = 1..Len(ms) /\ Len(ms) \in Nat /\ \A i \in 1..Len(ms) : ms[i] \in MsgT
  OBVIOUS
<1>3. \A i \in 1..Len(ms) : s[i] = ms[i].content
  BY <1>2
<1>4. s = [i \in 1..Len(ms) |-> s[i]]
  BY <1>2
<1>5. ToolCallsInState(ms, "ASKING") = {b.id : b \in {b \in Range(bs) : b.type = "tool_call" /\ b.state = "ASKING"}}
  BY DEF ToolCallsInState
<1> HIDE DEF s, bs
<1>6. \A i \in 1..Len(ms) : s[i] \in Seq(BlockT)
  BY <1>2, <1>3, MsgFields
<1>7. s \in Seq(Seq(BlockT)) /\ Len(s) = Len(ms)
  <2>1. s \in [1..Len(ms) -> Seq(BlockT)]
    BY <1>4, <1>6
  <2> QED BY <1>2, <2>1
<1>8. bs \in Seq(BlockT) /\ \E row, col : Places(row, col, bs, s)
  BY <1>1, <1>7, FlattenPlaces
<1>9. PICK row, col : Places(row, col, bs, s)
  BY <1>8
<1>10. /\ \A p \in 1..Len(bs) : row[p] \in 1..Len(ms) /\ col[p] \in 1..Len(s[row[p]]) /\ bs[p] = s[row[p]][col[p]]
       /\ \A i \in 1..Len(ms) : \A k \in 1..Len(s[i]) : \E p \in 1..Len(bs) : row[p] = i /\ col[p] = k
  BY <1>7, <1>9 DEF Places
<1>11. ASSUME NEW p \in 1..Len(bs), bs[p].type = "tool_call", bs[p].state = "ASKING" PROVE bs[p].id \in Asked(ms)
  <2>1. bs[p].id \in Nat
    BY <1>8, BlockFields
  <2>2. row[p] \in 1..Len(ms) /\ col[p] \in 1..Len(s[row[p]]) /\ bs[p] = s[row[p]][col[p]] /\ s[row[p]] = ms[row[p]].content
    BY <1>3, <1>10
  <2>3. bs[p].id \in AskedIn(ms[row[p]].content)
    BY <1>11, <2>1, <2>2 DEF AskedIn
  <2> QED BY <2>1, <2>2, <2>3 DEF Asked
<1>12. ASSUME NEW c \in Asked(ms)
       PROVE  \E p \in 1..Len(bs) : bs[p].type = "tool_call" /\ bs[p].state = "ASKING" /\ bs[p].id = c
  <2>1. PICK i \in 1..Len(ms) : c \in AskedIn(s[i])
    BY <1>3, <1>12 DEF Asked
  <2>2. PICK k \in 1..Len(s[i]) : s[i][k].type = "tool_call" /\ s[i][k].id = c /\ s[i][k].state = "ASKING"
    BY <2>1 DEF AskedIn
  <2>3. PICK p \in 1..Len(bs) : row[p] = i /\ col[p] = k
    BY <1>10
  <2>4. bs[p] = s[i][k]
    BY <1>10, <2>3
  <2> QED BY <2>2, <2>4
<1>13. Range(bs) = {bs[p] : p \in 1..Len(bs)}
  BY <1>8 DEF Range
<1>14. {b.id : b \in {b \in Range(bs) : b.type = "tool_call" /\ b.state = "ASKING"}} = Asked(ms)
  BY <1>11, <1>12, <1>13
<1> QED BY <1>5, <1>14

\* A message after its blocks changed, and the calls it asks about.
LEMMA FoundBlock ==
    ASSUME NEW m \in MsgT, NEW c, OneEach(m.content, "tool_call"), c \in IdsOf(m.content, "tool_call")
    PROVE  \E k \in 1..Len(m.content) : /\ FindBlock(m, "tool_call", c) = {k}
                                        /\ m.content[k].type = "tool_call" /\ m.content[k].id = c
<1> DEFINE bs == m.content
           at == {i \in DOMAIN bs : bs[i].type = "tool_call" /\ bs[i].id = c}
<1>1. bs \in Seq(BlockT) /\ DOMAIN bs = 1..Len(bs)
  BY MsgFields
<1>2. PICK k \in 1..Len(bs) : bs[k].type = "tool_call" /\ bs[k].id = c
  BY DEF IdsOf
<1>3. at = {k}
  BY <1>1, <1>2 DEF OneEach
<1>4. FindBlock(m, "tool_call", c) = IF at = {} THEN {} ELSE {Min(at)}
  BY DEF FindBlock
<1> HIDE DEF at, bs
<1>5. Min(at) = k
  <2>1. at \subseteq Nat /\ at # {}
    BY <1>1, <1>3
  <2>2. Min(at) \in at
    BY <2>1, MinIn
  <2> QED BY <1>3, <2>2
<1> QED BY <1>2, <1>3, <1>4, <1>5 DEF bs

\* What a change of state does to one block.
LEMMA StateSet ==
    ASSUME NEW m \in MsgT, NEW at, NEW state
    PROVE  LET n == SetState(m, at, state)
           IN  /\ n.role = m.role /\ n.id = m.id /\ Len(n.content) = Len(m.content)
               /\ \A i \in 1..Len(m.content) :
                    /\ n.content[i].type = m.content[i].type /\ n.content[i].id = m.content[i].id
                    /\ n.content[i].state = IF i \in at THEN state ELSE m.content[i].state
<1> DEFINE bs == m.content
           cs == [i \in DOMAIN bs |-> IF i \in at THEN [bs[i] EXCEPT !.state = state] ELSE bs[i]]
<1>1. bs \in Seq(BlockT) /\ DOMAIN bs = 1..Len(bs) /\ Len(bs) \in Nat
  BY MsgFields
<1>2. \A b \in BlockT : LET c == [b EXCEPT !.state = state] IN c.type = b.type /\ c.id = b.id /\ c.state = state
  BY DEF BlockT
<1>3. \A i \in 1..Len(bs) : /\ cs[i].type = bs[i].type /\ cs[i].id = bs[i].id
                            /\ cs[i].state = IF i \in at THEN state ELSE bs[i].state
  <2>1. \A i \in 1..Len(bs) : cs[i] = IF i \in at THEN [bs[i] EXCEPT !.state = state] ELSE bs[i]
    BY <1>1
  <2>2. \A i \in 1..Len(bs) : bs[i] \in BlockT
    BY <1>1
  <2> HIDE DEF cs
  <2> QED BY <1>2, <2>1, <2>2
<1>4. DOMAIN cs = 1..Len(bs)
  BY <1>1
<1>5. SetState(m, at, state) = [m EXCEPT !.content = cs]
  BY DEF SetState
<1> HIDE DEF cs
<1>6. Len(cs) = Len(bs)
  BY <1>1, <1>4
<1>7. LET n == [m EXCEPT !.content = cs] IN n.role = m.role /\ n.id = m.id /\ n.content = cs
  BY DEF MsgT
<1> HIDE DEF bs
<1> QED BY <1>3, <1>5, <1>6, <1>7 DEF bs

\* Only the call a change of state is about is asked about or not afterwards.
Marked(S, c, state) == (S \ {c}) \cup (IF state = "ASKING" THEN {c} ELSE {})

LEMMA CallMarked ==
    ASSUME NEW m \in MsgT, NEW c, NEW state, OneEach(m.content, "tool_call"), c \in IdsOf(m.content, "tool_call")
    PROVE  AskedIn(SetState(m, FindBlock(m, "tool_call", c), state).content) = Marked(AskedIn(m.content), c, state)
<1> DEFINE bs == m.content
           cs == SetState(m, FindBlock(m, "tool_call", c), state).content
<1>1. PICK k \in 1..Len(bs) : FindBlock(m, "tool_call", c) = {k} /\ bs[k].type = "tool_call" /\ bs[k].id = c
  BY FoundBlock
<1>2. /\ Len(cs) = Len(bs)
      /\ \A i \in 1..Len(bs) : /\ cs[i].type = bs[i].type /\ cs[i].id = bs[i].id
                               /\ cs[i].state = IF i = k THEN state ELSE bs[i].state
  BY <1>1, StateSet
<1>3. \A i \in 1..Len(bs) : bs[i].type = "tool_call" /\ bs[i].id = c => i = k
  BY <1>1 DEF OneEach
<1>4. c \in Nat
  BY DEF IdsOf
<1> HIDE DEF cs, bs
<1>5. ASSUME NEW d \in AskedIn(cs) PROVE d \in Marked(AskedIn(bs), c, state)
  <2>1. PICK i \in 1..Len(cs) : cs[i].type = "tool_call" /\ cs[i].id = d /\ cs[i].state = "ASKING"
    BY <1>5 DEF AskedIn
  <2>2. d \in Nat
    BY <1>5 DEF AskedIn
  <2>3. CASE i = k
    BY <1>1, <1>2, <2>1, <2>3 DEF Marked
  <2>4. CASE i # k
    BY <1>2, <1>3, <2>1, <2>2, <2>4 DEF Marked, AskedIn
  <2> QED BY <2>3, <2>4
<1>6. ASSUME NEW d \in Marked(AskedIn(bs), c, state) PROVE d \in AskedIn(cs)
  <2>1. CASE d \in AskedIn(bs) /\ d # c
    <3>1. PICK i \in 1..Len(bs) : bs[i].type = "tool_call" /\ bs[i].id = d /\ bs[i].state = "ASKING"
      BY <2>1 DEF AskedIn
    <3>2. i # k /\ d \in Nat
      BY <1>1, <2>1, <3>1 DEF AskedIn
    <3> QED BY <1>2, <3>1, <3>2 DEF AskedIn
  <2>2. CASE d = c /\ state = "ASKING"
    BY <1>1, <1>2, <1>4, <2>2 DEF AskedIn
  <2> QED BY <1>6, <2>1, <2>2 DEF Marked
<1> QED BY <1>5, <1>6 DEF bs, cs

\* One message of a list changes.
LEMMA AskedAt ==
    ASSUME NEW ms \in Seq(MsgT), NEW i \in 1..Len(ms), NEW m \in MsgT,
           AskedIn(m.content) \subseteq AskedIn(ms[i].content)
    PROVE  Asked([ms EXCEPT ![i] = m]) \subseteq Asked(ms)
<1> DEFINE ns == [ms EXCEPT ![i] = m]
<1>1. Len(ns) = Len(ms) /\ ns[i] = m /\ \A j \in 1..Len(ms) : j # i => ns[j] = ms[j]
  OBVIOUS
<1> HIDE DEF ns
<1>2. \A j \in 1..Len(ms) : AskedIn(ns[j].content) \subseteq AskedIn(ms[j].content)
  BY <1>1
<1> QED BY <1>1, <1>2 DEF Asked, ns

LEMMA AskedAppend ==
    ASSUME NEW ms \in Seq(MsgT), NEW m \in MsgT
    PROVE  Asked(Append(ms, m)) = Asked(ms) \cup AskedIn(m.content)
<1> DEFINE ns == Append(ms, m)
<1>1. /\ Len(ms) \in Nat /\ Len(ns) = Len(ms) + 1 /\ ns[Len(ms) + 1] = m
      /\ \A j \in 1..Len(ms) : ns[j] = ms[j]
  OBVIOUS
<1> HIDE DEF ns
<1>2. \A j \in 1..Len(ns) : j \in 1..Len(ms) \/ j = Len(ms) + 1
  BY <1>1
<1>3. 1..Len(ms) \subseteq 1..Len(ns) /\ Len(ms) + 1 \in 1..Len(ns)
  BY <1>1
<1>4. Asked(ns) \subseteq Asked(ms) \cup AskedIn(m.content)
  BY <1>1, <1>2 DEF Asked
<1>5. Asked(ms) \subseteq Asked(ns)
  BY <1>1, <1>3 DEF Asked
<1>6. AskedIn(m.content) \subseteq Asked(ns)
  BY <1>1, <1>3 DEF Asked, AskedIn
<1> QED BY <1>4, <1>5, <1>6 DEF ns

LEMMA AskedMarked ==
    ASSUME NEW ms \in Seq(MsgT), Once(ms, "tool_call"), NEW i \in 1..Len(ms), NEW c, NEW state \in BlockStates,
           c \in IdsOf(ms[i].content, "tool_call")
    PROVE  Asked([ms EXCEPT ![i] = SetState(ms[i], FindBlock(ms[i], "tool_call", c), state)])
             = Marked(Asked(ms), c, state)
<1> DEFINE m == SetState(ms[i], FindBlock(ms[i], "tool_call", c), state)
           ns == [ms EXCEPT ![i] = m]
<1>1. Len(ns) = Len(ms) /\ ns[i] = m /\ \A j \in 1..Len(ms) : j # i => ns[j] = ms[j]
  OBVIOUS
<1>2. ms[i] \in MsgT /\ OneEach(ms[i].content, "tool_call") /\ c \in Nat
  BY DEF Once, IdsOf
<1>3. AskedIn(m.content) = Marked(AskedIn(ms[i].content), c, state)
  BY <1>2, CallMarked
<1> HIDE DEF m, ns
<1>4. \A j \in 1..Len(ms) : j # i => c \notin AskedIn(ms[j].content)
  <2>1. \A j \in 1..Len(ms) : c \in IdsOf(ms[j].content, "tool_call") => j = i
    BY <1>2 DEF Once
  <2> QED BY <2>1, AskedAsCalls
<1>5. \A j \in 1..Len(ms) : j # i => AskedIn(ns[j].content) = AskedIn(ms[j].content)
  BY <1>1
<1>6. AskedIn(ns[i].content) = Marked(AskedIn(ms[i].content), c, state)
  BY <1>1, <1>3
<1>7. Asked(ns) \subseteq Marked(Asked(ms), c, state)
  <2>1. ASSUME NEW d \in Nat, NEW j \in 1..Len(ms), d \in AskedIn(ns[j].content) PROVE d \in Marked(Asked(ms), c, state)
    <3>1. CASE j = i
      BY <1>6, <2>1, <3>1 DEF Asked, Marked
    <3>2. CASE j # i
      BY <1>4, <1>5, <2>1, <3>2 DEF Asked, Marked
    <3> QED BY <3>1, <3>2
  <2> QED BY <1>1, <2>1 DEF Asked
<1>8. Marked(Asked(ms), c, state) \subseteq Asked(ns)
  <2>1. ASSUME NEW d \in Asked(ms), d # c PROVE d \in Asked(ns)
    <3>1. PICK j \in 1..Len(ms) : d \in AskedIn(ms[j].content)
      BY DEF Asked
    <3>2. d \in AskedIn(ns[j].content)
      BY <1>5, <1>6, <2>1, <3>1 DEF Marked
    <3> QED BY <1>1, <3>1, <3>2 DEF Asked
  <2>2. ASSUME state = "ASKING" PROVE c \in Asked(ns)
    <3>1. c \in AskedIn(ns[i].content)
      BY <1>6, <2>2 DEF Marked
    <3> QED BY <1>1, <1>2, <3>1 DEF Asked
  <2> QED BY <2>1, <2>2 DEF Marked
<1> QED BY <1>7, <1>8 DEF ns, m

\* Events after which no more calls are asked about.
Quiet(e) ==
    /\ e.type # "REQUIRE_USER_CONFIRM"
    /\ e.type = "TOOL_RESULT_END" => e.state # "ASKING"

LEMMA StateQuiet ==
    ASSUME NEW m \in MsgT, NEW at, NEW state
    PROVE  LET n == SetState(m, at, state)
           IN  n.role = m.role /\ n.id = m.id /\ (state # "ASKING" => AskedIn(n.content) \subseteq AskedIn(m.content))
<1> DEFINE n == SetState(m, at, state)
<1>1. /\ n.role = m.role /\ n.id = m.id /\ Len(n.content) = Len(m.content)
      /\ \A i \in 1..Len(m.content) :
           /\ n.content[i].type = m.content[i].type /\ n.content[i].id = m.content[i].id
           /\ n.content[i].state = IF i \in at THEN state ELSE m.content[i].state
  BY StateSet
<1> HIDE DEF n
<1>2. state # "ASKING" => AskedIn(n.content) \subseteq AskedIn(m.content)
  BY <1>1 DEF AskedIn
<1> QED BY <1>1, <1>2 DEF n

LEMMA SayQuiet ==
    ASSUME NEW m \in MsgT, NEW at
    PROVE  LET n == Say(m, at)
           IN  n.role = m.role /\ n.id = m.id /\ AskedIn(n.content) \subseteq AskedIn(m.content)
<1> DEFINE bs == m.content
           cs == [i \in DOMAIN bs |-> IF i \in at THEN [bs[i] EXCEPT !.said = TRUE] ELSE bs[i]]
<1>1. bs \in Seq(BlockT) /\ DOMAIN bs = 1..Len(bs) /\ Len(bs) \in Nat
  BY MsgFields
<1>2. \A b \in BlockT : LET c == [b EXCEPT !.said = TRUE] IN c.type = b.type /\ c.id = b.id /\ c.state = b.state
  BY DEF BlockT
<1>3. \A i \in 1..Len(bs) : cs[i].type = bs[i].type /\ cs[i].id = bs[i].id /\ cs[i].state = bs[i].state
  <2>1. \A i \in 1..Len(bs) : cs[i] = IF i \in at THEN [bs[i] EXCEPT !.said = TRUE] ELSE bs[i]
    BY <1>1
  <2>2. \A i \in 1..Len(bs) : bs[i] \in BlockT
    BY <1>1
  <2> HIDE DEF cs
  <2> QED BY <1>2, <2>1, <2>2
<1>4. DOMAIN cs = 1..Len(bs)
  BY <1>1
<1>5. Say(m, at) = [m EXCEPT !.content = cs]
  BY DEF Say
<1> HIDE DEF cs
<1>6. Len(cs) = Len(bs)
  BY <1>1, <1>4
<1>7. LET n == [m EXCEPT !.content = cs] IN n.role = m.role /\ n.id = m.id /\ n.content = cs
  BY DEF MsgT
<1> HIDE DEF bs
<1>8. AskedIn(cs) \subseteq AskedIn(bs)
  BY <1>3, <1>6 DEF AskedIn
<1> QED BY <1>5, <1>7, <1>8 DEF bs

LEMMA AskedConcat ==
    ASSUME NEW x \in Seq(BlockT), NEW y \in Seq(BlockT)
    PROVE  AskedIn(x \o y) = AskedIn(x) \cup AskedIn(y)
<1> DEFINE z == x \o y
           L == Len(x)
           M == Len(y)
<1>1. /\ z \in Seq(BlockT) /\ L \in Nat /\ M \in Nat /\ Len(z) = L + M
      /\ \A k \in 1..L : z[k] = x[k]
      /\ \A k \in 1..M : z[L + k] = y[k]
  BY Concatenated
<1> HIDE DEF z
<1>2. \A k \in 1..Len(z) : (k \in 1..L /\ z[k] = x[k]) \/ (k - L \in 1..M /\ z[k] = y[k - L])
  <2>1. ASSUME NEW k \in 1..Len(z), k \notin 1..L PROVE k - L \in 1..M /\ z[k] = y[k - L]
    <3>1. k - L \in 1..M /\ k = L + (k - L)
      BY <1>1, <2>1
    <3> QED BY <1>1, <3>1
  <2> QED BY <1>1, <2>1
<1>3. \A k \in 1..L : k \in 1..Len(z)
  BY <1>1
<1>4. \A k \in 1..M : L + k \in 1..Len(z)
  BY <1>1
<1>5. AskedIn(z) \subseteq AskedIn(x) \cup AskedIn(y)
  BY <1>2 DEF AskedIn
<1>6. AskedIn(x) \subseteq AskedIn(z)
  BY <1>1, <1>3 DEF AskedIn
<1>7. AskedIn(y) \subseteq AskedIn(z)
  BY <1>1, <1>4 DEF AskedIn
<1> QED BY <1>5, <1>6, <1>7 DEF z

LEMMA AskedBlock ==
    ASSUME NEW b \in BlockT
    PROVE  AskedIn(<<b>>) = AskedIf(b)
<1> DEFINE s == <<b>>
<1>1. Len(s) = 1 /\ s[1] = b
  OBVIOUS
<1>2. b.id \in Nat
  BY DEF BlockT
<1> HIDE DEF s
<1>3. AskedIn(s) = AskedIf(b)
  BY <1>1, <1>2 DEF AskedIn, AskedIf
<1> QED BY <1>3 DEF s

LEMMA PutQuiet ==
    ASSUME NEW m \in MsgT, NEW b \in BlockT, AskedIf(b) = {}
    PROVE  LET n == Put(m, b)
           IN  n.role = m.role /\ n.id = m.id /\ AskedIn(n.content) \subseteq AskedIn(m.content)
<1> DEFINE bs == m.content
           cs == Append(bs, b)
<1>1. bs \in Seq(BlockT) /\ <<b>> \in Seq(BlockT)
  BY MsgFields
<1>2. cs = bs \o <<b>>
  BY <1>1
<1>3. AskedIn(cs) = AskedIn(bs)
  <2> DEFINE s == <<b>>
  <2>1. AskedIn(s) = {}
    BY AskedBlock
  <2>2. s \in Seq(BlockT)
    BY <1>1
  <2> HIDE DEF s, bs
  <2>3. AskedIn(bs \o s) = AskedIn(bs) \cup AskedIn(s)
    BY <1>1, <2>2, AskedConcat
  <2> QED BY <1>2, <2>1, <2>3 DEF s
<1>4. Put(m, b) = [m EXCEPT !.content = cs]
  BY DEF Put
<1> HIDE DEF cs
<1>5. LET n == [m EXCEPT !.content = cs] IN n.role = m.role /\ n.id = m.id /\ n.content = cs
  BY DEF MsgT
<1> QED BY <1>3, <1>4, <1>5

LEMMA EventQuiet ==
    ASSUME NEW m \in MsgT, NEW e \in EventT
    PROVE  LET n == AppendEvent(m, e)
           IN  n.role = m.role /\ n.id = m.id /\ (Quiet(e) => AskedIn(n.content) \subseteq AskedIn(m.content))
<1>1. CASE e.type = "MODEL_CALL_END"
  <2>1. AppendEvent(m, e) = CallEnded(m, e)
    BY <1>1 DEF AppendEvent
  <2>2. \A gs : LET n == [m EXCEPT !.groups = gs] IN n.role = m.role /\ n.id = m.id /\ n.content = m.content
    BY DEF MsgT
  <2>3. CallEnded(m, e) = m \/ \E gs : CallEnded(m, e) = [m EXCEPT !.groups = gs]
    BY DEF CallEnded
  <2> QED BY <2>1, <2>2, <2>3
<1>2. CASE e.type \in {"BLOCK_START", "BLOCK_DELTA"}
  <2>1. e.block \in BlockT /\ e.block.type \in {"text", "thinking"}
    BY <1>2 DEF EventT
  <2>2. AppendEvent(m, e) = TextEvent(m, e)
    BY <1>2 DEF AppendEvent
  <2> DEFINE b == [e.block EXCEPT !.said = FALSE]
             at == FindBlock(m, e.block.type, e.block.id)
  <2>3. b \in BlockT /\ AskedIf(b) = {}
    BY <2>1 DEF BlockT, AskedIf
  <2>4. TextEvent(m, e) = Put(m, b) \/ TextEvent(m, e) = Say(m, at)
    BY DEF TextEvent
  <2> HIDE DEF b, at
  <2> QED BY <2>2, <2>3, <2>4, PutQuiet, SayQuiet
<1>3. CASE e.type = "HINT_BLOCK"
  <2>1. Hint \in BlockT /\ AskedIf(Hint) = {}
    BY DEF Hint, Block, BlockT, BlockTypes, BlockStates, AskedIf
  <2>2. AppendEvent(m, e) = Put(m, Hint)
    BY <1>3 DEF AppendEvent
  <2> QED BY <2>1, <2>2, PutQuiet
<1>4. CASE e.type = "TOOL_CALL_START"
  <2> DEFINE b == Call(e.id, e.turn)
  <2>1. e.id \in Nat /\ e.turn \in Nat
    BY <1>4 DEF EventT
  <2>2. b \in BlockT /\ AskedIf(b) = {}
    BY <2>1 DEF Call, Block, BlockT, BlockTypes, BlockStates, AskedIf
  <2>3. AppendEvent(m, e) = Put(m, b)
    BY <1>4 DEF AppendEvent
  <2> HIDE DEF b
  <2> QED BY <2>2, <2>3, PutQuiet
<1>5. CASE e.type = "TOOL_RESULT_START"
  <2> DEFINE b == Block("tool_result", e.id, "RUNNING", FALSE, 0)
  <2>1. e.id \in Nat
    BY <1>5 DEF EventT
  <2>2. b \in BlockT /\ AskedIf(b) = {}
    BY <2>1 DEF Block, BlockT, BlockTypes, BlockStates, AskedIf
  <2>3. AppendEvent(m, e) = Put(m, b)
    BY <1>5 DEF AppendEvent, ResultEvent
  <2> HIDE DEF b
  <2> QED BY <2>2, <2>3, PutQuiet
<1>6. CASE e.type = "TOOL_RESULT_TEXT_DELTA"
  <2> DEFINE at == FindBlock(m, "tool_result", e.id)
  <2>1. AppendEvent(m, e) = Say(m, at)
    BY <1>6 DEF AppendEvent, ResultEvent
  <2> HIDE DEF at
  <2> QED BY <2>1, SayQuiet
<1>7. CASE e.type = "TOOL_RESULT_END"
  <2> DEFINE at == FindBlock(m, "tool_result", e.id)
             ended == SetState(m, at, e.state)
             bt == FindBlock(m, "tool_call", e.id)
             both == SetState(ended, bt, "FINISHED")
  <2>1. AppendEvent(m, e) = IF at = {} THEN m ELSE both
    BY <1>7 DEF AppendEvent, ResultEvent
  <2>2. e.state \in BlockStates
    BY <1>7 DEF EventT
  <2> HIDE DEF at, bt
  <2>3. ended.role = m.role /\ ended.id = m.id /\ (e.state # "ASKING" => AskedIn(ended.content) \subseteq AskedIn(m.content))
    BY StateQuiet
  <2>4. ended \in MsgT
    BY <2>2, StateKept
  <2> HIDE DEF ended
  <2>5. both.role = ended.role /\ both.id = ended.id /\ AskedIn(both.content) \subseteq AskedIn(ended.content)
    BY <2>4, StateQuiet
  <2> HIDE DEF both
  <2>6. Quiet(e) => e.state # "ASKING"
    BY <1>7 DEF Quiet
  <2> QED BY <2>1, <2>3, <2>5, <2>6
<1>8. CASE e.type \in {"REQUIRE_USER_CONFIRM", "USER_CONFIRM_RESULT"}
  <2> DEFINE at == FindBlock(m, "tool_call", e.id)
             state == CASE e.type = "REQUIRE_USER_CONFIRM" -> "ASKING"
                        [] e.type = "USER_CONFIRM_RESULT" -> IF e.approved THEN "ALLOWED" ELSE "FINISHED"
  <2>1. AppendEvent(m, e) = SetState(m, at, state)
    BY <1>8 DEF AppendEvent, ConfirmEvent
  <2>2. Quiet(e) => state # "ASKING"
    BY <1>8 DEF Quiet
  <2> HIDE DEF at, state
  <2> QED BY <2>1, <2>2, StateQuiet
<1> QED BY <1>1, <1>2, <1>3, <1>4, <1>5, <1>6, <1>7, <1>8 DEF EventT

\* The message stays what it is, whatever its events are.
LEMMA EventsQuiet ==
    ASSUME NEW m \in MsgT, NEW es \in Seq(EventT)
    PROVE  LET n == AppendEvents(m, es)
           IN  /\ n \in MsgT /\ n.role = m.role /\ n.id = m.id
               /\ (\A k \in 1..Len(es) : Quiet(es[k])) => AskedIn(n.content) \subseteq AskedIn(m.content)
<1> DEFINE N == Len(es)
           Q == \A k \in 1..N : Quiet(es[k])
<1>1. N \in Nat /\ \A n \in 1..N : es[n] \in EventT
  OBVIOUS
<1>2. PICK f : Applying(f, m, es, N) /\ AppendEvents(m, es) = f[N]
  BY AppendEventsDef
<1>3. f[0] = m /\ \A n \in 0..(N - 1) : f[n + 1] = AppendEvent(f[n], es[n + 1])
  <2> HIDE DEF N
  <2>1. f[0] = m
    <3>1. 0 \in 0..N /\ f = [n \in 0..N |-> IF n = 0 THEN m ELSE AppendEvent(f[n - 1], es[n])]
      BY <1>1, <1>2 DEF Applying
    <3> QED BY ONLY <3>1
  <2>2. \A n \in 0..(N - 1) : f[n + 1] = AppendEvent(f[n], es[n + 1])
    BY <1>1, <1>2, ApplyingSteps
  <2> QED BY <2>1, <2>2
<1> DEFINE Same(n) == /\ n \in MsgT /\ n.role = m.role /\ n.id = m.id
                      /\ Q => AskedIn(n.content) \subseteq AskedIn(m.content)
           S == {n \in Nat : n <= N => Same(f[n])}
<1>4. 0 \in S
  BY <1>3
<1>5. ASSUME NEW n \in Nat, n \in S PROVE n + 1 \in S
  <2> SUFFICES ASSUME n + 1 <= N PROVE Same(f[n + 1])
    OBVIOUS
  <2> DEFINE e == es[n + 1]
  <2>1. n \in 0..(N - 1) /\ n <= N /\ n + 1 \in 1..N
    BY <1>1
  <2>2. e \in EventT /\ (Q => Quiet(e))
    BY <1>1, <2>1
  <2>3. f[n + 1] = AppendEvent(f[n], e) /\ Same(f[n])
    BY <1>3, <1>5, <2>1
  <2> HIDE DEF e, Q
  <2>4. AppendEvent(f[n], e) \in MsgT
    BY <2>2, <2>3, EventKept DEF IdTypes
  <2>5. LET a == AppendEvent(f[n], e)
        IN  a.role = f[n].role /\ a.id = f[n].id /\ (Quiet(e) => AskedIn(a.content) \subseteq AskedIn(f[n].content))
    BY <2>2, <2>3, EventQuiet
  <2> QED BY <2>2, <2>3, <2>4, <2>5
<1> HIDE DEF S
<1>6. Nat \subseteq S
  BY <1>4, <1>5, Induction
<1>7. N \in S /\ N <= N
  BY <1>1, <1>6
<1>8. Same(f[N])
  BY <1>7 DEF S
<1> QED BY <1>2, <1>8

\* A host that opens a message when its first block comes.
OpensOnBlock == Host = "first block"

\* A host delivers events to the first message of the reply, to a new one, or
\* not at all.
LEMMA DeliverCases ==
    ASSUME NEW ms \in Seq(MsgT), NEW id, NEW es
    PROVE  \/ \E i \in 1..Len(ms) : First(ms, id, i) /\ Deliver(ms, id, es) = [ms EXCEPT ![i] = AppendEvents(ms[i], es)]
           \/ /\ \A i \in 1..Len(ms) : ~(ms[i].role = "assistant" /\ ms[i].id = id)
              /\ \/ /\ OpensOnBlock /\ \E n \in DOMAIN es : es[n].type \in Opening
                    /\ Deliver(ms, id, es) = Append(ms, AppendEvents(Msg("assistant", id, << >>), es))
                 \/ /\ ~(OpensOnBlock /\ \E n \in DOMAIN es : es[n].type \in Opening)
                    /\ Deliver(ms, id, es) = ms
<1> DEFINE at == {i \in DOMAIN ms : ms[i].role = "assistant" /\ ms[i].id = id}
           opens == OpensOnBlock /\ \E n \in DOMAIN es : es[n].type \in Opening
           fresh == Msg("assistant", id, << >>)
           i == Min(at)
<1>1. DOMAIN ms = 1..Len(ms) /\ Len(ms) \in Nat
  OBVIOUS
<1>2. Deliver(ms, id, es) =
        CASE at # {} -> [ms EXCEPT ![i] = AppendEvents(@, es)]
          [] at = {} /\ opens -> Append(ms, AppendEvents(fresh, es))
          [] OTHER -> ms
  BY DEF Deliver, OpensOnBlock
<1>3. CASE at # {}
  <2>1. at \subseteq Nat
    BY <1>1
  <2> HIDE DEF at
  <2>2. \E x \in at : \A y \in at : x <= y
    <3>1. PICK x \in at : \A y \in at : ~ (<<y, x>> \in Less)
      BY <1>3, <2>1, LessWellFounded, WFMin
    <3>2. ASSUME NEW y \in at PROVE x <= y
      <4>1. x \in Nat /\ y \in Nat
        BY <2>1
      <4>2. ~(y < x)
        BY <3>1, <4>1 DEF Less
      <4> QED BY <4>1, <4>2
    <3> QED BY <3>2
  <2>3. i \in at /\ \A y \in at : i <= y
    BY <2>2 DEF Min
  <2> HIDE DEF i
  <2>4. First(ms, id, i)
    <3>1. i \in 1..Len(ms) /\ ms[i].role = "assistant" /\ ms[i].id = id
      BY <1>1, <2>3 DEF at
    <3>2. ASSUME NEW j \in 1..(i - 1), ms[j].role = "assistant", ms[j].id = id PROVE FALSE
      <4>1. j \in 1..Len(ms) /\ j < i
        BY <1>1, <3>1
      <4>2. j \in at
        BY <1>1, <3>2, <4>1 DEF at
      <4> QED BY <1>1, <2>3, <3>1, <4>1, <4>2
    <3> QED BY <3>1, <3>2 DEF First
  <2>5. Deliver(ms, id, es) = [ms EXCEPT ![i] = AppendEvents(ms[i], es)]
    BY <1>2, <1>3
  <2>6. i \in 1..Len(ms)
    BY <2>4 DEF First
  <2> QED BY <2>4, <2>5, <2>6
<1>4. CASE at = {}
  <2>1. \A j \in 1..Len(ms) : ~(ms[j].role = "assistant" /\ ms[j].id = id)
    BY <1>1, <1>4
  <2> HIDE DEF at
  <2>2. CASE opens
    BY <1>2, <1>4, <2>1, <2>2
  <2>3. CASE ~opens
    BY <1>2, <1>4, <2>1, <2>3
  <2> QED BY <2>2, <2>3
<1> QED BY <1>3, <1>4

\* The first message of a reply stays the first.
LEMMA FirstAt ==
    ASSUME NEW ms \in Seq(MsgT), NEW i \in 1..Len(ms), NEW m \in MsgT, m.role = ms[i].role, m.id = ms[i].id,
           NEW id, NEW k
    PROVE  First([ms EXCEPT ![i] = m], id, k) <=> First(ms, id, k)
<1> DEFINE ns == [ms EXCEPT ![i] = m]
<1>1. Len(ns) = Len(ms) /\ ns[i] = m /\ \A j \in 1..Len(ms) : j # i => ns[j] = ms[j]
  OBVIOUS
<1> HIDE DEF ns
<1>2. \A j \in 1..Len(ms) : ns[j].role = ms[j].role /\ ns[j].id = ms[j].id
  BY <1>1
<1>3. k \in 1..Len(ms) => \A j \in 1..(k - 1) : j \in 1..Len(ms)
  OBVIOUS
<1>4. First(ns, id, k) <=> First(ms, id, k)
  BY <1>1, <1>2, <1>3 DEF First
<1> QED BY <1>4 DEF ns

LEMMA FirstAppend ==
    ASSUME NEW ms \in Seq(MsgT), NEW m \in MsgT, NEW id, NEW k, First(ms, id, k)
    PROVE  First(Append(ms, m), id, k) /\ Append(ms, m)[k] = ms[k] /\ k \in 1..Len(Append(ms, m))
<1> DEFINE ns == Append(ms, m)
<1>1. /\ Len(ms) \in Nat /\ Len(ns) = Len(ms) + 1 /\ \A j \in 1..Len(ms) : ns[j] = ms[j]
  OBVIOUS
<1> HIDE DEF ns
<1>2. k \in 1..Len(ms) /\ k \in 1..Len(ns)
  BY <1>1 DEF First
<1>3. \A j \in 1..(k - 1) : j \in 1..Len(ms)
  BY <1>1, <1>2
<1>4. First(ns, id, k)
  BY <1>1, <1>2, <1>3 DEF First
<1> QED BY <1>1, <1>2, <1>4 DEF ns

\* Nothing a list held is lost, and it holds what it is given where it belongs.
Preserves(ms, ns) == \A id, c : Home(ms, id, c) => Home(ns, id, c)

LEMMA AppendHomes ==
    ASSUME NEW ms \in Seq(MsgT), NEW m \in MsgT
    PROVE  Preserves(ms, Append(ms, m))
<1> SUFFICES ASSUME NEW id, NEW c, Home(ms, id, c) PROVE Home(Append(ms, m), id, c)
  BY DEF Preserves
<1>1. PICK k \in 1..Len(ms) : First(ms, id, k) /\ c \in IdsOf(ms[k].content, "tool_call")
  BY DEF Home
<1> DEFINE ns == Append(ms, m)
<1>2. First(ns, id, k) /\ ns[k] = ms[k] /\ k \in 1..Len(ns)
  BY <1>1, FirstAppend
<1> HIDE DEF ns
<1>3. Home(ns, id, c)
  BY <1>1, <1>2 DEF Home
<1> QED BY <1>3 DEF ns

LEMMA ChangeHomes ==
    ASSUME NEW ms \in Seq(MsgT), NEW i \in 1..Len(ms), NEW m \in MsgT, m.role = ms[i].role, m.id = ms[i].id,
           IdsOf(ms[i].content, "tool_call") \subseteq IdsOf(m.content, "tool_call")
    PROVE  Preserves(ms, [ms EXCEPT ![i] = m])
<1> SUFFICES ASSUME NEW id, NEW c, Home(ms, id, c) PROVE Home([ms EXCEPT ![i] = m], id, c)
  BY DEF Preserves
<1> DEFINE ns == [ms EXCEPT ![i] = m]
<1>1. PICK k \in 1..Len(ms) : First(ms, id, k) /\ c \in IdsOf(ms[k].content, "tool_call")
  BY DEF Home
<1>2. Len(ns) = Len(ms) /\ ns[i] = m /\ \A j \in 1..Len(ms) : j # i => ns[j] = ms[j]
  OBVIOUS
<1>3. First(ns, id, k)
  BY <1>1, FirstAt
<1> HIDE DEF ns
<1>4. c \in IdsOf(ns[k].content, "tool_call")
  BY <1>1, <1>2
<1>5. Home(ns, id, c)
  BY <1>1, <1>2, <1>3, <1>4 DEF Home
<1> QED BY <1>5 DEF ns

LEMMA LocatedKept ==
    ASSUME NEW ms, NEW ns, NEW os, Located(ms, ns), Preserves(ns, os)
    PROVE  Located(ms, os)
BY DEF Located, Preserves

\* Message i of a list, or one more, gets blocks; its calls are where they
\* belong.
LEMMA LocatedAt ==
    ASSUME NEW ms \in Seq(MsgT), NEW i \in 1..Len(ms), NEW m \in MsgT, m.id = ms[i].id, NEW os, Located(ms, os),
           \A c \in IdsOf(m.content, "tool_call") : c \in IdsOf(ms[i].content, "tool_call") \/ Home(os, m.id, c)
    PROVE  Located([ms EXCEPT ![i] = m], os)
<1> DEFINE ns == [ms EXCEPT ![i] = m]
<1>1. Len(ns) = Len(ms) /\ ns[i] = m /\ \A j \in 1..Len(ms) : j # i => ns[j] = ms[j]
  OBVIOUS
<1> HIDE DEF ns
<1>2. ASSUME NEW j \in 1..Len(ns), NEW c \in IdsOf(ns[j].content, "tool_call") PROVE Home(os, ns[j].id, c)
  <2>1. CASE j = i
    BY <1>1, <1>2, <2>1 DEF Located
  <2>2. CASE j # i
    BY <1>1, <1>2, <2>2 DEF Located
  <2> QED BY <2>1, <2>2
<1>3. Located(ns, os)
  BY <1>2 DEF Located
<1> QED BY <1>3 DEF ns

LEMMA LocatedAppend ==
    ASSUME NEW ms \in Seq(MsgT), NEW m \in MsgT, NEW os, Located(ms, os),
           \A c \in IdsOf(m.content, "tool_call") : Home(os, m.id, c)
    PROVE  Located(Append(ms, m), os)
<1> DEFINE ns == Append(ms, m)
<1>1. /\ Len(ms) \in Nat /\ Len(ns) = Len(ms) + 1 /\ ns[Len(ms) + 1] = m /\ \A j \in 1..Len(ms) : ns[j] = ms[j]
  OBVIOUS
<1> HIDE DEF ns
<1>2. \A j \in 1..Len(ns) : j \in 1..Len(ms) \/ j = Len(ms) + 1
  BY <1>1
<1>3. Located(ns, os)
  BY <1>1, <1>2 DEF Located
<1> QED BY <1>3 DEF ns

\* What the delivery of events does to the copy.
LEMMA DeliverHomes ==
    ASSUME NEW ms \in Seq(MsgT), NEW id \in Nat, NEW es, NEW calls, NEW results, Leads(es, calls, results)
    PROVE  /\ Preserves(ms, Deliver(ms, id, es))
           /\ Located(ms, ms) => Located(Deliver(ms, id, es), Deliver(ms, id, es))
           /\ (\A k \in 1..Len(es) : Quiet(es[k])) => Asked(Deliver(ms, id, es)) \subseteq Asked(ms)
<1> DEFINE ns == Deliver(ms, id, es)
           Q == \A k \in 1..Len(es) : Quiet(es[k])
<1>1. es \in Seq(EventT)
  BY DEF Leads
<1>2. ASSUME NEW m \in MsgT
      PROVE  LET n == AppendEvents(m, es)
             IN  /\ n \in MsgT /\ n.role = m.role /\ n.id = m.id
                 /\ Q => AskedIn(n.content) \subseteq AskedIn(m.content)
                 /\ IdsOf(m.content, "tool_call") \subseteq IdsOf(n.content, "tool_call")
  <2>1. StartsOnce(es, "tool_call")
    BY DEF Leads, New, StartsOnce
  <2>2. Adds(m.content, AppendEvents(m, es).content, "tool_call", NewOf(es, "tool_call"))
    BY <1>1, <2>1, EventsKept DEF IdTypes
  <2>3. IdsOf(m.content, "tool_call") \subseteq IdsOf(AppendEvents(m, es).content, "tool_call")
    BY <2>2 DEF Adds
  <2> HIDE DEF Q
  <2>4. LET n == AppendEvents(m, es)
        IN  /\ n \in MsgT /\ n.role = m.role /\ n.id = m.id
            /\ Q => AskedIn(n.content) \subseteq AskedIn(m.content)
    BY <1>1, EventsQuiet DEF Q
  <2> QED BY <2>3, <2>4
<1> HIDE DEF Q
<1>3. ASSUME NEW i \in 1..Len(ms), First(ms, id, i), ns = [ms EXCEPT ![i] = AppendEvents(ms[i], es)]
      PROVE  Preserves(ms, ns) /\ (Located(ms, ms) => Located(ns, ns)) /\ (Q => Asked(ns) \subseteq Asked(ms))
  <2> DEFINE m == AppendEvents(ms[i], es)
  <2>1. ms[i] \in MsgT
    OBVIOUS
  <2>2. /\ m \in MsgT /\ m.role = ms[i].role /\ m.id = ms[i].id
        /\ Q => AskedIn(m.content) \subseteq AskedIn(ms[i].content)
        /\ IdsOf(ms[i].content, "tool_call") \subseteq IdsOf(m.content, "tool_call")
    BY <1>2, <2>1
  <2>3. ns = [ms EXCEPT ![i] = m]
    BY <1>3
  <2> HIDE DEF m, ns
  <2>4. Preserves(ms, ns)
    BY <2>2, <2>3, ChangeHomes
  <2>5. Q => Asked(ns) \subseteq Asked(ms)
    BY <2>2, <2>3, AskedAt
  <2>6. ASSUME Located(ms, ms) PROVE Located(ns, ns)
    <3>1. Located(ms, ns)
      BY <2>4, <2>6, LocatedKept
    <3>2. First(ns, id, i) /\ ns[i] = m /\ i \in 1..Len(ns) /\ m.id = id
      <4>1. First(ns, id, i)
        <5>1. First([ms EXCEPT ![i] = m], id, i) <=> First(ms, id, i)
          BY <2>2, FirstAt
        <5> QED BY <1>3, <2>3, <5>1
      <4>2. ns[i] = m
        BY <2>3
      <4> QED BY <4>1, <4>2 DEF First
    <3>3. \A c \in IdsOf(m.content, "tool_call") : Home(ns, m.id, c)
      BY <3>2 DEF Home
    <3> QED BY <2>2, <2>3, <3>1, <3>3, LocatedAt
  <2> QED BY <2>4, <2>5, <2>6
<1>4. ASSUME \A i \in 1..Len(ms) : ~(ms[i].role = "assistant" /\ ms[i].id = id),
             ns = Append(ms, AppendEvents(Msg("assistant", id, << >>), es))
      PROVE  Preserves(ms, ns) /\ (Located(ms, ms) => Located(ns, ns)) /\ (Q => Asked(ns) \subseteq Asked(ms))
  <2> DEFINE fresh == Msg("assistant", id, << >>)
             m == AppendEvents(fresh, es)
  <2>1. fresh \in MsgT /\ fresh.content = << >> /\ fresh.role = "assistant" /\ fresh.id = id
    <3>1. << >> \in Seq(BlockT)
      OBVIOUS
    <3>2. fresh \in MsgT /\ fresh.content = << >>
      BY <3>1, FreshMsg
    <3> QED BY <3>2 DEF Msg
  <2>2. AskedIn(<< >>) = {}
    BY DEF AskedIn
  <2> HIDE DEF fresh
  <2>3. m \in MsgT /\ m.role = "assistant" /\ m.id = id /\ (Q => AskedIn(m.content) = {})
    BY <1>2, <2>1, <2>2
  <2>4. ns = Append(ms, m)
    BY <1>4 DEF fresh
  <2> HIDE DEF m, ns
  <2>5. Preserves(ms, ns)
    BY <2>3, <2>4, AppendHomes
  <2>6. Q => Asked(ns) \subseteq Asked(ms)
    BY <2>3, <2>4, AskedAppend
  <2>7. ASSUME Located(ms, ms) PROVE Located(ns, ns)
    <3>1. Located(ms, ns)
      BY <2>5, <2>7, LocatedKept
    <3> DEFINE k == Len(ms) + 1
    <3>2. k \in 1..Len(ns) /\ ns[k] = m /\ k - 1 = Len(ms) /\ \A j \in 1..Len(ms) : ns[j] = ms[j]
      BY <2>3, <2>4
    <3> HIDE DEF k
    <3>3. First(ns, id, k)
      BY <1>4, <2>3, <3>2 DEF First
    <3>4. \A c \in IdsOf(m.content, "tool_call") : Home(ns, m.id, c)
      BY <2>3, <3>2, <3>3 DEF Home
    <3> QED BY <2>3, <2>4, <3>1, <3>4, LocatedAppend
  <2> QED BY <2>5, <2>6, <2>7
<1>5. ASSUME ns = ms
      PROVE  Preserves(ms, ns) /\ (Located(ms, ms) => Located(ns, ns)) /\ (Q => Asked(ns) \subseteq Asked(ms))
  <2>1. Preserves(ms, ms)
    BY DEF Preserves
  <2> HIDE DEF ns
  <2> QED BY <1>5, <2>1
<1>6. Preserves(ms, ns) /\ (Located(ms, ms) => Located(ns, ns)) /\ (Q => Asked(ns) \subseteq Asked(ms))
  <2>1. \/ \E i \in 1..Len(ms) : First(ms, id, i) /\ ns = [ms EXCEPT ![i] = AppendEvents(ms[i], es)]
        \/ /\ \A i \in 1..Len(ms) : ~(ms[i].role = "assistant" /\ ms[i].id = id)
           /\ ns = Append(ms, AppendEvents(Msg("assistant", id, << >>), es)) \/ ns = ms
    BY DeliverCases
  <2> HIDE DEF ns
  <2>2. CASE \E i \in 1..Len(ms) : First(ms, id, i) /\ ns = [ms EXCEPT ![i] = AppendEvents(ms[i], es)]
    BY <1>3, <2>2
  <2>3. CASE /\ \A i \in 1..Len(ms) : ~(ms[i].role = "assistant" /\ ms[i].id = id)
             /\ ns = Append(ms, AppendEvents(Msg("assistant", id, << >>), es))
    BY <1>4, <2>3
  <2>4. CASE ns = ms
    BY <1>5, <2>4
  <2> QED BY <2>1, <2>2, <2>3, <2>4
<1> QED BY <1>6 DEF ns, Q

LEMMA AppendOne ==
    ASSUME NEW m, NEW e \in EventT
    PROVE  AppendEvents(m, <<e>>) = AppendEvent(m, e)
<1> DEFINE es == <<e>>
<1>1. es \in Seq(EventT) /\ Len(es) = 1 /\ es[1] = e
  OBVIOUS
<1> HIDE DEF es
<1>2. PICK f : Applying(f, m, es, Len(es)) /\ AppendEvents(m, es) = f[Len(es)]
  BY <1>1, AppendEventsDef
<1>3. f = [n \in 0..1 |-> IF n = 0 THEN m ELSE AppendEvent(f[n - 1], es[n])]
  BY <1>1, <1>2 DEF Applying
<1>4. f[0] = m /\ f[1] = AppendEvent(f[0], es[1])
  <2>1. 0 \in 0..1 /\ 1 \in 0..1 /\ 1 # 0 /\ 1 - 1 = 0
    OBVIOUS
  <2> QED BY ONLY <1>3, <2>1
<1> QED BY <1>1, <1>2, <1>4 DEF es

\* A host that opens a message when its first block comes has every call in
\* its message.
LEMMA CallDelivered ==
    ASSUME OpensOnBlock, NEW ms \in Seq(MsgT), NEW id \in Nat, NEW c \in Nat, NEW n \in Nat
    PROVE  Home(Deliver(ms, id, <<[type |-> "TOOL_CALL_START", id |-> c, turn |-> n]>>), id, c)
<1> DEFINE e == [type |-> "TOOL_CALL_START", id |-> c, turn |-> n]
           es == <<e>>
           ns == Deliver(ms, id, es)
<1>1. e \in EventT /\ e.type = "TOOL_CALL_START" /\ e.id = c /\ e.turn = n
  BY EventsTyped
<1> HIDE DEF e
<1>2. es \in Seq(EventT) /\ Len(es) = 1 /\ es[1] = e
  BY <1>1
<1>3. ASSUME NEW m \in MsgT
      PROVE  LET a == AppendEvents(m, es)
             IN  a \in MsgT /\ a.role = m.role /\ a.id = m.id /\ c \in IdsOf(a.content, "tool_call")
  <2> DEFINE b == Call(c, n)
             cs == Append(m.content, b)
  <2>1. AppendEvents(m, es) = Put(m, b)
    BY <1>1, AppendOne DEF AppendEvent
  <2>2. b \in BlockT /\ IdIf(b, "tool_call") = {c}
    BY BlocksTyped, BlocksAre DEF IdIf
  <2>3. m.content \in Seq(BlockT)
    BY MsgFields
  <2> HIDE DEF b, es
  <2>4. c \in IdsOf(cs, "tool_call") /\ cs \in Seq(BlockT)
    BY <2>2, <2>3, AddsAppend DEF Adds
  <2>5. Put(m, b) = [m EXCEPT !.content = cs]
    BY DEF Put
  <2> HIDE DEF cs
  <2> DEFINE a == [m EXCEPT !.content = cs]
  <2>6. a \in MsgT /\ a.content = cs /\ a.role = m.role /\ a.id = m.id
    BY <2>4, MsgFields
  <2>7. AppendEvents(m, es) = a
    BY <2>1, <2>5
  <2> HIDE DEF a
  <2> QED BY <2>4, <2>6, <2>7
<1>4. \E k \in DOMAIN es : es[k].type \in Opening
  <2> HIDE DEF es
  <2>1. 1 \in DOMAIN es
    BY <1>2
  <2> QED BY <1>1, <1>2, <2>1 DEF Opening
<1>5. \/ \E i \in 1..Len(ms) : First(ms, id, i) /\ ns = [ms EXCEPT ![i] = AppendEvents(ms[i], es)]
      \/ /\ \A i \in 1..Len(ms) : ~(ms[i].role = "assistant" /\ ms[i].id = id)
         /\ ns = Append(ms, AppendEvents(Msg("assistant", id, << >>), es))
  <2> HIDE DEF es
  <2> QED BY <1>4, DeliverCases
<1> HIDE DEF es, ns
<1>6. ASSUME NEW i \in 1..Len(ms), First(ms, id, i), ns = [ms EXCEPT ![i] = AppendEvents(ms[i], es)]
      PROVE  Home(ns, id, c)
  <2> DEFINE m == AppendEvents(ms[i], es)
  <2>1. ms[i] \in MsgT
    OBVIOUS
  <2>2. m \in MsgT /\ m.role = ms[i].role /\ m.id = ms[i].id /\ c \in IdsOf(m.content, "tool_call")
    BY <1>3, <2>1
  <2>3. ns = [ms EXCEPT ![i] = m]
    BY <1>6
  <2> HIDE DEF m
  <2>4. First([ms EXCEPT ![i] = m], id, i) <=> First(ms, id, i)
    BY <2>2, FirstAt
  <2>5. First(ns, id, i) /\ i \in 1..Len(ns) /\ ns[i] = m
    <3>1. First(ns, id, i)
      BY <1>6, <2>3, <2>4
    <3>2. i \in 1..Len(ns) /\ ns[i] = m
      BY <2>3
    <3> QED BY <3>1, <3>2
  <2> QED BY <2>2, <2>5 DEF Home
<1>7. ASSUME \A i \in 1..Len(ms) : ~(ms[i].role = "assistant" /\ ms[i].id = id),
             ns = Append(ms, AppendEvents(Msg("assistant", id, << >>), es))
      PROVE  Home(ns, id, c)
  <2> DEFINE fresh == Msg("assistant", id, << >>)
             m == AppendEvents(fresh, es)
             k == Len(ms) + 1
  <2>1. fresh \in MsgT /\ fresh.role = "assistant" /\ fresh.id = id
    <3>1. << >> \in Seq(BlockT)
      OBVIOUS
    <3>2. fresh \in MsgT
      BY <3>1, FreshMsg
    <3> QED BY <3>2 DEF Msg
  <2> HIDE DEF fresh
  <2>2. m \in MsgT /\ m.role = "assistant" /\ m.id = id /\ c \in IdsOf(m.content, "tool_call")
    BY <1>3, <2>1
  <2>3. ns = Append(ms, m)
    BY <1>7 DEF fresh
  <2> HIDE DEF m
  <2>4. k \in 1..Len(ns) /\ ns[k] = m /\ k - 1 = Len(ms) /\ \A j \in 1..Len(ms) : ns[j] = ms[j]
    BY <2>2, <2>3
  <2> HIDE DEF k
  <2>5. First(ns, id, k)
    BY <1>7, <2>2, <2>4 DEF First
  <2> QED BY <2>2, <2>4, <2>5 DEF Home
<1>8. Home(ns, id, c)
  BY <1>5, <1>6, <1>7
<1> QED BY <1>8 DEF ns, es, e

\* A question or an answer reaches the call it is about.
MarkOf(e) == CASE e.type = "REQUIRE_USER_CONFIRM" -> "ASKING"
               [] e.type = "USER_CONFIRM_RESULT" -> IF e.approved THEN "ALLOWED" ELSE "FINISHED"

LEMMA ConfirmDelivered ==
    ASSUME NEW ms \in Seq(MsgT), Once(ms, "tool_call"), NEW id \in Nat, NEW e \in EventT,
           e.type \in {"REQUIRE_USER_CONFIRM", "USER_CONFIRM_RESULT"}, Home(ms, id, e.id)
    PROVE  Asked(Deliver(ms, id, <<e>>)) = Marked(Asked(ms), e.id, MarkOf(e))
<1> DEFINE c == e.id
           es == <<e>>
           ns == Deliver(ms, id, es)
<1>1. PICK k \in 1..Len(ms) : First(ms, id, k) /\ c \in IdsOf(ms[k].content, "tool_call")
  BY DEF Home
<1>2. MarkOf(e) \in BlockStates
  BY DEF MarkOf, BlockStates
<1>3. \A m : AppendEvents(m, es) = SetState(m, FindBlock(m, "tool_call", c), MarkOf(e))
  BY AppendOne DEF AppendEvent, ConfirmEvent, MarkOf
<1>4. \E i \in 1..Len(ms) : First(ms, id, i) /\ ns = [ms EXCEPT ![i] = AppendEvents(ms[i], es)]
  <2>1. ~ \A i \in 1..Len(ms) : ~(ms[i].role = "assistant" /\ ms[i].id = id)
    BY <1>1 DEF First
  <2> HIDE DEF es
  <2> QED BY <2>1, DeliverCases
<1>5. PICK i \in 1..Len(ms) : First(ms, id, i) /\ ns = [ms EXCEPT ![i] = AppendEvents(ms[i], es)]
  BY <1>4
<1> HIDE DEF c, es, ns
<1>6. i = k
  <2>1. i \in Int /\ k \in Int
    OBVIOUS
  <2>2. ~(i < k)
    <3>1. i < k => i \in 1..(k - 1)
      OBVIOUS
    <3> QED BY <1>1, <1>5, <3>1 DEF First
  <2>3. ~(k < i)
    <3>1. k < i => k \in 1..(i - 1)
      OBVIOUS
    <3> QED BY <1>1, <1>5, <3>1 DEF First
  <2> QED BY <2>1, <2>2, <2>3
<1>7. ns = [ms EXCEPT ![i] = SetState(ms[i], FindBlock(ms[i], "tool_call", c), MarkOf(e))]
  BY <1>3, <1>5
<1>8. Asked(ns) = Marked(Asked(ms), c, MarkOf(e))
  BY <1>1, <1>2, <1>6, <1>7, AskedMarked
<1> QED BY <1>8 DEF ns, es, c

\* The context gets blocks that ask about nothing.
LEMMA ReplyHomes ==
    ASSUME NEW ms \in Seq(MsgT), NEW id \in Nat, NEW bs \in Seq(BlockT), AskedIn(bs) = {},
           \A t \in IdTypes : OneEach(bs, t), NEW os, \A c \in IdsOf(bs, "tool_call") : Home(os, id, c)
    PROVE  /\ Asked(AppendReplyBlocks(ms, id, bs)) \subseteq Asked(ms)
           /\ Located(ms, os) => Located(AppendReplyBlocks(ms, id, bs), os)
<1> DEFINE at == {i \in DOMAIN ms : ms[i].role = "assistant" /\ ms[i].id = id}
           fresh == Msg("assistant", id, bs)
           i == Max(at)
           ns == AppendReplyBlocks(ms, id, bs)
<1>1. at \subseteq 1..Len(ms) /\ Len(ms) \in Nat
  OBVIOUS
<1>2. ns = CASE bs = << >> -> ms
             [] bs # << >> /\ at = {} -> Append(ms, fresh)
             [] OTHER -> [ms EXCEPT ![i].content = @ \o bs]
  BY DEF AppendReplyBlocks
<1>3. at # {} => i \in at
  BY <1>1, MaxIn
<1>4. at # {} => i \in 1..Len(ms) /\ ms[i].id = id
  BY <1>1, <1>3
<1> HIDE DEF at, i, ns
<1>5. CASE bs = << >>
  <2>1. ns = ms
    BY <1>2, <1>5
  <2> QED BY <2>1 DEF ns
<1>6. CASE bs # << >> /\ at = {}
  <2>1. fresh \in MsgT /\ fresh.content = bs /\ fresh.id = id
    BY FreshMsg DEF Msg
  <2>2. ns = Append(ms, fresh)
    BY <1>2, <1>6
  <2> HIDE DEF fresh
  <2>3. Asked(ns) = Asked(ms) \cup AskedIn(bs)
    BY <2>1, <2>2, AskedAppend
  <2>4. Located(ms, os) => Located(ns, os)
    BY <2>1, <2>2, LocatedAppend
  <2> QED BY <2>3, <2>4 DEF ns
<1>7. CASE bs # << >> /\ at # {}
  <2> DEFINE cs == ms[i].content \o bs
             m == [ms[i] EXCEPT !.content = cs]
  <2>1. i \in 1..Len(ms) /\ ms[i] \in MsgT /\ ms[i].id = id
    BY <1>4, <1>7
  <2>2. ns = [ms EXCEPT ![i] = m]
    BY <1>2, <1>7
  <2>3. ms[i].content \in Seq(BlockT)
    BY <2>1, MsgFields
  <2>4. /\ AskedIn(cs) = AskedIn(ms[i].content) /\ cs \in Seq(BlockT)
        /\ IdsOf(cs, "tool_call") \subseteq IdsOf(ms[i].content, "tool_call") \cup IdsOf(bs, "tool_call")
    <3>1. AskedIn(cs) = AskedIn(ms[i].content) \cup AskedIn(bs)
      BY <2>3, AskedConcat
    <3>2. Adds(ms[i].content, cs, "tool_call", IdsOf(bs, "tool_call"))
      BY <2>3, AddsConcat DEF IdTypes
    <3> QED BY <3>1, <3>2 DEF Adds
  <2> HIDE DEF cs
  <2>5. m \in MsgT /\ m.content = cs /\ m.id = id
    BY <2>1, <2>4, MsgFields
  <2> HIDE DEF m
  <2>6. Asked(ns) \subseteq Asked(ms)
    BY <2>1, <2>2, <2>4, <2>5, AskedAt
  <2>7. Located(ms, os) => Located(ns, os)
    <3>1. \A c \in IdsOf(m.content, "tool_call") : c \in IdsOf(ms[i].content, "tool_call") \/ Home(os, m.id, c)
      BY <2>4, <2>5
    <3> QED BY <2>1, <2>2, <2>5, <3>1, LocatedAt
  <2> QED BY <2>6, <2>7 DEF ns
<1> QED BY <1>5, <1>6, <1>7

\* The state of a call changes in the context.
LEMMA StateHomes ==
    ASSUME NEW ms \in Seq(MsgT), NEW c, NEW state \in BlockStates, NEW os
    PROVE  LET ns == SetToolCallState(ms, c, state)
           IN  /\ Located(ms, os) => Located(ns, os)
               /\ state # "ASKING" => Asked(ns) \subseteq Asked(ms)
               /\ Once(ms, "tool_call") /\ Owners(ms, c) # {} => Asked(ns) = Marked(Asked(ms), c, state)
<1> DEFINE at == Owners(ms, c)
           i == Min(at)
           bt == FindBlock(ms[i], "tool_call", c)
           m == SetState(ms[i], bt, state)
           ns == SetToolCallState(ms, c, state)
<1>1. at \subseteq 1..Len(ms) /\ at \subseteq Nat
  BY DEF Owners
<1>2. at # {} => i \in at
  <2> HIDE DEF at
  <2> QED BY <1>1, MinIn
<1>3. ns = IF at = {} THEN ms ELSE [ms EXCEPT ![i] = m]
  BY DEF SetToolCallState
<1>4. at # {} => bt # {}
  BY <1>2 DEF Owners
<1>5. CASE at # {}
  <2> HIDE DEF at, i
  <2>1. i \in 1..Len(ms) /\ ms[i] \in MsgT
    <3>1. i \in 1..Len(ms)
      BY <1>1, <1>2, <1>5
    <3> QED BY <3>1
  <2>2. m \in MsgT /\ Adds(ms[i].content, m.content, "tool_call", {})
    BY <2>1, StateKept
  <2>3. m.id = ms[i].id /\ (state # "ASKING" => AskedIn(m.content) \subseteq AskedIn(ms[i].content))
    BY ZenonT(60), <2>1, StateQuiet
  <2>4. c \in IdsOf(ms[i].content, "tool_call")
    <3>1. ms[i].content \in Seq(BlockT)
      BY <2>1, MsgFields
    <3> DEFINE bs == ms[i].content
    <3>2. \E k \in DOMAIN bs : bs[k].type = "tool_call" /\ bs[k].id = c
      BY <1>4, <1>5 DEF FindBlock
    <3> HIDE DEF bs
    <3>3. PICK k \in 1..Len(bs) : bs[k].type = "tool_call" /\ bs[k].id = c
      BY <3>1, <3>2 DEF bs
    <3>4. bs[k].id \in Nat
      BY <3>1, BlockFields DEF bs
    <3>5. c \in IdsOf(bs, "tool_call")
      BY <3>3, <3>4 DEF IdsOf
    <3> QED BY <3>5 DEF bs
  <2>5. Once(ms, "tool_call") => Asked([ms EXCEPT ![i] = m]) = Marked(Asked(ms), c, state)
    BY <2>1, <2>4, AskedMarked
  <2> HIDE DEF m, ns
  <2>6. ns = [ms EXCEPT ![i] = m]
    BY <1>3, <1>5
  <2>7. state # "ASKING" => Asked(ns) \subseteq Asked(ms)
    BY <2>1, <2>2, <2>3, <2>6, AskedAt
  <2>8. Located(ms, os) => Located(ns, os)
    <3>1. IdsOf(m.content, "tool_call") \subseteq IdsOf(ms[i].content, "tool_call")
      BY <2>2 DEF Adds
    <3> QED BY <2>1, <2>2, <2>3, <2>6, <3>1, LocatedAt
  <2> QED BY <2>5, <2>6, <2>7, <2>8 DEF ns, at
<1>6. CASE at = {}
  BY <1>3, <1>6
<1> QED BY <1>5, <1>6

\* What is stored of an attempt: all of its calls, and none is asked about yet.
LEMMA StoredCalls ==
    ASSUME turn \in Nat, NEW calls \in Seq(Nat)
    PROVE  /\ AskedIn(Stored(calls)) = {}
           /\ \A n \in 1..Len(calls) : calls[n] \in IdsOf(Stored(calls), "tool_call")
<1> DEFINE x == IF attempt.thinking THEN <<Thinking(turn)>> ELSE << >>
           y == IF attempt.text THEN <<Text(turn)>> ELSE << >>
           w == x \o y
           z == [n \in DOMAIN calls |-> Call(calls[n], turn)]
<1>1. Stored(calls) = w \o z
  BY DEF Stored
<1>2. DOMAIN calls = 1..Len(calls) /\ Len(calls) \in Nat /\ \A n \in 1..Len(calls) : calls[n] \in Nat
  OBVIOUS
<1>3. \A n \in 1..Len(calls) : z[n] \in BlockT /\ z[n].type = "tool_call" /\ z[n].id = calls[n] /\ z[n].state = "PENDING"
  <2>1. \A c : Call(c, turn).state = "PENDING"
    BY DEF Call, Block
  <2> QED BY <1>2, <2>1, BlocksTyped, BlocksAre
<1>4. z = [n \in 1..Len(calls) |-> z[n]]
  BY <1>2
<1>5. x \in Seq(BlockT) /\ AskedIn(x) = {} /\ y \in Seq(BlockT) /\ AskedIn(y) = {}
  <2>1. ASSUME NEW b \in BlockT, b.type # "tool_call" PROVE <<b>> \in Seq(BlockT) /\ AskedIn(<<b>>) = {}
    <3>1. <<b>> \in Seq(BlockT)
      BY OneBlock
    <3> QED BY <2>1, <3>1, AskedBlock DEF AskedIf
  <2>2. Thinking(turn) \in BlockT /\ Thinking(turn).type # "tool_call" /\ Text(turn) \in BlockT /\ Text(turn).type # "tool_call"
    BY BlocksTyped, BlocksAre
  <2>3. << >> \in Seq(BlockT) /\ AskedIn(<< >>) = {}
    BY DEF AskedIn
  <2> QED BY <2>1, <2>2, <2>3
<1> HIDE DEF x, y, z
<1>6. z \in Seq(BlockT) /\ Len(z) = Len(calls)
  <2>1. z \in [1..Len(calls) -> BlockT]
    BY <1>3, <1>4
  <2> QED BY <1>2, <2>1
<1>7. AskedIn(z) = {} /\ \A n \in 1..Len(calls) : calls[n] \in IdsOf(z, "tool_call")
  BY <1>2, <1>3, <1>6 DEF AskedIn, IdsOf
<1>8. w \in Seq(BlockT) /\ AskedIn(w) = {}
  <2>1. w \in Seq(BlockT)
    BY <1>5, Concatenated
  <2> QED BY <1>5, <2>1, AskedConcat
<1> HIDE DEF w
<1>9. AskedIn(w \o z) = {}
  BY <1>6, <1>7, <1>8, AskedConcat
<1>10. IdsOf(z, "tool_call") \subseteq IdsOf(w \o z, "tool_call")
  <2> DEFINE v == w \o z
  <2>1. w \in Seq(BlockT) /\ z \in Seq(BlockT)
    BY <1>6, <1>8
  <2>2. /\ v \in Seq(BlockT) /\ Len(w) \in Nat /\ Len(v) = Len(w) + Len(z)
        /\ \A k \in 1..Len(z) : v[Len(w) + k] = z[k]
    BY ONLY <2>1, Concatenated
  <2> HIDE DEF v
  <2>3. \A k \in 1..Len(z) : Len(w) + k \in 1..Len(v) /\ v[Len(w) + k] = z[k]
    BY <1>6, <2>2
  <2>4. IdsOf(z, "tool_call") \subseteq IdsOf(v, "tool_call")
    BY <2>3 DEF IdsOf
  <2> QED BY <2>4 DEF v
<1> QED BY <1>1, <1>7, <1>9, <1>10

\* Lists of events after which nothing more is asked about.
AllQuiet(es) == \A k \in 1..Len(es) : Quiet(es[k])

LEMMA OneQuiet ==
    ASSUME NEW e, Quiet(e)
    PROVE  AllQuiet(<<e>>)
<1> DEFINE es == <<e>>
<1>1. Len(es) = 1 /\ es[1] = e
  OBVIOUS
<1> HIDE DEF es
<1>2. AllQuiet(es)
  BY <1>1 DEF AllQuiet
<1> QED BY <1>2 DEF es

LEMMA TextQuiet ==
    ASSUME NEW b
    PROVE  AllQuiet(<<[type |-> "BLOCK_START", block |-> b], [type |-> "BLOCK_DELTA", block |-> b]>>)
<1> DEFINE d == [type |-> "BLOCK_START", block |-> b]
           e == [type |-> "BLOCK_DELTA", block |-> b]
           es == <<d, e>>
<1>1. Quiet(d) /\ Quiet(e)
  BY DEF Quiet
<1> HIDE DEF d, e
<1>2. Len(es) = 2 /\ es[1] = d /\ es[2] = e
  OBVIOUS
<1> HIDE DEF es
<1>3. \A k \in 1..Len(es) : k = 1 \/ k = 2
  BY <1>2
<1>4. AllQuiet(es)
  BY <1>1, <1>2, <1>3 DEF AllQuiet
<1> QED BY <1>4 DEF es, d, e

LEMMA CallQuiet == \A c, n : AllQuiet(<<[type |-> "TOOL_CALL_START", id |-> c, turn |-> n]>>)
<1> SUFFICES ASSUME NEW c, NEW n PROVE AllQuiet(<<[type |-> "TOOL_CALL_START", id |-> c, turn |-> n]>>)
  OBVIOUS
<1> DEFINE e == [type |-> "TOOL_CALL_START", id |-> c, turn |-> n]
<1>1. Quiet(e)
  BY DEF Quiet
<1> HIDE DEF e
<1>2. AllQuiet(<<e>>)
  BY <1>1, OneQuiet
<1> QED BY <1>2 DEF e

LEMMA HintQuiet == AllQuiet(<<[type |-> "HINT_BLOCK"]>>)
<1> DEFINE e == [type |-> "HINT_BLOCK"]
<1>1. Quiet(e)
  BY DEF Quiet
<1> HIDE DEF e
<1>2. AllQuiet(<<e>>)
  BY <1>1, OneQuiet
<1> QED BY <1>2 DEF e

LEMMA EndQuiet == ASSUME NEW reported PROVE AllQuiet(ModelCallEnd(reported))
<1>1. CASE reported
  <2> DEFINE e == [type |-> "MODEL_CALL_END", turn |-> turn, items |-> TRUE]
  <2>1. Quiet(e)
    BY DEF Quiet
  <2>2. ModelCallEnd(reported) = <<e>>
    BY <1>1 DEF ModelCallEnd
  <2> HIDE DEF e
  <2> QED BY <2>1, <2>2, OneQuiet
<1>2. CASE ~reported
  BY <1>2 DEF ModelCallEnd, AllQuiet
<1> QED BY <1>1, <1>2

LEMMA QuietConcat ==
    ASSUME NEW T, NEW x \in Seq(T), NEW y \in Seq(T), AllQuiet(x), AllQuiet(y)
    PROVE  AllQuiet(x \o y)
<1> DEFINE z == x \o y
           L == Len(x)
           M == Len(y)
<1>1. /\ L \in Nat /\ M \in Nat /\ Len(z) = L + M
      /\ \A k \in 1..L : z[k] = x[k]
      /\ \A k \in 1..M : z[L + k] = y[k]
  BY Concatenated
<1> HIDE DEF z
<1>2. ASSUME NEW k \in 1..Len(z) PROVE Quiet(z[k])
  <2>1. CASE k \in 1..L
    BY <1>1, <2>1 DEF AllQuiet
  <2>2. CASE k \notin 1..L
    <3>1. k - L \in 1..M /\ k = L + (k - L)
      BY <1>1, <2>2
    <3>2. z[k] = y[k - L]
      BY <1>1, <3>1
    <3> QED BY <3>1, <3>2 DEF AllQuiet
  <2> QED BY <2>1, <2>2
<1>3. AllQuiet(z)
  BY <1>2 DEF AllQuiet
<1> QED BY <1>3 DEF z

LEMMA ResultQuiet ==
    ASSUME NEW c \in Nat, NEW state \in {"SUCCESS", "DENIED"}, NEW text
    PROVE  AllQuiet(ResultEvents(c, state, text))
<1> DEFINE d == [type |-> "TOOL_RESULT_START", id |-> c]
           m == [type |-> "TOOL_RESULT_TEXT_DELTA", id |-> c]
           e == [type |-> "TOOL_RESULT_END", id |-> c, state |-> state]
           mid == IF text THEN <<m>> ELSE << >>
           x == <<d>> \o mid
<1>1. Quiet(d) /\ Quiet(m) /\ Quiet(e)
  BY DEF Quiet
<1>2. d \in EventT /\ m \in EventT /\ e \in EventT
  <2>1. state \in BlockStates
    BY DEF BlockStates
  <2> QED BY <2>1, EventsTyped
<1>3. ResultEvents(c, state, text) = x \o <<e>>
  BY DEF ResultEvents
<1> HIDE DEF d, m, e
<1>4. <<d>> \in Seq(EventT) /\ <<e>> \in Seq(EventT) /\ AllQuiet(<<d>>) /\ AllQuiet(<<e>>)
  BY <1>1, <1>2, OneQuiet
<1>5. mid \in Seq(EventT) /\ AllQuiet(mid)
  <2>1. CASE text
    <3>1. mid = <<m>>
      BY <2>1
    <3> HIDE DEF mid
    <3> QED BY <1>1, <1>2, <3>1, OneQuiet
  <2>2. CASE ~text
    <3>1. mid = << >>
      BY <2>2
    <3> HIDE DEF mid
    <3> QED BY <3>1 DEF AllQuiet
  <2> QED BY <2>1, <2>2
<1> HIDE DEF mid
<1>6. x \in Seq(EventT) /\ AllQuiet(x)
  <2>1. x \in Seq(EventT)
    BY <1>4, <1>5, Concatenated
  <2> QED BY <1>4, <1>5, <2>1, QuietConcat
<1> HIDE DEF x
<1>7. AllQuiet(x \o <<e>>)
  BY <1>4, <1>6, QuietConcat
<1> QED BY <1>3, <1>7

-----------------------------------------------------------------------------
(* The inductive invariant of a suspended reply.                           *)

\* What the context asks about the copy asks about, and every call is in the
\* message of the copy to which the answer will go.
CopyAsks ==
    /\ Asked(copy) = Asked(context)
    /\ Located(context, copy) /\ Located(copy, copy)

\* A call both lists of messages have.
Known(c) == c \in AllIds(context, "tool_call") /\ Home(copy, message_id, c)

AskedInv ==
    /\ CopyAsks
    /\ pc \notin {"idle", "asking", "paused"} => Asked(context) = {}
    /\ pc = "stream" => \A c \in attempt.started : Home(copy, message_id, c)
    /\ pc = "act" => \A n \in 1..Len(attempt.ended) : Known(attempt.ended[n])
    /\ pc = "asking" => \A n \in 1..Len(todo) : Known(todo[n])

\* While nothing is asked about, events that ask about nothing keep it so.
LEMMA QuietStep ==
    ASSUME CopyAsks, Asked(context) = {}, copy \in Seq(MsgT), NEW id \in Nat, NEW es, NEW C, NEW R,
           Leads(es, C, R), AllQuiet(es), copy' = Deliver(copy, id, es),
           Asked(context') \subseteq Asked(context), Located(context, copy') => Located(context', copy')
    PROVE  CopyAsks' /\ Asked(context') = {} /\ Preserves(copy, copy')
<1>1. /\ Preserves(copy, copy') /\ (Located(copy, copy) => Located(copy', copy'))
      /\ (AllQuiet(es) => Asked(copy') \subseteq Asked(copy))
  BY DeliverHomes DEF AllQuiet
<1>2. Located(context, copy')
  BY <1>1, LocatedKept DEF CopyAsks
<1> QED BY <1>1, <1>2 DEF CopyAsks

LEMMA UserHomes ==
    ASSUME NEW ms \in Seq(MsgT), NEW os
    PROVE  /\ Asked(Append(ms, User)) = Asked(ms) /\ Preserves(ms, Append(ms, User))
           /\ Located(ms, os) => Located(Append(ms, User), os)
<1>1. User \in MsgT /\ IdsOf(User.content, "tool_call") = {}
  BY UserTyped DEF IdTypes
<1>2. AskedIn(User.content) = {}
  BY <1>1, AskedAsCalls
<1> DEFINE u == User
<1> HIDE DEF u
<1>3. u \in MsgT /\ IdsOf(u.content, "tool_call") = {} /\ AskedIn(u.content) = {}
  BY <1>1, <1>2 DEF u
<1>4. Asked(Append(ms, u)) = Asked(ms)
  BY <1>3, AskedAppend
<1>5. Preserves(ms, Append(ms, u))
  BY <1>3, AppendHomes
<1>6. Located(ms, os) => Located(Append(ms, u), os)
  BY <1>3, LocatedAppend
<1> QED BY <1>4, <1>5, <1>6 DEF u

\* A user message goes to both lists.
LEMMA UserStep ==
    ASSUME CopyAsks, context \in Seq(MsgT), copy \in Seq(MsgT),
           context' = Append(context, User), copy' = Append(copy, User)
    PROVE  CopyAsks' /\ Asked(context') = Asked(context)
<1>1. Asked(context') = Asked(context) /\ Asked(copy') = Asked(copy) /\ Preserves(copy, copy')
  BY UserHomes
<1>2. Located(context, copy') /\ Located(copy, copy')
  BY <1>1, LocatedKept DEF CopyAsks
<1>3. Located(context', copy') /\ Located(copy', copy')
  BY <1>2, UserHomes
<1> QED BY <1>1, <1>3 DEF CopyAsks

LEMMA NewReplyPause == ASSUME OpensOnBlock, ConvInv, AskedInv, NewReply PROVE AskedInv'
<1>1. context \in Seq(MsgT) /\ copy \in Seq(MsgT) /\ CopyAsks
  BY DEF ConvInv, ContextInv, AskedInv
<1>2. context' = Append(context, User) /\ pc' = "reason" /\ ToolCallsInState(context, "ASKING") = {}
  BY DEF NewReply
<1>3. copy' = Append(copy, User)
  BY Zenon DEF NewReply, OpensOnBlock
<1>4. CopyAsks' /\ Asked(context') = {}
  BY <1>1, <1>2, <1>3, UserStep, AskingIsAsked
<1> QED BY <1>2, <1>4 DEF AskedInv

LEMMA ReasonPause == ASSUME ConvInv, AskedInv, NEW steered \in BOOLEAN, Reason(steered) PROVE AskedInv'
<1>1. context \in Seq(MsgT) /\ copy \in Seq(MsgT) /\ CopyAsks /\ Asked(context) = {}
  BY DEF ConvInv, ContextInv, AskedInv, Reason
<1>2. /\ context' = IF steered THEN Append(context, User) ELSE context
      /\ copy' = IF steered THEN Append(copy, User) ELSE copy
      /\ pc' = "stream" /\ attempt' = NoAttempt
  BY DEF Reason
<1>3. CopyAsks' /\ Asked(context') = {}
  <2>1. CASE steered
    BY <1>1, <1>2, <2>1, UserStep
  <2>2. CASE ~steered
    <3>1. context' = context /\ copy' = copy
      BY <1>2, <2>2
    <3> QED BY <1>1, <3>1 DEF CopyAsks
  <2> QED BY <2>1, <2>2
<1>4. attempt'.started = {}
  BY <1>2, NoAttemptOK
<1> QED BY <1>2, <1>3, <1>4 DEF AskedInv

LEMMA SpeakPause == ASSUME ConvInv, AskedInv, NEW kind \in {"text", "thinking"}, Speak(kind) PROVE AskedInv'
<1>1. /\ context \in Seq(MsgT) /\ copy \in Seq(MsgT) /\ message_id \in Nat /\ turn \in Nat
      /\ CopyAsks /\ Asked(context) = {} /\ \A c \in attempt.started : Home(copy, message_id, c)
  BY DEF ConvInv, ContextInv, AskedInv, Speak
<1> DEFINE b == IF kind = "text" THEN Text(turn) ELSE Thinking(turn)
           es == <<[type |-> "BLOCK_START", block |-> b], [type |-> "BLOCK_DELTA", block |-> b]>>
<1>2. copy' = Deliver(copy, message_id, es)
  BY DEF Speak, Emits
<1>3. b \in BlockT /\ b.type \in {"text", "thinking"}
  BY <1>1, BlocksTyped, BlocksAre
<1> HIDE DEF b
<1>4. Leads(es, {}, {}) /\ AllQuiet(es)
  BY <1>3, TextLeads, TextQuiet
<1> HIDE DEF es
<1>5. UNCHANGED <<context, pc, message_id>> /\ pc = "stream" /\ attempt' = [attempt EXCEPT ![kind] = TRUE]
  BY DEF Speak
<1>6. CopyAsks' /\ Asked(context') = {} /\ Preserves(copy, copy')
  BY <1>1, <1>2, <1>4, <1>5, QuietStep
<1>7. attempt'.started = attempt.started
  <2>1. AttemptOK
    BY DEF ConvInv, RunInv
  <2>2. CASE kind = "text"
    BY <1>5, <2>1, <2>2 DEF AttemptOK
  <2>3. CASE kind = "thinking"
    BY <1>5, <2>1, <2>3 DEF AttemptOK
  <2> QED BY <2>2, <2>3
<1>8. \A c \in attempt'.started : Home(copy', message_id', c)
  BY <1>1, <1>5, <1>6, <1>7 DEF Preserves
<1> QED BY <1>5, <1>6, <1>8 DEF AskedInv

LEMMA CallStartsPause == ASSUME OpensOnBlock, ConvInv, AskedInv, CallStarts PROVE AskedInv'
<1>1. /\ context \in Seq(MsgT) /\ copy \in Seq(MsgT) /\ message_id \in Nat /\ turn \in Nat
      /\ CopyAsks /\ Asked(context) = {} /\ \A c \in attempt.started : Home(copy, message_id, c)
  BY DEF ConvInv, ContextInv, AskedInv, CallStarts
<1>2. PICK c \in Calls \ Made : /\ Emits(<<[type |-> "TOOL_CALL_START", id |-> c, turn |-> turn]>>)
                               /\ attempt' = [attempt EXCEPT !.started = @ \cup {c}]
  BY DEF CallStarts
<1> DEFINE es == <<[type |-> "TOOL_CALL_START", id |-> c, turn |-> turn]>>
<1>3. c \in Nat
  BY CallsAreNat
<1>4. Leads(es, {c}, {}) /\ AllQuiet(es) /\ Home(Deliver(copy, message_id, es), message_id, c)
  BY <1>1, <1>3, CallLeads, CallQuiet, CallDelivered
<1>5. copy' = Deliver(copy, message_id, es)
  BY <1>2 DEF Emits
<1> HIDE DEF es
<1>6. UNCHANGED <<context, pc, message_id>> /\ pc = "stream"
  BY DEF CallStarts
<1>7. CopyAsks' /\ Asked(context') = {} /\ Preserves(copy, copy')
  BY <1>1, <1>4, <1>5, <1>6, QuietStep
<1>8. attempt'.started = attempt.started \cup {c}
  BY <1>2 DEF ConvInv, RunInv, AttemptOK
<1>9. \A d \in attempt'.started : Home(copy', message_id', d)
  BY <1>1, <1>4, <1>5, <1>6, <1>7, <1>8 DEF Preserves
<1> QED BY <1>6, <1>7, <1>9 DEF AskedInv

LEMMA CallEndsPause == ASSUME ConvInv, AskedInv, NEW c \in Calls, CallEnds(c) PROVE AskedInv'
<1>1. UNCHANGED <<context, copy, pc, message_id>> /\ pc = "stream"
  BY DEF CallEnds
<1>2. attempt'.started = attempt.started
  BY DEF CallEnds, ConvInv, RunInv, AttemptOK
<1> QED BY <1>1, <1>2 DEF AskedInv, CopyAsks

LEMMA FinishPause == ASSUME ConvInv, AskedInv, NEW cut \in BOOLEAN, NEW reported, Finish(cut, reported) PROVE AskedInv'
<1> DEFINE calls == IF cut THEN << >> ELSE attempt.ended
           bs == Stored(calls)
           es == ModelCallEnd(reported)
<1>1. /\ context \in Seq(MsgT) /\ copy \in Seq(MsgT) /\ message_id \in Nat /\ turn \in Nat /\ AttemptOK
      /\ CopyAsks /\ Asked(context) = {} /\ \A c \in attempt.started : Home(copy, message_id, c)
  BY DEF ConvInv, ContextInv, RunInv, AskedInv, Finish
<1>2. /\ context' = AppendReplyBlocks(context, message_id, bs)
      /\ pc' \in CASE calls # << >> -> {"act"}
                   [] calls = << >> /\ attempt.text -> {"exit"}
                   [] OTHER -> {"reason", "exit"}
      /\ attempt' = IF calls # << >> THEN attempt ELSE NoAttempt
      /\ copy' = Deliver(copy, message_id, es)
      /\ message_id' = message_id
  BY DEF Finish, Emits
<1>3. /\ calls \in Seq(Nat) /\ \A i, j \in 1..Len(calls) : calls[i] = calls[j] => i = j
      /\ \A i \in 1..Len(calls) : calls[i] \in attempt.started
  <2>1. CASE cut
    <3>1. calls = << >>
      BY <2>1
    <3> HIDE DEF calls
    <3> QED BY <3>1
  <2>2. CASE ~cut
    <3>1. calls = attempt.ended
      BY <2>2
    <3> HIDE DEF calls
    <3> QED BY <1>1, <3>1 DEF AttemptOK
  <2> QED BY <2>1, <2>2
<1>4. calls # << >> => calls = attempt.ended
  OBVIOUS
<1> HIDE DEF calls
<1>5. /\ bs \in Seq(BlockT) /\ \A t \in IdTypes : OneEach(bs, t)
      /\ IdsOf(bs, "tool_call") \subseteq {calls[n] : n \in 1..Len(calls)}
  BY <1>1, <1>3, StoredTyped
<1>6. AskedIn(bs) = {} /\ \A n \in 1..Len(calls) : calls[n] \in IdsOf(bs, "tool_call")
  BY <1>1, <1>3, StoredCalls
<1>7. Leads(es, {}, {}) /\ AllQuiet(es)
  BY <1>1, EndLeads, EndQuiet
<1> HIDE DEF bs, es
<1>8. Preserves(copy, copy')
  BY <1>1, <1>2, <1>7, DeliverHomes
<1>9. \A c \in IdsOf(bs, "tool_call") : Home(copy', message_id, c)
  BY <1>1, <1>3, <1>5, <1>8 DEF Preserves
<1>10. Asked(context') \subseteq Asked(context) /\ (Located(context, copy') => Located(context', copy'))
  BY <1>1, <1>2, <1>5, <1>6, <1>9, ReplyHomes
<1>11. CopyAsks' /\ Asked(context') = {}
  BY <1>1, <1>2, <1>7, <1>10, QuietStep
<1>12. IdsOf(bs, "tool_call") \subseteq AllIds(context', "tool_call")
  BY <1>1, <1>2, <1>5, ReplyBlocksKept DEF IdTypes
<1>13. pc' = "act" => \A n \in 1..Len(attempt'.ended) : /\ attempt'.ended[n] \in AllIds(context', "tool_call")
                                                            /\ Home(copy', message_id', attempt'.ended[n])
  <2> SUFFICES ASSUME pc' = "act", NEW n \in 1..Len(attempt'.ended)
               PROVE  attempt'.ended[n] \in AllIds(context', "tool_call") /\ Home(copy', message_id', attempt'.ended[n])
    OBVIOUS
  <2>1. calls # << >>
    BY <1>2
  <2>2. attempt' = attempt /\ calls = attempt.ended
    BY <1>2, <1>4, <2>1
  <2>3. attempt'.ended[n] \in IdsOf(bs, "tool_call")
    BY <1>6, <2>2
  <2> QED BY <1>2, <1>9, <1>12, <2>3
<1>14. pc' \in {"act", "exit", "reason"}
  BY <1>2
<1> QED BY <1>11, <1>13, <1>14 DEF AskedInv, Known

LEMMA FailPause == ASSUME ConvInv, AskedInv, NEW reported, Fail(reported) PROVE AskedInv'
<1> DEFINE bs == Stored(<< >>)
           es == ModelCallEnd(reported)
<1>1. /\ context \in Seq(MsgT) /\ copy \in Seq(MsgT) /\ message_id \in Nat /\ turn \in Nat
      /\ CopyAsks /\ Asked(context) = {}
  BY DEF ConvInv, ContextInv, AskedInv, Fail
<1>2. /\ context' = AppendReplyBlocks(context, message_id, bs) /\ copy' = Deliver(copy, message_id, es)
      /\ attempt' = NoAttempt
  BY DEF Fail, Emits
<1>3. /\ bs \in Seq(BlockT) /\ \A t \in IdTypes : OneEach(bs, t)
      /\ IdsOf(bs, "tool_call") = {} /\ AskedIn(bs) = {}
  <2> DEFINE e == << >>
  <2>1. e \in Seq(Nat) /\ Len(e) = 0
    OBVIOUS
  <2> HIDE DEF e
  <2>2. /\ Stored(e) \in Seq(BlockT) /\ \A t \in IdTypes : OneEach(Stored(e), t)
        /\ IdsOf(Stored(e), "tool_call") \subseteq {e[n] : n \in 1..Len(e)} /\ AskedIn(Stored(e)) = {}
    <3>1. \A i, j \in 1..Len(e) : e[i] = e[j] => i = j
      BY <2>1
    <3> QED BY <1>1, <2>1, <3>1, StoredTyped, StoredCalls
  <2>3. IdsOf(Stored(e), "tool_call") = {}
    BY <2>1, <2>2
  <2> QED BY <2>2, <2>3 DEF e
<1>4. Leads(es, {}, {}) /\ AllQuiet(es)
  BY <1>1, EndLeads, EndQuiet
<1>5. pc' \in {"stream", "exit"}
  BY DEF Fail
<1> HIDE DEF bs, es
<1>6. Asked(context') \subseteq Asked(context) /\ (Located(context, copy') => Located(context', copy'))
  BY <1>1, <1>2, <1>3, ReplyHomes
<1>7. CopyAsks' /\ Asked(context') = {}
  BY <1>1, <1>2, <1>4, <1>6, QuietStep
<1>8. attempt'.started = {}
  BY <1>2, NoAttemptOK
<1> QED BY <1>5, <1>7, <1>8 DEF AskedInv

\* The steps that leave the messages alone.
LEMMA IdleStepsPause ==
    ASSUME AskedInv, GiveUp \/ ReplyEnds \/ PassOver \/ Execute \/ BatchEnds \/ BatchCancelled
    PROVE  AskedInv'
<1>1. UNCHANGED <<context, copy>>
  BY DEF GiveUp, ReplyEnds, PassOver, Execute, BatchEnds, BatchCancelled
<1>2. pc' \in {"exit", "idle", "reason", "acting"} /\ pc \notin {"idle", "asking", "paused"}
  BY DEF GiveUp, ReplyEnds, PassOver, Execute, BatchEnds, BatchCancelled
<1> QED BY <1>1, <1>2 DEF AskedInv, CopyAsks

LEMMA AskAboutPause ==
    ASSUME ConvInv, AskedInv, NEW asked, asked \subseteq Range(attempt.ended), AskAbout(asked)
    PROVE  AskedInv'
<1> DEFINE s == attempt.ended
           P == {n \in DOMAIN s : s[n] \in asked}
           out == Select(s, P)
<1>1. UNCHANGED <<context, copy, message_id>> /\ todo' = out /\ pc' = "asking" /\ pc = "act"
  BY DEF AskAbout
<1>2. s \in Seq(Nat)
  BY DEF ConvInv, RunInv, AttemptOK
<1>3. out \in Seq(Nat) /\ \E row : SelectedFrom(row, out, s, P)
  BY <1>2, SelectPlaces
<1>4. PICK row : SelectedFrom(row, out, s, P)
  BY <1>3
<1> HIDE DEF out, P
<1>5. \A n \in 1..Len(out) : row[n] \in 1..Len(s) /\ out[n] = s[row[n]]
  BY <1>4 DEF SelectedFrom
<1>6. \A n \in 1..Len(s) : s[n] \in AllIds(context, "tool_call") /\ Home(copy, message_id, s[n])
  BY <1>1 DEF AskedInv, Known
<1> HIDE DEF s
<1>7. \A n \in 1..Len(todo') : todo'[n] \in AllIds(context', "tool_call") /\ Home(copy', message_id', todo'[n])
  BY <1>1, <1>5, <1>6
<1>8. CopyAsks'
  BY <1>1 DEF AskedInv, CopyAsks
<1> QED BY <1>1, <1>7, <1>8 DEF AskedInv, Known

LEMMA CallOwned ==
    ASSUME NEW ms \in Seq(MsgT), NEW c \in AllIds(ms, "tool_call")
    PROVE  Owners(ms, c) # {}
<1>1. PICK i \in 1..Len(ms) : c \in IdsOf(ms[i].content, "tool_call")
  BY DEF AllIds
<1>2. ms[i] \in MsgT
  OBVIOUS
<1>3. ms[i].content \in Seq(BlockT)
  BY <1>2, MsgFields
<1> DEFINE bs == ms[i].content
           at == {k \in DOMAIN bs : bs[k].type = "tool_call" /\ bs[k].id = c}
<1>4. at # {}
  <2>1. DOMAIN bs = 1..Len(bs)
    BY <1>3
  <2> QED BY <1>1, <2>1 DEF IdsOf
<1>5. FindBlock(ms[i], "tool_call", c) = IF at = {} THEN {} ELSE {Min(at)}
  BY DEF FindBlock
<1> HIDE DEF at
<1>6. FindBlock(ms[i], "tool_call", c) # {}
  BY <1>4, <1>5
<1>7. i \in DOMAIN ms
  OBVIOUS
<1> HIDE DEF bs
<1> QED BY <1>6, <1>7 DEF Owners

\* The message that is found to hold a call holds it.
LEMMA OwnerHolds ==
    ASSUME NEW ms \in Seq(MsgT), NEW c, Owners(ms, c) # {}
    PROVE  /\ Min(Owners(ms, c)) \in 1..Len(ms)
           /\ c \in IdsOf(ms[Min(Owners(ms, c))].content, "tool_call")
<1> DEFINE at == Owners(ms, c)
           i == Min(at)
           bs == ms[i].content
<1>1. at \subseteq 1..Len(ms) /\ at \subseteq Nat
  BY DEF Owners
<1>2. i \in at
  <2>1. at # {}
    OBVIOUS
  <2> HIDE DEF at
  <2> QED BY <1>1, <2>1, MinIn
<1>3. FindBlock(ms[i], "tool_call", c) # {}
  BY <1>2 DEF Owners
<1>4. \E k \in DOMAIN bs : bs[k].type = "tool_call" /\ bs[k].id = c
  BY <1>3 DEF FindBlock
<1> HIDE DEF at, i
<1>5. i \in 1..Len(ms)
  BY <1>1, <1>2
<1>6. ms[i] \in MsgT
  BY <1>5
<1>7. bs \in Seq(BlockT)
  BY <1>6, MsgFields
<1> HIDE DEF bs
<1>8. PICK k \in 1..Len(bs) : bs[k].type = "tool_call" /\ bs[k].id = c
  BY <1>4, <1>7
<1>9. bs[k].id \in Nat
  BY <1>7, BlockFields
<1>10. c \in IdsOf(bs, "tool_call")
  BY <1>8, <1>9 DEF IdsOf
<1> QED BY <1>5, <1>10 DEF bs, i, at

\* A question, or an answer, is known to both lists.
LEMMA ConfirmStep ==
    ASSUME ConvInv, CopyAsks, NEW c, NEW id \in Nat, NEW e \in EventT, e.id = c,
           e.type \in {"REQUIRE_USER_CONFIRM", "USER_CONFIRM_RESULT"},
           Owners(context, c) # {}, Home(copy, id, c),
           context' = SetToolCallState(context, c, MarkOf(e)), copy' = Deliver(copy, id, <<e>>)
    PROVE  /\ CopyAsks' /\ Preserves(copy, copy')
           /\ AllIds(context, "tool_call") \subseteq AllIds(context', "tool_call")
<1>1. /\ context \in Seq(MsgT) /\ copy \in Seq(MsgT) /\ Once(context, "tool_call") /\ Once(copy, "tool_call")
      /\ MarkOf(e) \in BlockStates
  BY DEF ConvInv, ContextInv, IdTypes, MarkOf, BlockStates
<1>2. Asked(context') = Marked(Asked(context), c, MarkOf(e)) /\ (Located(context, copy') => Located(context', copy'))
  BY <1>1, StateHomes
<1>3. Asked(copy') = Marked(Asked(copy), c, MarkOf(e))
  BY <1>1, ConfirmDelivered
<1>4. Leads(<<e>>, {}, {})
  BY OneEvent
<1>5. Preserves(copy, copy') /\ (Located(copy, copy) => Located(copy', copy'))
  <2> DEFINE es == <<e>>
  <2> HIDE DEF es
  <2>1. Leads(es, {}, {}) /\ copy' = Deliver(copy, id, es)
    BY <1>4 DEF es
  <2> QED BY <1>1, <2>1, DeliverHomes
<1>6. Located(context, copy')
  BY <1>5, LocatedKept DEF CopyAsks
<1>7. AllIds(context, "tool_call") \subseteq AllIds(context', "tool_call")
  BY <1>1, GrowsState DEF Grows, Grown
<1> QED BY <1>2, <1>3, <1>5, <1>6, <1>7 DEF CopyAsks

LEMMA AskPause == ASSUME ConvInv, AskedInv, Ask PROVE AskedInv'
<1> DEFINE c == Head(todo)
           e == [type |-> "REQUIRE_USER_CONFIRM", id |-> c]
           r == Tail(todo)
<1>1. /\ context \in Seq(MsgT) /\ message_id \in Nat /\ todo \in Seq(Nat) /\ todo # << >> /\ CopyAsks /\ pc = "asking"
      /\ \A n \in 1..Len(todo) : todo[n] \in AllIds(context, "tool_call") /\ Home(copy, message_id, todo[n])
  BY DEF ConvInv, ContextInv, RunInv, AskedInv, Known, Ask
<1>2. /\ c \in Nat /\ c = todo[1] /\ 1 \in 1..Len(todo)
      /\ \A n \in 1..Len(r) : n + 1 \in 1..Len(todo) /\ r[n] = todo[n + 1]
  <2>1. Len(todo) \in Nat /\ Len(todo) >= 1 /\ c = todo[1] /\ c \in Nat /\ Len(r) = Len(todo) - 1
        /\ \A n \in 1..Len(r) : r[n] = todo[n + 1]
    BY <1>1
  <2> HIDE DEF c, r
  <2> QED BY <2>1
<1>3. /\ context' = SetToolCallState(context, c, "ASKING") /\ copy' = Deliver(copy, message_id, <<e>>)
      /\ message_id' = message_id /\ todo' = r /\ pc' = IF r = << >> THEN "paused" ELSE pc
  BY DEF Ask, Emits
<1>4. e \in EventT /\ e.id = c /\ e.type = "REQUIRE_USER_CONFIRM" /\ MarkOf(e) = "ASKING"
  BY <1>2, EventsTyped DEF MarkOf
<1> HIDE DEF c, e, r
<1>5. c \in AllIds(context, "tool_call") /\ Home(copy, message_id, c)
  BY <1>1, <1>2
<1>6. Owners(context, c) # {}
  BY <1>1, <1>5, CallOwned
<1>7. /\ CopyAsks' /\ Preserves(copy, copy')
      /\ AllIds(context, "tool_call") \subseteq AllIds(context', "tool_call")
  BY <1>1, <1>3, <1>4, <1>5, <1>6, ConfirmStep
<1>8. \A n \in 1..Len(todo') : todo'[n] \in AllIds(context', "tool_call") /\ Home(copy', message_id', todo'[n])
  BY <1>1, <1>2, <1>3, <1>7 DEF Preserves
<1>9. pc' \in {"asking", "paused"}
  BY <1>1, <1>3
<1> QED BY <1>7, <1>8, <1>9 DEF AskedInv, Known

LEMMA ConfirmPause == ASSUME ConvInv, AskedInv, NEW c \in Calls, NEW approved \in BOOLEAN, Confirm(c, approved) PROVE AskedInv'
<1> DEFINE owner == context[Min(Owners(context, c))]
           expected == IF approved THEN "ALLOWED" ELSE "FINISHED"
           confirmed == SetToolCallState(context, c, expected)
           resumes == ToolCallsInState(confirmed, "ASKING") = {}
           e == [type |-> "USER_CONFIRM_RESULT", id |-> c, approved |-> approved]
<1>1. context \in Seq(MsgT) /\ CopyAsks
  BY DEF ConvInv, ContextInv, AskedInv
<1>2. /\ Owners(context, c) # {} /\ context' = confirmed /\ copy' = Deliver(copy, owner.id, <<e>>)
      /\ pc' = IF resumes THEN "acting" ELSE "paused"
  BY DEF Confirm
<1>3. e \in EventT /\ e.id = c /\ e.type = "USER_CONFIRM_RESULT" /\ MarkOf(e) = expected
  <2>1. c \in Nat
    BY CallsAreNat
  <2> QED BY <2>1, EventsTyped DEF MarkOf
<1>4. owner.id \in Nat /\ Home(copy, owner.id, c)
  <2> DEFINE i == Min(Owners(context, c))
  <2>1. i \in 1..Len(context) /\ c \in IdsOf(context[i].content, "tool_call")
    BY <1>1, <1>2, OwnerHolds
  <2> HIDE DEF i
  <2>2. Home(copy, context[i].id, c)
    BY <1>1, <2>1 DEF CopyAsks, Located
  <2>3. context[i] \in MsgT
    BY <1>1, <2>1
  <2>4. context[i].id \in Nat
    BY <2>3, MsgFields
  <2> QED BY <2>2, <2>4 DEF i
<1> HIDE DEF owner, expected, e
<1>5. CopyAsks'
  BY <1>1, <1>2, <1>3, <1>4, ConfirmStep
<1>6. context' \in Seq(MsgT)
  BY NextInv DEF Next, ConvInv, ContextInv
<1>7. resumes => Asked(context') = {}
  BY <1>2, <1>6, AskingIsAsked
<1> HIDE DEF resumes
<1>8. pc' \in {"acting", "paused"} /\ (pc' = "acting" => resumes)
  BY <1>2
<1> QED BY <1>5, <1>7, <1>8 DEF AskedInv

\* A result is written while nothing is asked about.
LEMMA AnswersPause ==
    ASSUME ConvInv, CopyAsks, Asked(context) = {}, NEW c \in Nat, NEW state \in {"SUCCESS", "DENIED"}, NEW text,
           Answers(c, state, text)
    PROVE  CopyAsks' /\ Asked(context') = {}
<1> DEFINE b == Result(c, state)
           bs == <<b>>
           es == ResultEvents(c, state, text)
           mid == SetToolCallState(context, c, "FINISHED")
<1>1. context \in Seq(MsgT) /\ copy \in Seq(MsgT) /\ message_id \in Nat
  BY DEF ConvInv, ContextInv
<1>2. state \in BlockStates /\ "FINISHED" \in BlockStates
  BY DEF BlockStates
<1>3. b \in BlockT /\ b.type = "tool_result"
  BY <1>2, BlocksTyped, BlocksAre
<1>4. context' = AppendReplyBlocks(mid, message_id, bs) /\ copy' = Deliver(copy, message_id, es)
  BY DEF Answers, Emits
<1>5. Leads(es, {}, {c}) /\ AllQuiet(es)
  BY <1>2, ResultLeads, ResultQuiet
<1>6. mid \in Seq(MsgT) /\ Asked(mid) \subseteq Asked(context) /\ (Located(context, copy') => Located(mid, copy'))
  <2>1. mid \in Seq(MsgT)
    BY <1>1, <1>2, GrowsState DEF Grows, Grown
  <2> QED BY <1>1, <1>2, <2>1, StateHomes
<1> HIDE DEF b, es, mid
<1>7. bs \in Seq(BlockT) /\ (\A t \in IdTypes : OneEach(bs, t)) /\ AskedIn(bs) = {} /\ IdsOf(bs, "tool_call") = {}
  <2>1. AskedIn(bs) = {}
    BY <1>3, AskedBlock DEF AskedIf
  <2> QED BY <1>3, <2>1, OneBlock DEF IdIf
<1> HIDE DEF bs
<1>8. Asked(context') \subseteq Asked(context) /\ (Located(context, copy') => Located(context', copy'))
  <2>1. \A k \in IdsOf(bs, "tool_call") : Home(copy', message_id, k)
    BY <1>7
  <2>2. /\ Asked(AppendReplyBlocks(mid, message_id, bs)) \subseteq Asked(mid)
        /\ Located(mid, copy') => Located(AppendReplyBlocks(mid, message_id, bs), copy')
    BY <1>1, <1>6, <1>7, <2>1, ReplyHomes
  <2> QED BY <1>4, <1>6, <2>2
<1> QED BY <1>1, <1>4, <1>5, <1>8, QuietStep

LEMMA WriteResultPause == ASSUME ConvInv, AskedInv, NEW hint \in BOOLEAN, WriteResult(hint) PROVE AskedInv'
<1>1. /\ CopyAsks /\ Asked(context) = {} /\ todo \in Seq(Nat) /\ todo # << >> /\ pc' = "acting"
      /\ Answers(Head(todo), "SUCCESS", ~hint)
  BY DEF ConvInv, RunInv, AskedInv, WriteResult
<1>2. Head(todo) \in Nat /\ "SUCCESS" \in {"SUCCESS", "DENIED"}
  BY <1>1
<1>3. CopyAsks' /\ Asked(context') = {}
  BY <1>1, <1>2, AnswersPause
<1> QED BY <1>1, <1>3 DEF AskedInv

LEMMA WriteDeniedPause == ASSUME ConvInv, AskedInv, WriteDenied PROVE AskedInv'
<1>1. /\ CopyAsks /\ Asked(context) = {} /\ denied \in Seq(Nat) /\ denied # << >> /\ pc' = "acting"
      /\ Answers(Head(denied), "DENIED", TRUE)
  BY DEF ConvInv, RunInv, AskedInv, WriteDenied
<1>2. Head(denied) \in Nat /\ "DENIED" \in {"SUCCESS", "DENIED"}
  BY <1>1
<1>3. CopyAsks' /\ Asked(context') = {}
  BY <1>1, <1>2, AnswersPause
<1> QED BY <1>1, <1>3 DEF AskedInv

LEMMA HintPause == ASSUME ConvInv, AskedInv, WriteHint \/ ContinueTurn PROVE AskedInv'
<1> DEFINE bs == <<Hint>>
           es == <<[type |-> "HINT_BLOCK"]>>
<1>1. context \in Seq(MsgT) /\ copy \in Seq(MsgT) /\ message_id \in Nat /\ CopyAsks /\ Asked(context) = {}
  BY DEF ConvInv, ContextInv, AskedInv, WriteHint, ContinueTurn
<1>2. /\ context' = AppendReplyBlocks(context, message_id, bs) /\ copy' = Deliver(copy, message_id, es)
      /\ pc' \in {"acting", "reason"}
  BY DEF WriteHint, ContinueTurn, Emits
<1>3. Leads(es, {}, {}) /\ AllQuiet(es)
  <2> DEFINE e == [type |-> "HINT_BLOCK"]
  <2>1. e \in EventT /\ e.type = "HINT_BLOCK"
    BY EventsTyped
  <2> HIDE DEF e
  <2>2. Leads(<<e>>, {}, {})
    BY <2>1, OneEvent
  <2> QED BY <2>2, HintQuiet DEF e
<1>4. /\ bs \in Seq(BlockT) /\ \A t \in IdTypes : OneEach(bs, t)
      /\ AskedIn(bs) = {} /\ IdsOf(bs, "tool_call") = {}
  <2> DEFINE h == Hint
  <2>1. h \in BlockT /\ h.type = "hint"
    BY BlocksTyped, BlocksAre
  <2> HIDE DEF h
  <2>2. AskedIn(<<h>>) = {}
    BY <2>1, AskedBlock DEF AskedIf
  <2>3. <<h>> \in Seq(BlockT) /\ (\A t \in IdTypes : OneEach(<<h>>, t)) /\ IdsOf(<<h>>, "tool_call") = {}
    BY <2>1, OneBlock DEF IdIf
  <2> QED BY <2>2, <2>3 DEF h
<1> HIDE DEF bs, es
<1>5. Asked(context') \subseteq Asked(context) /\ (Located(context, copy') => Located(context', copy'))
  BY <1>1, <1>2, <1>4, ReplyHomes
<1>6. CopyAsks' /\ Asked(context') = {}
  BY <1>1, <1>2, <1>3, <1>5, QuietStep
<1> QED BY <1>2, <1>6 DEF AskedInv

\* A new agent gets what the host has, which knows its own calls.
LEMMA CrashPause == ASSUME ConvInv, AskedInv, Crash \/ CrashInResult PROVE AskedInv'
<1>1. copy \in Seq(MsgT) /\ message_id \in Nat /\ Located(copy, copy)
  BY DEF ConvInv, ContextInv, AskedInv, CopyAsks
<1>2. pc' = "idle" /\ context' = copy'
  BY DEF Crash, CrashInResult, Dies
<1>3. Located(copy', copy')
  <2>1. CASE Crash
    <3>1. copy' = copy
      BY <2>1 DEF Crash, Dies
    <3> QED BY <1>1, <3>1
  <2>2. CASE CrashInResult
    <3> DEFINE c == Head(todo)
               es == <<[type |-> "TOOL_RESULT_START", id |-> c]>>
    <3>1. todo \in Seq(Nat) /\ todo # << >>
      BY <2>2 DEF ConvInv, RunInv, CrashInResult
    <3>2. c \in Nat
      BY <3>1
    <3>3. copy' = Deliver(copy, message_id, es)
      BY <2>2 DEF CrashInResult, Dies
    <3> HIDE DEF c
    <3>4. Leads(es, {}, {c})
      BY <3>2, StartLeads
    <3> HIDE DEF es
    <3> QED BY <1>1, <3>3, <3>4, DeliverHomes
  <2> QED BY <2>1, <2>2
<1> QED BY <1>2, <1>3 DEF AskedInv, CopyAsks

LEMMA NextPause == ASSUME OpensOnBlock, ConvInv, AskedInv, Next PROVE AskedInv'
<1>1. CASE NewReply
  BY <1>1, NewReplyPause
<1>2. CASE GiveUp \/ ReplyEnds \/ PassOver \/ Execute \/ BatchEnds \/ BatchCancelled
  BY <1>2, IdleStepsPause
<1>3. CASE WriteHint \/ ContinueTurn
  BY <1>3, HintPause
<1>4. ASSUME NEW steered \in BOOLEAN, Reason(steered) PROVE AskedInv'
  BY <1>4, ReasonPause
<1>5. ASSUME NEW kind \in {"text", "thinking"}, Speak(kind) PROVE AskedInv'
  BY <1>5, SpeakPause
<1>6. CASE CallStarts
  BY <1>6, CallStartsPause
<1>7. ASSUME NEW c \in Calls, CallEnds(c) PROVE AskedInv'
  BY <1>7, CallEndsPause
<1>8. ASSUME NEW cut \in BOOLEAN, NEW reported \in Reports, Finish(cut, reported) PROVE AskedInv'
  BY <1>8, FinishPause
<1>9. ASSUME NEW reported \in BOOLEAN, Fail(reported) PROVE AskedInv'
  BY <1>9, FailPause
<1>10. CASE Ask
  BY <1>10, AskPause
<1>11. ASSUME NEW asked \in SUBSET Calls, AskAbout(asked \cap Range(attempt.ended)) PROVE AskedInv'
  BY <1>11, AskAboutPause
<1>12. ASSUME NEW c \in Calls, NEW approved \in BOOLEAN, Confirm(c, approved) PROVE AskedInv'
  BY <1>12, ConfirmPause
<1>13. ASSUME NEW hint \in BOOLEAN, WriteResult(hint) PROVE AskedInv'
  BY <1>13, WriteResultPause
<1>14. CASE WriteDenied
  BY <1>14, WriteDeniedPause
<1>15. CASE Crash \/ CrashInResult
  BY <1>15, CrashPause
<1> QED BY <1>1, <1>2, <1>3, <1>4, <1>5, <1>6, <1>7, <1>8, <1>9, <1>10, <1>11, <1>12, <1>13, <1>14, <1>15 DEF Next

\* At the start nothing is asked about.
LEMMA NothingAsked == Asked(<< >>) = {} /\ Located(<< >>, << >>)
<1>1. 1..Len(<< >>) = {}
  OBVIOUS
<1> QED BY <1>1, Zenon DEF Asked, Located

\* With a host that opens a message when its first block comes, the context
\* and the copy ask about the same calls at every moment.
THEOREM CopyKnowsTheCalls == ASSUME Host = "first block" PROVE Spec => [](ConvInv /\ AskedInv)
<1>1. OpensOnBlock
  BY Zenon DEF OpensOnBlock
<1>2. Init => AskedInv
  <2> SUFFICES ASSUME Init PROVE AskedInv
    OBVIOUS
  <2>1. context = << >> /\ copy = << >> /\ pc = "idle"
    BY DEF Init
  <2>2. Asked(<< >>) = {} /\ Located(<< >>, << >>)
    BY NothingAsked
  <2> QED BY <2>1, <2>2 DEF AskedInv, CopyAsks
<1>3. ConvInv /\ AskedInv /\ [Next]_vars => AskedInv'
  <2>1. ASSUME AskedInv, UNCHANGED vars PROVE AskedInv'
    BY <2>1 DEF AskedInv, CopyAsks, Known, vars, run, counters
  <2> QED BY <1>1, <2>1, NextPause
<1> QED BY <1>2, <1>3, InitInv, NextInv, StutterInv, PTL DEF Spec

\* _msg.py:399-401: a suspended reply can be resumed from the copy of such a
\* host: it waits for the same answers.
THEOREM PausedReplySurvives == ASSUME Host = "first block" PROVE Spec => []PauseSurvives
<1>1. ConvInv /\ AskedInv => PauseSurvives
  <2> SUFFICES ASSUME ConvInv, AskedInv PROVE PauseSurvives
    OBVIOUS
  <2>1. context \in Seq(MsgT) /\ copy \in Seq(MsgT) /\ Asked(copy) = Asked(context)
    BY DEF ConvInv, ContextInv, AskedInv, CopyAsks
  <2> QED BY <2>1, AskingIsAsked DEF PauseSurvives
<1> QED BY <1>1, CopyKnowsTheCalls, PTL
=============================================================================
