--------------------------- MODULE ContentProofs ----------------------------
(***************************************************************************)
(* Proofs about what is in a request: the items of an envelope, which the  *)
(* server reads as the client wrote them, and the grouping key of an       *)
(* event.  For any items, of any number and size, any limit on a body, any *)
(* fingerprints and exceptions, and texts of any length that hold no NUL.  *)
(*                                                                         *)
(* Bodies, items and texts are sequences of any length, so both parts take *)
(* inductions, which are made with sets of numbers (NatSetInduction) in    *)
(* place of a schema.                                                      *)
(***************************************************************************)
EXTENDS Envelope, Grouping, SequenceTheorems, WellFoundedInduction, TLAPS

-----------------------------------------------------------------------------
(***************************************************************************)
(* Induction, and the sequences that FlattenSeq makes.                     *)
(***************************************************************************)
\* Induction on numbers, with the set of those that a fact holds of.
LEMMA NatSetInduction ==
    ASSUME NEW S, 0 \in S, \A n \in Nat : n \in S => n + 1 \in S
    PROVE  Nat \subseteq S
<1> DEFINE T == Nat \ S
<1>1. SUFFICES ASSUME T # {} PROVE FALSE
  OBVIOUS
<1>2. \E n \in T : \A m \in T : ~(<<m, n>> \in OpToRel(<, Nat))
  BY <1>1, NatLessThanWellFounded, WFMin
<1>3. PICK n \in T : \A m \in T : ~(m < n)
  BY <1>2 DEF OpToRel
<1>4. n # 0 /\ n - 1 \in Nat /\ n - 1 < n
  OBVIOUS
<1>5. n - 1 \in S
  BY <1>3, <1>4
<1> QED BY <1>4, <1>5

FlattenStep(f, s, i) == IF i = 1 THEN s[i] ELSE f[i - 1] \o s[i]

\* The function that FlattenSeq chooses exists: each of its values is made of
\* the one before.
LEMMA FlattenExists ==
    ASSUME NEW s, NEW m \in Nat
    PROVE  \E f : f = [i \in 1 .. m |-> FlattenStep(f, s, i)]
<1> DEFINE Good(k) == \E f : f = [i \in 1 .. k |-> FlattenStep(f, s, i)]
           S == {k \in Nat : Good(k)}
<1>1. 0 \in S
  <2> DEFINE f == [i \in 1 .. 0 |-> <<>>]
  <2>1. f = [i \in 1 .. 0 |-> FlattenStep(f, s, i)]
    OBVIOUS
  <2>2. Good(0)
    BY <2>1
  <2> QED BY <2>2
<1>2. ASSUME NEW k \in Nat, k \in S PROVE k + 1 \in S
  <2>1. Good(k)
    BY <1>2
  <2>2. PICK f : f = [i \in 1 .. k |-> FlattenStep(f, s, i)]
    BY <2>1
  <2> DEFINE g == [i \in 1 .. k + 1 |-> IF i <= k THEN f[i] ELSE FlattenStep(f, s, i)]
  <2>3. \A i \in 1 .. k + 1 : /\ g[i] = IF i <= k THEN f[i] ELSE FlattenStep(f, s, i)
                              /\ i > k => i = k + 1
                              /\ i <= k => i \in 1 .. k
    OBVIOUS
  <2>4. \A i \in 1 .. k : f[i] = FlattenStep(f, s, i)
    BY <2>2
  <2>5. g = [i \in 1 .. k + 1 |-> g[i]]
    OBVIOUS
  <2> HIDE DEF g
  <2>7. ASSUME NEW i \in 1 .. k + 1 PROVE g[i] = FlattenStep(g, s, i)
    <3>1. i = 1 \/ (i - 1 \in 1 .. k /\ i - 1 \in 1 .. k + 1 /\ i - 1 <= k)
      OBVIOUS
    <3>2. i = 1 \/ g[i - 1] = f[i - 1]
      BY <2>3, <3>1
    <3>3. FlattenStep(g, s, i) = FlattenStep(f, s, i)
      BY <3>2 DEF FlattenStep
    <3>4. g[i] = FlattenStep(f, s, i)
      BY <2>3, <2>4
    <3> QED BY <3>3, <3>4
  <2>8. g = [i \in 1 .. k + 1 |-> FlattenStep(g, s, i)]
    BY <2>5, <2>7
  <2>9. Good(k + 1)
    BY <2>8
  <2> QED BY <2>9
<1> HIDE DEF S
<1>3. Nat \subseteq S
  BY <1>1, <1>2, NatSetInduction
<1>4. m \in S
  BY <1>3
<1> QED BY <1>4 DEF S

\* What FlattenSeq returns, and how it comes about.
LEMMA FlattenSteps ==
    ASSUME NEW B, NEW s \in Seq(Seq(B)), s # <<>>
    PROVE  \E f \in [1 .. Len(s) -> Seq(B)] :
              /\ FlattenSeq(s) = f[Len(s)]
              /\ f[1] = s[1]
              /\ \A i \in 2 .. Len(s) : f[i] = f[i - 1] \o s[i]
<1>1. Len(s) \in Nat \ {0} /\ \A i \in 1 .. Len(s) : s[i] \in Seq(B)
  BY ElementOfSeq, LenProperties, EmptySeq
<1> DEFINE f == CHOOSE f : f = [i \in 1 .. Len(s) |-> IF i = 1 THEN s[i] ELSE f[i - 1] \o s[i]]
<1>2. \E g : g = [i \in 1 .. Len(s) |-> FlattenStep(g, s, i)]
  BY <1>1, FlattenExists
<1>3. \E g : g = [i \in 1 .. Len(s) |-> IF i = 1 THEN s[i] ELSE g[i - 1] \o s[i]]
  BY <1>2 DEF FlattenStep
<1>4. f = [i \in 1 .. Len(s) |-> IF i = 1 THEN s[i] ELSE f[i - 1] \o s[i]]
  BY <1>3
<1>5. FlattenSeq(s) = f[Len(s)]
  BY <1>1 DEF FlattenSeq
<1> HIDE DEF f
<1>6. \A i \in 1 .. Len(s) : f[i] = IF i = 1 THEN s[i] ELSE f[i - 1] \o s[i]
  BY <1>4
<1> DEFINE T == {k \in Nat : k \in 1 .. Len(s) => f[k] \in Seq(B)}
<1>7. 0 \in T
  OBVIOUS
<1>8. ASSUME NEW k \in Nat, k \in T PROVE k + 1 \in T
  <2> SUFFICES ASSUME k + 1 \in 1 .. Len(s) PROVE f[k + 1] \in Seq(B)
    OBVIOUS
  <2>1. s[k + 1] \in Seq(B)
    BY <1>1
  <2>2. CASE k = 0
    BY <2>1, <2>2, <1>6
  <2>3. CASE k # 0
    <3>1. f[k] \in Seq(B)
      BY <1>8, <1>1, <2>3
    <3>2. k + 1 \in 1 .. Len(s) /\ k + 1 # 1 /\ (k + 1) - 1 = k
      BY <2>3
    <3>3. f[k + 1] = f[(k + 1) - 1] \o s[k + 1]
      BY <1>6, <3>2
    <3>4. f[k + 1] = f[k] \o s[k + 1]
      BY <3>2, <3>3
    <3> QED BY <2>1, <3>1, <3>4
  <2> QED BY <2>2, <2>3
<1> HIDE DEF T
<1>9. Nat \subseteq T
  BY <1>7, <1>8, NatSetInduction
<1>10. \A i \in 1 .. Len(s) : f[i] \in Seq(B)
  BY <1>9, <1>1 DEF T
<1>11. f \in [1 .. Len(s) -> Seq(B)]
  BY <1>4, <1>10
<1>12. f[1] = s[1]
  BY <1>1, <1>6
<1>13. ASSUME NEW i \in 2 .. Len(s) PROVE f[i] = f[i - 1] \o s[i]
  <2>1. i \in 1 .. Len(s) /\ i # 1
    BY <1>1
  <2> QED BY <1>6, <2>1
<1> QED BY <1>5, <1>11, <1>12, <1>13

\* The last of some texts that each end with a NUL is known from the whole,
\* for no NUL is in it; and so is all that comes before it.
LEMMA LastBlock ==
    ASSUME NEW W, NEW nul, nul \notin W,
           NEW a \in Seq(W \cup {nul}), NEW c \in Seq(W \cup {nul}),
           NEW t \in Seq(W), NEW v \in Seq(W),
           a = <<>> \/ a[Len(a)] = nul, c = <<>> \/ c[Len(c)] = nul,
           a \o (t \o <<nul>>) = c \o (v \o <<nul>>)
    PROVE  a = c /\ t = v
<1> DEFINE whole == a \o (t \o <<nul>>)
<1>1. /\ Len(a) \in Nat /\ Len(c) \in Nat /\ Len(t) \in Nat /\ Len(v) \in Nat
      /\ \A i \in 1 .. Len(t) : t[i] \in W
      /\ \A i \in 1 .. Len(v) : v[i] \in W
  BY ElementOfSeq, LenProperties
<1>2. t \in Seq(W \cup {nul}) /\ v \in Seq(W \cup {nul}) /\ <<nul>> \in Seq(W \cup {nul})
  OBVIOUS
<1>3. /\ Len(whole) = Len(a) + Len(t) + 1
      /\ \A i \in 1 .. Len(a) : whole[i] = a[i]
      /\ \A i \in 1 .. Len(t) : whole[Len(a) + i] = t[i]
  BY <1>2
<1>4. /\ Len(whole) = Len(c) + Len(v) + 1
      /\ \A i \in 1 .. Len(c) : whole[i] = c[i]
      /\ \A i \in 1 .. Len(v) : whole[Len(c) + i] = v[i]
  <2>1. whole = c \o (v \o <<nul>>)
    OBVIOUS
  <2> HIDE DEF whole
  <2> QED BY <1>2, <2>1
<1> HIDE DEF whole
<1>5. ASSUME Len(a) > Len(c) PROVE FALSE
  <2>1. a # <<>> /\ Len(a) \in 1 .. Len(a)
    BY <1>1, <1>5
  <2>2. whole[Len(a)] = nul
    BY <2>1, <1>3
  <2>3. Len(a) - Len(c) \in 1 .. Len(v) /\ Len(c) + (Len(a) - Len(c)) = Len(a)
    BY <1>1, <1>3, <1>4, <1>5
  <2>4. whole[Len(a)] = v[Len(a) - Len(c)]
    BY <1>4, <2>3
  <2> QED BY <1>1, <2>2, <2>3, <2>4
<1>6. ASSUME Len(c) > Len(a) PROVE FALSE
  <2>1. c # <<>> /\ Len(c) \in 1 .. Len(c)
    BY <1>1, <1>6
  <2>2. whole[Len(c)] = nul
    BY <2>1, <1>4
  <2>3. Len(c) - Len(a) \in 1 .. Len(t) /\ Len(a) + (Len(c) - Len(a)) = Len(c)
    BY <1>1, <1>3, <1>4, <1>6
  <2>4. whole[Len(c)] = t[Len(c) - Len(a)]
    BY <1>3, <2>3
  <2> QED BY <1>1, <2>2, <2>3, <2>4
<1>7. Len(a) = Len(c) /\ Len(t) = Len(v)
  BY <1>1, <1>3, <1>4, <1>5, <1>6
<1>8. \A i \in 1 .. Len(a) : a[i] = c[i]
  BY <1>3, <1>4, <1>7
<1>9. \A i \in 1 .. Len(t) : t[i] = v[i]
  BY <1>3, <1>4, <1>7
<1>10. a = c
  BY <1>7, <1>8, SeqEqual
<1>11. t = v
  BY <1>7, <1>9, SeqEqual
<1> QED BY <1>10, <1>11

Blocks(texts, nul) == [n \in DOMAIN texts |-> texts[n] \o <<nul>>]

\* f[i] is what the first i of them make.
Joins(f, texts, nul) ==
    \A i \in 1 .. Len(texts) :
        /\ f[i] = (IF i = 1 THEN <<>> ELSE f[i - 1]) \o (texts[i] \o <<nul>>)
        /\ f[i] # <<>> /\ f[i][Len(f[i])] = nul

\* How texts with a NUL after each are joined.
LEMMA JoinedTexts ==
    ASSUME NEW W, NEW nul, NEW p \in Seq(Seq(W)), p # <<>>
    PROVE  \E f \in [1 .. Len(p) -> Seq(W \cup {nul})] :
              /\ FlattenSeq(Blocks(p, nul)) = f[Len(p)]
              /\ Joins(f, p, nul)
<1> DEFINE B == W \cup {nul}
           s == Blocks(p, nul)
<1>1. Len(p) \in Nat /\ DOMAIN p = 1 .. Len(p) /\ \A n \in 1 .. Len(p) : p[n] \in Seq(W)
  BY ElementOfSeq, LenProperties
<1>2. \A t \in Seq(W) : t \in Seq(B)
  OBVIOUS
<1>3. \A t \in Seq(B) : t \o <<nul>> \in Seq(B) /\ <<>> \o (t \o <<nul>>) = t \o <<nul>>
  OBVIOUS
<1>4. s \in Seq(Seq(B)) /\ Len(s) = Len(p) /\ \A n \in 1 .. Len(p) : s[n] = p[n] \o <<nul>>
  BY <1>1, <1>2, <1>3 DEF Blocks
<1> HIDE DEF s
<1>5. s # <<>>
  <2>1. Len(p) # 0
    BY EmptySeq
  <2> QED BY <1>4, <2>1
<1>6. PICK f \in [1 .. Len(s) -> Seq(B)] :
         /\ FlattenSeq(s) = f[Len(s)]
         /\ f[1] = s[1]
         /\ \A i \in 2 .. Len(s) : f[i] = f[i - 1] \o s[i]
  BY <1>4, <1>5, FlattenSteps
<1>7. ASSUME NEW i \in 1 .. Len(p)
      PROVE  /\ f[i] = (IF i = 1 THEN <<>> ELSE f[i - 1]) \o (p[i] \o <<nul>>)
             /\ f[i] # <<>> /\ f[i][Len(f[i])] = nul
  <2> DEFINE a == IF i = 1 THEN <<>> ELSE f[i - 1]
  <2>1. i = 1 \/ (i \in 2 .. Len(p) /\ i - 1 \in 1 .. Len(p))
    BY <1>1
  <2>2. p[i] \in Seq(B)
    BY <1>1, <1>2
  <2>3. a \in Seq(B)
    <3>1. i # 1 => f[i - 1] \in Seq(B)
      BY <1>4, <1>6, <2>1
    <3> QED BY <3>1
  <2>4. f[i] = a \o (p[i] \o <<nul>>)
    <3>1. CASE i = 1
      BY <3>1, <1>3, <1>4, <1>6, <2>2
    <3>2. CASE i # 1
      BY <3>2, <1>4, <1>6, <2>1
    <3> QED BY <3>1, <3>2
  <2> HIDE DEF a
  <2>5. <<nul>> \in Seq(B)
    OBVIOUS
  <2>6. f[i] # <<>> /\ f[i][Len(f[i])] = nul
    BY <2>2, <2>3, <2>4, <2>5
  <2> QED BY <2>4, <2>6 DEF a
<1>8. f \in [1 .. Len(p) -> Seq(W \cup {nul})]
  BY <1>4, <1>6
<1>9. FlattenSeq(Blocks(p, nul)) = f[Len(p)]
  BY <1>4, <1>6 DEF s
<1>10. Joins(f, p, nul)
  BY <1>7 DEF Joins
<1> QED BY <1>8, <1>9, <1>10

\* Texts with a NUL after each are known from what they make when joined: as
\* many, in the same order, of the same words.
LEMMA BlocksAreUnique ==
    ASSUME NEW W, NEW nul, nul \notin W,
           NEW p \in Seq(Seq(W)), NEW q \in Seq(Seq(W)), p # <<>>, q # <<>>,
           FlattenSeq(Blocks(p, nul))
               = FlattenSeq(Blocks(q, nul))
    PROVE  p = q
<1> DEFINE B == W \cup {nul}
<1>1. /\ Len(p) \in Nat \ {0} /\ \A n \in 1 .. Len(p) : p[n] \in Seq(W)
      /\ Len(q) \in Nat \ {0} /\ \A n \in 1 .. Len(q) : q[n] \in Seq(W)
  BY ElementOfSeq, LenProperties, EmptySeq
<1>2. PICK f \in [1 .. Len(p) -> Seq(B)] :
         FlattenSeq(Blocks(p, nul)) = f[Len(p)] /\ Joins(f, p, nul)
  BY JoinedTexts
<1>3. PICK g \in [1 .. Len(q) -> Seq(B)] :
         FlattenSeq(Blocks(q, nul)) = g[Len(q)] /\ Joins(g, q, nul)
  BY JoinedTexts
<1>4. f[Len(p)] = g[Len(q)]
  BY <1>2, <1>3
<1>9. \A x \in Seq(B), y \in Seq(B), t \in Seq(W), v \in Seq(W) :
         /\ x = <<>> \/ x[Len(x)] = nul
         /\ y = <<>> \/ y[Len(y)] = nul
         /\ x \o (t \o <<nul>>) = y \o (v \o <<nul>>)
         => x = y /\ t = v
  <2> SUFFICES ASSUME NEW x \in Seq(W \cup {nul}), NEW y \in Seq(W \cup {nul}),
                      NEW t \in Seq(W), NEW v \in Seq(W),
                      x = <<>> \/ x[Len(x)] = nul, y = <<>> \/ y[Len(y)] = nul,
                      x \o (t \o <<nul>>) = y \o (v \o <<nul>>)
               PROVE  x = y /\ t = v
    OBVIOUS
  <2> QED BY LastBlock, Zenon
<1> DEFINE Same(i) ==
              \A j \in 1 .. Len(q) :
                 i \in 1 .. Len(p) /\ f[i] = g[j]
                 => i = j /\ \A k \in 1 .. i : p[k] = q[k]
           S == {i \in Nat : Same(i)}
<1>5. 0 \in S
  OBVIOUS
<1>6. ASSUME NEW h \in Nat, h \in S PROVE h + 1 \in S
  <2> DEFINE i == h + 1
  <2>1. SUFFICES ASSUME NEW j \in 1 .. Len(q), i \in 1 .. Len(p), f[i] = g[j]
                 PROVE  i = j /\ \A k \in 1 .. i : p[k] = q[k]
    OBVIOUS
  <2> DEFINE a == IF i = 1 THEN <<>> ELSE f[i - 1]
             c == IF j = 1 THEN <<>> ELSE g[j - 1]
  <2>2. f[i] = a \o (p[i] \o <<nul>>) /\ g[j] = c \o (q[j] \o <<nul>>)
    BY <1>2, <1>3, <2>1 DEF Joins
  <2>3. i = 1 \/ (h \in 1 .. Len(p) /\ i - 1 = h)
    BY <1>1, <2>1
  <2>4. j = 1 \/ (j - 1 \in 1 .. Len(q))
    BY <1>1, <2>1
  <2>5. a \in Seq(B) /\ (a = <<>> \/ a[Len(a)] = nul) /\ (a = <<>> => i = 1)
    <3>1. CASE i = 1
      BY <3>1
    <3>2. CASE i # 1
      <4>1. a = f[h] /\ h \in 1 .. Len(p)
        BY <2>3, <3>2
      <4> QED BY <1>2, <4>1 DEF Joins
    <3> QED BY <3>1, <3>2
  <2>6. c \in Seq(B) /\ (c = <<>> \/ c[Len(c)] = nul) /\ (c = <<>> => j = 1)
    <3>1. CASE j = 1
      BY <3>1
    <3>2. CASE j # 1
      <4>1. c = g[j - 1] /\ j - 1 \in 1 .. Len(q)
        BY <2>4, <3>2
      <4> QED BY <1>3, <4>1 DEF Joins
    <3> QED BY <3>1, <3>2
  <2>7. p[i] \in Seq(W) /\ q[j] \in Seq(W)
    BY <1>1, <2>1
  <2> HIDE DEF a, c, i
  <2>8. a = c /\ p[i] = q[j]
    <3>1. a \o (p[i] \o <<nul>>) = c \o (q[j] \o <<nul>>)
      BY <2>1, <2>2
    <3>2. a \in Seq(B) /\ (a = <<>> \/ a[Len(a)] = nul)
      BY <2>5
    <3>3. c \in Seq(B) /\ (c = <<>> \/ c[Len(c)] = nul)
      BY <2>6
    <3> DEFINE t == p[i]
               v == q[j]
    <3>4. t \in Seq(W) /\ v \in Seq(W)
      BY <2>7
    <3>5. a \o (t \o <<nul>>) = c \o (v \o <<nul>>)
      BY <3>1
    <3> HIDE DEF t, v, S, Same, B
    <3>6. a = c /\ t = v
      BY <1>9, <3>2, <3>3, <3>4, <3>5
    <3> QED BY <3>6 DEF t, v
  <2>9. CASE a = <<>>
    <3>1. i = 1 /\ j = 1
      BY <2>5, <2>6, <2>8, <2>9
    <3> QED BY <2>8, <3>1
  <2>10. CASE a # <<>>
    <3>1. i # 1 /\ j # 1
      BY <2>8, <2>10 DEF a, c
    <3>2. j - 1 \in 1 .. Len(q) /\ h \in 1 .. Len(p) /\ f[h] = g[j - 1]
      BY <2>3, <2>4, <2>8, <3>1 DEF a, c
    <3>3. h = j - 1 /\ \A k \in 1 .. h : p[k] = q[k]
      BY <1>6, <3>2
    <3>4. i = h + 1 /\ i = j
      BY <3>3 DEF i
    <3>5. \A k \in 1 .. i : k = i \/ k \in 1 .. h
      BY <3>4
    <3> QED BY <2>8, <3>3, <3>4, <3>5
  <2> QED BY <2>9, <2>10
<1> HIDE DEF S
<1>7. Len(p) \in S
  BY <1>1, <1>5, <1>6, NatSetInduction
<1>8. Len(p) = Len(q) /\ \A k \in 1 .. Len(p) : p[k] = q[k]
  BY <1>1, <1>4, <1>7 DEF S
<1> QED BY <1>8, SeqEqual

\* None joined is empty, and nothing else is.
LEMMA NoBlocks ==
    ASSUME NEW W, NEW nul, NEW p \in Seq(Seq(W))
    PROVE  FlattenSeq(Blocks(p, nul)) = <<>> <=> p = <<>>
<1>1. CASE p = <<>>
  <2>1. Blocks(p, nul) = <<>>
    BY <1>1 DEF Blocks
  <2>2. FlattenSeq(<<>>) = <<>>
    BY DEF FlattenSeq
  <2> QED BY <1>1, <2>1, <2>2
<1>2. CASE p # <<>>
  <2>1. Len(p) \in 1 .. Len(p)
    BY <1>2, LenProperties, EmptySeq
  <2>2. PICK f \in [1 .. Len(p) -> Seq(W \cup {nul})] :
             FlattenSeq(Blocks(p, nul)) = f[Len(p)] /\ Joins(f, p, nul)
    BY <1>2, JoinedTexts
  <2>3. f[Len(p)] # <<>>
    BY <2>1, <2>2 DEF Joins
  <2> QED BY <1>2, <2>2, <2>3
<1> QED BY <1>1, <1>2

-----------------------------------------------------------------------------
(***************************************************************************)
(* Trimming a text.                                                        *)
(***************************************************************************)
\* A set of numbers has a least one.
LEMMA NatSetHasLeast ==
    ASSUME NEW I \in SUBSET Nat, I # {}
    PROVE  \E n \in I : \A m \in I : n <= m
<1>1. \E n \in I : \A m \in I : ~(<<m, n>> \in OpToRel(<, Nat))
  BY NatLessThanWellFounded, WFMin
<1>2. PICK n \in I : \A m \in I : ~(<<m, n>> \in OpToRel(<, Nat))
  BY <1>1
<1>3. ASSUME NEW m \in I PROVE n <= m
  <2>1. m \in Nat /\ n \in Nat
    OBVIOUS
  <2>2. ~(m < n)
    BY <1>2, <2>1 DEF OpToRel
  <2> QED BY <2>1, <2>2
<1> QED BY <1>3

\* A set of numbers up to a bound has a greatest one.
LEMMA BoundedHasGreatest ==
    ASSUME NEW k \in Nat, NEW I \in SUBSET (1 .. k), I # {}
    PROVE  \E n \in I : \A m \in I : n >= m
<1> DEFINE J == {k - n : n \in I}
<1>1. J \in SUBSET Nat /\ J # {}
  <2>1. \A n \in I : n \in 1 .. k /\ k - n \in Nat
    OBVIOUS
  <2> QED BY <2>1
<1>2. PICK j \in J : \A i \in J : j <= i
  BY <1>1, NatSetHasLeast
<1>3. PICK n \in I : j = k - n
  OBVIOUS
<1>4. ASSUME NEW m \in I PROVE n >= m
  <2>1. k - m \in J
    OBVIOUS
  <2>2. k - n <= k - m
    BY <1>2, <1>3, <2>1
  <2>3. n \in Nat /\ m \in Nat
    OBVIOUS
  <2> HIDE DEF J
  <2> QED BY <2>2, <2>3
<1> QED BY <1>4

\* The part of a text from one place to another, and its ends.
LEMMA PartOfText ==
    ASSUME NEW S, NEW text \in Seq(S),
           NEW first \in 1 .. Len(text), NEW last \in 1 .. Len(text), first <= last
    PROVE  LET part == SubSeq(text, first, last)
           IN  /\ part \in Seq(S) /\ part # <<>>
               /\ part[1] = text[first] /\ part[Len(part)] = text[last]
<1> DEFINE part == SubSeq(text, first, last)
<1>1. Len(text) \in Nat /\ first \in Int /\ last \in Int
  BY LenProperties
<1>2. \A i \in first .. last : i \in 1 .. Len(text)
  BY <1>1
<1>3. \A i \in first .. last : text[i] \in S
  BY <1>2, ElementOfSeq
<1>4. /\ part \in Seq(S)
      /\ Len(part) = last - first + 1
      /\ \A i \in 1 .. last - first + 1 : part[i] = text[first + i - 1]
  BY <1>1, <1>3, SubSeqProperties
<1> HIDE DEF part
<1> DEFINE n == last - first + 1
<1>5. 1 \in 1 .. n /\ n \in 1 .. n
  BY <1>1
<1>6. part[1] = text[first + 1 - 1] /\ part[n] = text[first + n - 1]
  BY <1>4, <1>5
<1>7. first + 1 - 1 = first /\ first + n - 1 = last
  BY <1>1
<1>8. part[1] = text[first] /\ part[Len(part)] = text[last]
  BY <1>4, <1>6, <1>7
<1>9. Len(part) # 0
  BY <1>4, <1>5
<1>10. part # <<>>
  BY <1>9, EmptySeq
<1> QED BY <1>4, <1>8, <1>10 DEF part

\* What is left of a text: nothing of a blank one; of any other, the words
\* from a first to a last one that are not blank.
LEMMA TrimmedText ==
    ASSUME NEW text \in Seq(Words)
    PROVE  /\ TrimSpace(text) \in Seq(Words)
           /\ Blank(text) => TrimSpace(text) = <<>>
           /\ ~Blank(text) => /\ TrimSpace(text) # <<>>
                              /\ TrimSpace(text)[1] # " "
                              /\ TrimSpace(text)[Len(TrimSpace(text))] # " "
<1> DEFINE words == {n \in DOMAIN text : text[n] # " "}
           first == CHOOSE n \in words : \A m \in words : n <= m
           last == CHOOSE n \in words : \A m \in words : n >= m
<1>1. Len(text) \in Nat /\ DOMAIN text = 1 .. Len(text)
  BY LenProperties
<1>2. Blank(text) <=> words = {}
  BY DEF Blank
<1>3. CASE words = {}
  <2>1. TrimSpace(text) = <<>>
    BY <1>3 DEF TrimSpace
  <2>2. Blank(text)
    BY <1>2, <1>3
  <2>3. <<>> \in Seq(Words)
    BY EmptySeq
  <2> QED BY <2>1, <2>2, <2>3
<1>4. CASE words # {}
  <2>1. words \in SUBSET Nat /\ words \in SUBSET (1 .. Len(text))
    <3>1. \A n \in 1 .. Len(text) : n \in Nat
      OBVIOUS
    <3> QED BY <1>1, <3>1
  <2>2. first \in words /\ \A m \in words : first <= m
    BY <1>4, <2>1, NatSetHasLeast
  <2>3. last \in words
    BY <1>1, <1>4, <2>1, BoundedHasGreatest
  <2>4. TrimSpace(text) = SubSeq(text, first, last)
    BY <1>4 DEF TrimSpace
  <2>5. /\ first \in 1 .. Len(text) /\ last \in 1 .. Len(text) /\ first <= last
        /\ text[first] # " " /\ text[last] # " "
    BY <1>1, <2>2, <2>3
  <2> HIDE DEF first, last, words
  <2>6. LET part == SubSeq(text, first, last)
        IN  /\ part \in Seq(Words) /\ part # <<>>
            /\ part[1] = text[first] /\ part[Len(part)] = text[last]
    BY <2>5, PartOfText
  <2> QED BY <1>2, <1>4, <2>4, <2>5, <2>6
<1> QED BY <1>3, <1>4

\* A text has words, the first and the last of which are not blank.
Clean(text) == text # <<>> /\ text[1] # " " /\ text[Len(text)] # " "

LEMMA CleanIsNotEmpty ==
    ASSUME NEW text \in Seq(Words), Clean(text)
    PROVE  Len(text) \in Nat \ {0} /\ 1 \in 1 .. Len(text) /\ Len(text) \in 1 .. Len(text)
<1>1. Len(text) \in Nat /\ Len(text) # 0
  BY EmptySeq, LenProperties DEF Clean
<1>2. 1 \in Nat
  OBVIOUS
<1> QED BY ONLY <1>1, <1>2

\* Such a text stays as it is.
LEMMA CleanText ==
    ASSUME NEW part \in Seq(Words), Clean(part)
    PROVE  TrimSpace(part) = part
<1> DEFINE words == {n \in DOMAIN part : part[n] # " "}
           first == CHOOSE n \in words : \A m \in words : n <= m
           last == CHOOSE n \in words : \A m \in words : n >= m
<1>1. Len(part) \in Nat /\ DOMAIN part = 1 .. Len(part)
  BY LenProperties
<1>2. 1 \in 1 .. Len(part) /\ Len(part) \in 1 .. Len(part)
  BY CleanIsNotEmpty
<1>3. 1 \in words /\ Len(part) \in words
  BY <1>1, <1>2 DEF Clean
<1>4. \A n \in words : 1 <= n /\ n <= Len(part) /\ n \in Int
  <2>1. \A n \in words : n \in 1 .. Len(part)
    BY <1>1
  <2> HIDE DEF words
  <2> QED BY <1>1, <2>1
<1>5. first = 1
  <2>1. first \in words /\ \A m \in words : first <= m
    BY <1>3, <1>4
  <2> HIDE DEF first, words
  <2> QED BY <1>3, <1>4, <2>1
<1>6. last = Len(part)
  <2>1. last \in words /\ \A m \in words : last >= m
    BY <1>3, <1>4
  <2> HIDE DEF last, words
  <2> QED BY <1>1, <1>3, <1>4, <2>1
<1>7. TrimSpace(part) = SubSeq(part, first, last)
  BY <1>3 DEF TrimSpace
<1>8. SubSeq(part, 1, Len(part)) = part
  BY <1>1, SubSeqFull
<1> QED BY <1>5, <1>6, <1>7, <1>8

\* A trimmed text stays as it is.
LEMMA TrimIdempotent ==
    ASSUME NEW text \in Seq(Words)
    PROVE  TrimSpace(TrimSpace(text)) = TrimSpace(text)
<1>1. CASE Blank(text)
  <2>1. TrimSpace(text) = <<>>
    BY <1>1, TrimmedText
  <2>2. TrimSpace(<<>>) = <<>>
    BY DEF TrimSpace
  <2> QED BY <2>1, <2>2
<1>2. CASE ~Blank(text)
  BY <1>2, TrimmedText, CleanText DEF Clean
<1> QED BY <1>1, <1>2

-----------------------------------------------------------------------------
(***************************************************************************)
(* The texts of an event.                                                  *)
(***************************************************************************)
\* firstNonEmpty: nothing of blank texts, else the first that is not, trimmed.
LEMMA FirstNonEmptyIs ==
    ASSUME NEW texts \in Seq(Seq(Words))
    PROVE  /\ (\A i \in 1 .. Len(texts) : Blank(texts[i])) => FirstNonEmpty(texts) = <<>>
           /\ \A i \in 1 .. Len(texts) :
                 ~Blank(texts[i]) /\ (\A j \in 1 .. i - 1 : Blank(texts[j]))
                 => FirstNonEmpty(texts) = TrimSpace(texts[i])
<1> DEFINE I == {i \in 1 .. Len(texts) : ~Blank(texts[i])}
           first == IF I # {} THEN CHOOSE i \in I : \A j \in I : i <= j ELSE 0
<1>1. Len(texts) \in Nat
  BY LenProperties
<1>2. FirstNonEmpty(texts) = IF first = 0 THEN <<>> ELSE TrimSpace(texts[first])
  BY DEF FirstNonEmpty, SelectInSeq, Min
<1>3. ASSUME \A i \in 1 .. Len(texts) : Blank(texts[i])
      PROVE  FirstNonEmpty(texts) = <<>>
  <2>1. I = {}
    BY <1>3
  <2> QED BY <1>2, <2>1
<1>4. ASSUME NEW i \in 1 .. Len(texts), ~Blank(texts[i]), \A j \in 1 .. i - 1 : Blank(texts[j])
      PROVE  FirstNonEmpty(texts) = TrimSpace(texts[i])
  <2>1. i \in I
    BY <1>4
  <2>2. ASSUME NEW j \in I PROVE i <= j
    <3>1. j \in Nat /\ i \in Nat /\ j >= 1 /\ ~Blank(texts[j])
      OBVIOUS
    <3>2. j \notin 1 .. i - 1
      BY <1>4, <3>1
    <3> QED BY <3>1, <3>2
  <2>3. \A j \in I : j \in Nat
    OBVIOUS
  <2>4. first \in I /\ \A j \in I : first <= j
    BY <2>1, <2>2
  <2> HIDE DEF I, first
  <2>5. first = i
    BY <2>1, <2>2, <2>3, <2>4
  <2>6. i # 0
    OBVIOUS
  <2> QED BY <1>2, <2>5, <2>6
<1> QED BY <1>3, <1>4

\* firstNonEmpty returns a trimmed text.
LEMMA FirstNonEmptyTyped ==
    ASSUME NEW texts \in Seq(Seq(Words))
    PROVE  /\ FirstNonEmpty(texts) \in Seq(Words)
           /\ TrimSpace(FirstNonEmpty(texts)) = FirstNonEmpty(texts)
<1> DEFINE I == {i \in 1 .. Len(texts) : ~Blank(texts[i])}
<1>1. Len(texts) \in Nat /\ \A i \in 1 .. Len(texts) : texts[i] \in Seq(Words)
  BY LenProperties, ElementOfSeq
<1>2. CASE I = {}
  <2>1. FirstNonEmpty(texts) = <<>>
    BY <1>2, FirstNonEmptyIs
  <2>2. TrimSpace(<<>>) = <<>>
    BY DEF TrimSpace
  <2> QED BY <2>1, <2>2, EmptySeq
<1>3. CASE I # {}
  <2>1. I \in SUBSET Nat
    <3>1. \A i \in 1 .. Len(texts) : i \in Nat
      OBVIOUS
    <3> QED BY <3>1
  <2>2. PICK i \in I : \A j \in I : i <= j
    BY <1>3, <2>1, NatSetHasLeast
  <2>3. i \in 1 .. Len(texts) /\ ~Blank(texts[i])
    OBVIOUS
  <2>4. ASSUME NEW j \in 1 .. i - 1 PROVE Blank(texts[j])
    <3>1. j \in 1 .. Len(texts) /\ ~(i <= j)
      BY <1>1, <2>3
    <3> QED BY <2>2, <3>1
  <2>5. FirstNonEmpty(texts) = TrimSpace(texts[i])
    BY <2>3, <2>4, FirstNonEmptyIs
  <2> QED BY <1>1, <2>3, <2>5, TrimmedText, TrimIdempotent
<1> QED BY <1>2, <1>3

\* One more text counts only if the others are blank.
LEMMA FirstOfMore ==
    ASSUME NEW texts \in Seq(Seq(Words)), NEW c \in Seq(Words)
    PROVE  FirstNonEmpty(Append(texts, c)) =
              IF FirstNonEmpty(texts) # <<>> THEN FirstNonEmpty(texts) ELSE TrimSpace(c)
<1> DEFINE more == Append(texts, c)
           n == Len(texts)
           S == Seq(Words)
           I == {i \in 1 .. n : ~Blank(texts[i])}
<1>1. n \in Nat /\ \A i \in 1 .. n : texts[i] \in Seq(Words)
  BY LenProperties, ElementOfSeq
<1>2. /\ more \in Seq(Seq(Words)) /\ Len(more) = n + 1 /\ more[n + 1] = c
      /\ \A i \in 1 .. n : more[i] = texts[i]
  <2>1. texts \in Seq(S) /\ c \in S
    OBVIOUS
  <2> HIDE DEF S
  <2>2. /\ more \in Seq(S) /\ Len(more) = n + 1 /\ more[n + 1] = c
        /\ \A i \in 1 .. n : more[i] = texts[i]
    BY <2>1
  <2> QED BY <2>2 DEF S
<1> HIDE DEF more, n
<1>3. CASE I = {}
  <2>1. \A i \in 1 .. n : Blank(texts[i]) /\ Blank(more[i])
    BY <1>2, <1>3
  <2>2. FirstNonEmpty(texts) = <<>>
    BY <2>1, FirstNonEmptyIs DEF n
  <2>3. FirstNonEmpty(more) = TrimSpace(c)
    <3>1. CASE Blank(c)
      <4>1. \A i \in 1 .. n + 1 : i \in 1 .. n \/ i = n + 1
        BY <1>1
      <4>2. \A i \in 1 .. Len(more) : Blank(more[i])
        BY <1>2, <2>1, <3>1, <4>1
      <4>3. FirstNonEmpty(more) = <<>>
        BY <1>2, <4>2, FirstNonEmptyIs
      <4> QED BY <3>1, <4>3, TrimmedText
    <3>2. CASE ~Blank(c)
      <4>1. n + 1 \in 1 .. Len(more) /\ (n + 1) - 1 = n
        BY <1>1, <1>2
      <4>2. ~Blank(more[n + 1]) /\ \A j \in 1 .. (n + 1) - 1 : Blank(more[j])
        BY <1>2, <2>1, <3>2, <4>1
      <4> QED BY <1>2, <4>1, <4>2, FirstNonEmptyIs
    <3> QED BY <3>1, <3>2
  <2> QED BY <2>2, <2>3 DEF more
<1>4. CASE I # {}
  <2>1. I \in SUBSET Nat
    OBVIOUS
  <2>2. PICK i \in I : \A j \in I : i <= j
    BY <1>4, <2>1, NatSetHasLeast
  <2>3. i \in 1 .. n /\ ~Blank(texts[i])
    OBVIOUS
  <2>4. ASSUME NEW j \in 1 .. i - 1 PROVE j \in 1 .. n /\ Blank(texts[j])
    <3>1. j \in 1 .. n /\ ~(i <= j)
      BY <1>1, <2>3
    <3> QED BY <2>2, <3>1
  <2>5. FirstNonEmpty(texts) = TrimSpace(texts[i])
    BY <2>3, <2>4, FirstNonEmptyIs DEF n
  <2>6. i \in 1 .. Len(more) /\ ~Blank(more[i]) /\ \A j \in 1 .. i - 1 : Blank(more[j])
    BY <1>1, <1>2, <2>3, <2>4
  <2>7. FirstNonEmpty(more) = TrimSpace(texts[i])
    BY <1>2, <2>3, <2>6, FirstNonEmptyIs
  <2>8. TrimSpace(texts[i]) # <<>>
    BY <1>1, <2>3, TrimmedText
  <2> QED BY <2>5, <2>7, <2>8 DEF more
<1> QED BY <1>3, <1>4

\* A word is a text.
LEMMA TextOfOneWord ==
    ASSUME NEW S, NEW word \in S
    PROVE  <<word>> \in Seq(S)
OBVIOUS

\* A word that is not blank is a clean text, and clean texts are joined to one.
LEMMA CleanWord ==
    ASSUME NEW word \in Words, word # " "
    PROVE  <<word>> \in Seq(Words) /\ Clean(<<word>>)
BY TextOfOneWord DEF Clean

LEMMA CleanJoin ==
    ASSUME NEW a \in Seq(Words), NEW b \in Seq(Words), NEW word \in Words, Clean(a), Clean(b)
    PROVE  a \o <<word>> \o b \in Seq(Words) /\ Clean(a \o <<word>> \o b)
<1> DEFINE c == a \o <<word>> \o b
<1>1. Len(a) \in Nat \ {0} /\ Len(b) \in Nat \ {0}
  BY CleanIsNotEmpty
<1>2. /\ c \in Seq(Words) /\ Len(c) = Len(a) + 1 + Len(b)
      /\ c[1] = a[1] /\ c[Len(c)] = b[Len(b)]
  BY <1>1
<1> HIDE DEF c
<1>3. c # <<>>
  BY <1>1, <1>2, EmptySeq
<1> QED BY <1>2, <1>3 DEF Clean, c

\* What normalizeEvent makes of an event are texts; those of the exception are
\* trimmed already.
LEMMA EventTexts ==
    ASSUME NEW evt \in Event
    PROVE  /\ PrimaryException(evt).type \in Seq(Words)
           /\ PrimaryException(evt).value \in Seq(Words)
           /\ TrimSpace(PrimaryException(evt).type) = PrimaryException(evt).type
           /\ TrimSpace(PrimaryException(evt).value) = PrimaryException(evt).value
           /\ IssueTitle(evt) \in Seq(Words)
           /\ Culprit(evt) \in Seq(Words)
           /\ Platform(evt) \in Seq(Words)
<1>1. /\ evt.formatted \in Seq(Words) /\ evt.logMessage \in Seq(Words)
      /\ evt.message \in Seq(Words) /\ evt.culprit \in Seq(Words)
      /\ evt.transaction \in Seq(Words) /\ evt.platform \in Seq(Words)
  BY TextsAssumption DEF Event
<1>2. /\ PrimaryException(evt).type \in Seq(Words)
      /\ PrimaryException(evt).value \in Seq(Words)
      /\ TrimSpace(PrimaryException(evt).type) = PrimaryException(evt).type
      /\ TrimSpace(PrimaryException(evt).value) = PrimaryException(evt).value
  <2>1. CASE evt.exception = <<>>
    <3>1. PrimaryException(evt).type = <<>> /\ PrimaryException(evt).value = <<>>
      BY <2>1 DEF PrimaryException
    <3>2. TrimSpace(<<>>) = <<>>
      BY DEF TrimSpace
    <3> QED BY <3>1, <3>2, EmptySeq
  <2>2. CASE evt.exception # <<>>
    <3>1. evt.exception \in Seq([type : Texts, value : Texts])
      BY DEF Event
    <3>2. 1 \in 1 .. Len(evt.exception)
      BY <2>2, <3>1, EmptySeq
    <3>3. evt.exception[1] \in [type : Texts, value : Texts]
      BY <3>1, <3>2, ElementOfSeq
    <3>4. evt.exception[1].type \in Seq(Words) /\ evt.exception[1].value \in Seq(Words)
      BY <3>3, TextsAssumption
    <3>5. /\ PrimaryException(evt).type = TrimSpace(evt.exception[1].type)
          /\ PrimaryException(evt).value = TrimSpace(evt.exception[1].value)
      BY <2>2 DEF PrimaryException
    <3> QED BY <3>4, <3>5, TrimmedText, TrimIdempotent
  <2> QED BY <2>1, <2>2
<1>3. IssueTitle(evt) \in Seq(Words)
  <2> DEFINE ex == PrimaryException(evt)
             texts == <<evt.formatted, evt.logMessage, evt.message,
                        evt.culprit, evt.transaction>>
             other == FirstNonEmpty(texts)
  <2>1. texts \in Seq(Seq(Words))
    BY <1>1
  <2> HIDE DEF texts
  <2>2. other \in Seq(Words)
    BY <2>1, FirstNonEmptyTyped
  <2>3. IssueTitle(evt) \in {ex.type \o <<": ">> \o ex.value, ex.type, other, <<"Unhandled event">>}
    BY DEF IssueTitle, texts
  <2>7. ": " \in Words /\ "Unhandled event" \in Words
    BY DEF Words
  <2>4. <<": ">> \in Seq(Words) /\ <<"Unhandled event">> \in Seq(Words)
    BY <2>7, TextOfOneWord
  <2> HIDE DEF ex, other
  <2>5. ex.type \o <<": ">> \o ex.value \in Seq(Words)
    BY <1>2, <2>4, ConcatProperties, Zenon DEF ex
  <2>6. ex.type \in Seq(Words)
    BY <1>2 DEF ex
  <2> QED BY <2>2, <2>3, <2>4, <2>5, <2>6
<1>4. Culprit(evt) \in Seq(Words)
  <2>1. <<evt.culprit, evt.transaction, IssueTitle(evt)>> \in Seq(Seq(Words))
    BY <1>1, <1>3
  <2> QED BY <2>1, FirstNonEmptyTyped DEF Culprit
<1>5. Platform(evt) \in Seq(Words)
  <2>1. "other" \in Words
    BY DEF Words
  <2>2. <<"other">> \in Seq(Words)
    BY <2>1, TextOfOneWord
  <2> DEFINE other == <<"other">>
  <2> HIDE DEF other
  <2>3. <<evt.platform, other>> \in Seq(Seq(Words))
    BY <1>1, <2>2 DEF other
  <2> QED BY <2>3, FirstNonEmptyTyped DEF Platform, other
<1> QED BY <1>2, <1>3, <1>4, <1>5

-----------------------------------------------------------------------------
(***************************************************************************)
(* Hashes and grouping keys.                                               *)
(***************************************************************************)
\* What comes after a word is known from the whole.
LEMMA SameAfterWord ==
    ASSUME NEW S, NEW word, NEW a \in Seq(S), NEW b \in Seq(S),
           <<word>> \o a = <<word>> \o b
    PROVE  a = b
<1> DEFINE T == S \cup {word}
<1>1. a \in Seq(T) /\ b \in Seq(T) /\ <<word>> \in Seq(T)
  OBVIOUS
<1>2. /\ Len(<<word>> \o a) = 1 + Len(a)
      /\ \A i \in 1 .. Len(a) : (<<word>> \o a)[i + 1] = a[i]
  BY <1>1
<1>3. /\ Len(<<word>> \o b) = 1 + Len(b)
      /\ \A i \in 1 .. Len(b) : (<<word>> \o b)[i + 1] = b[i]
  BY <1>1
<1>4. Len(a) \in Nat /\ Len(b) \in Nat
  BY LenProperties
<1>5. Len(a) = Len(b)
  BY <1>2, <1>3, <1>4
<1>6. \A i \in 1 .. Len(a) : a[i] = b[i]
  BY <1>2, <1>3, <1>5
<1> QED BY <1>5, <1>6, SeqEqual

\* And so is that word.
LEMMA FirstWord ==
    ASSUME NEW S, NEW word, NEW a \in Seq(S)
    PROVE  (<<word>> \o a)[1] = word
<1> DEFINE T == S \cup {word}
<1>1. a \in Seq(T) /\ <<word>> \in Seq(T)
  OBVIOUS
<1> QED BY <1>1

\* hashParts trims its parts and joins them, a NUL after each.
LEMMA HashOfParts ==
    ASSUME NEW p \in Seq(Seq(Words))
    PROVE  /\ Trimmed(p) \in Seq(Seq(Words)) /\ Len(Trimmed(p)) = Len(p)
           /\ \A n \in 1 .. Len(p) : Trimmed(p)[n] = TrimSpace(p[n])
           /\ HashParts(p) = FlattenSeq(Blocks(Trimmed(p), NUL))
           /\ HashParts(p) \in Seq(Words \cup {NUL})
<1>1. Len(p) \in Nat /\ DOMAIN p = 1 .. Len(p) /\ \A n \in 1 .. Len(p) : p[n] \in Seq(Words)
  BY LenProperties, ElementOfSeq
<1>2. \A n \in 1 .. Len(p) : TrimSpace(p[n]) \in Seq(Words)
  BY <1>1, TrimmedText
<1>3. /\ Trimmed(p) \in Seq(Seq(Words)) /\ Len(Trimmed(p)) = Len(p)
      /\ DOMAIN Trimmed(p) = DOMAIN p
      /\ \A n \in 1 .. Len(p) : Trimmed(p)[n] = TrimSpace(p[n])
  BY <1>1, <1>2 DEF Trimmed
<1>4. Blocks(Trimmed(p), NUL) = [n \in DOMAIN p |-> TrimSpace(p[n]) \o <<NUL>>]
  BY <1>1, <1>3 DEF Blocks
<1>5. HashParts(p) = FlattenSeq(Blocks(Trimmed(p), NUL))
  BY <1>4 DEF HashParts
<1>6. HashParts(p) \in Seq(Words \cup {NUL})
  <2>1. CASE Trimmed(p) = <<>>
    BY <2>1, <1>3, <1>5, NoBlocks, EmptySeq
  <2>2. CASE Trimmed(p) # <<>>
    <3>1. PICK f \in [1 .. Len(Trimmed(p)) -> Seq(Words \cup {NUL})] :
             /\ FlattenSeq(Blocks(Trimmed(p), NUL)) = f[Len(Trimmed(p))]
             /\ Joins(f, Trimmed(p), NUL)
      BY <1>3, <2>2, JoinedTexts
    <3>2. Len(Trimmed(p)) \in 1 .. Len(Trimmed(p))
      BY <1>3, <2>2, EmptySeq
    <3> QED BY <1>5, <3>1, <3>2
  <2> QED BY <2>1, <2>2
<1> QED BY <1>3, <1>5, <1>6

\* The same, for any number of texts, also none.
LEMMA SameBlocks ==
    ASSUME NEW p \in Seq(Seq(Words)), NEW q \in Seq(Seq(Words))
    PROVE  p = q <=> FlattenSeq(Blocks(p, NUL)) = FlattenSeq(Blocks(q, NUL))
<1>1. NUL \notin Words
  BY TextsAssumption
<1>2. CASE p = <<>> \/ q = <<>>
  BY <1>2, NoBlocks
<1>3. CASE p # <<>> /\ q # <<>>
  BY <1>1, <1>3, BlocksAreUnique, Zenon
<1> QED BY <1>2, <1>3

\* Two hashes are equal exactly if the trimmed parts are.
LEMMA SameHash ==
    ASSUME NEW p \in Seq(Seq(Words)), NEW q \in Seq(Seq(Words))
    PROVE  HashParts(p) = HashParts(q) <=> Trimmed(p) = Trimmed(q)
<1>1. /\ Trimmed(p) \in Seq(Seq(Words)) /\ Trimmed(q) \in Seq(Seq(Words))
      /\ HashParts(p) = FlattenSeq(Blocks(Trimmed(p), NUL))
      /\ HashParts(q) = FlattenSeq(Blocks(Trimmed(q), NUL))
  BY HashOfParts
<1>2. Trimmed(p) = Trimmed(q) <=>
         FlattenSeq(Blocks(Trimmed(p), NUL)) = FlattenSeq(Blocks(Trimmed(q), NUL))
  BY <1>1, SameBlocks, Zenon
<1> QED BY <1>1, <1>2

\* The parts that identify an event without a fingerprint.
FallbackParts(evt) ==
    <<PrimaryException(evt).type, PrimaryException(evt).value, Culprit(evt),
      Platform(evt), IssueTitle(evt)>>

\* The two kinds of grouping key, and what is hashed for them.
LEMMA GroupingKeyIs ==
    ASSUME NEW evt \in Event
    PROVE  /\ evt.fingerprint \in Seq(Seq(Words))
           /\ FallbackParts(evt) \in Seq(Seq(Words))
           /\ BuildGroupingKey(evt) =
                 IF Fingerprinted(evt) THEN <<"fp:">> \o HashParts(evt.fingerprint)
                 ELSE <<"fallback:">> \o HashParts(FallbackParts(evt))
<1>1. evt.fingerprint \in Seq(Seq(Words))
  <2>1. evt.fingerprint \in Seq(Texts)
    BY DEF Event
  <2>2. \A n \in 1 .. Len(evt.fingerprint) : evt.fingerprint[n] \in Seq(Words)
    BY <2>1, ElementOfSeq, TextsAssumption
  <2> QED BY <2>1, <2>2, SeqDef
<1>2. FallbackParts(evt) \in Seq(Seq(Words))
  <2> DEFINE S == Seq(Words)
  <2>1. /\ PrimaryException(evt).type \in S /\ PrimaryException(evt).value \in S
        /\ Culprit(evt) \in S /\ Platform(evt) \in S /\ IssueTitle(evt) \in S
    BY EventTexts
  <2> HIDE DEF S
  <2>2. FallbackParts(evt) \in Seq(S)
    BY <2>1 DEF FallbackParts
  <2> QED BY <2>2 DEF S
<1>3. BuildGroupingKey(evt) =
         IF Fingerprinted(evt) THEN <<"fp:">> \o HashParts(evt.fingerprint)
         ELSE <<"fallback:">> \o HashParts(FallbackParts(evt))
  BY DEF BuildGroupingKey, Fingerprinted, FallbackParts
<1> QED BY <1>1, <1>2, <1>3

\* Clients that send fingerprints decide alone.
LEMMA FingerprintsDecide ==
    ASSUME NEW e1 \in Event, NEW e2 \in Event, Fingerprinted(e1), Fingerprinted(e2)
    PROVE  BuildGroupingKey(e1) = BuildGroupingKey(e2)
              <=> Trimmed(e1.fingerprint) = Trimmed(e2.fingerprint)
<1> DEFINE h1 == HashParts(e1.fingerprint)
           h2 == HashParts(e2.fingerprint)
<1>1. BuildGroupingKey(e1) = <<"fp:">> \o h1 /\ BuildGroupingKey(e2) = <<"fp:">> \o h2
  BY GroupingKeyIs
<1>2. h1 \in Seq(Words \cup {NUL}) /\ h2 \in Seq(Words \cup {NUL})
  BY GroupingKeyIs, HashOfParts
<1>3. h1 = h2 <=> Trimmed(e1.fingerprint) = Trimmed(e2.fingerprint)
  BY GroupingKeyIs, SameHash
<1> HIDE DEF h1, h2
<1>4. <<"fp:">> \o h1 = <<"fp:">> \o h2 => h1 = h2
  BY <1>2, SameAfterWord, Zenon
<1> QED BY <1>1, <1>3, <1>4

\* An event with a fingerprint never joins one without.
LEMMA KindsDiffer ==
    ASSUME NEW e1 \in Event, NEW e2 \in Event, Fingerprinted(e1), ~Fingerprinted(e2)
    PROVE  BuildGroupingKey(e1) # BuildGroupingKey(e2)
<1> DEFINE h1 == HashParts(e1.fingerprint)
           h2 == HashParts(FallbackParts(e2))
<1>1. BuildGroupingKey(e1) = <<"fp:">> \o h1 /\ BuildGroupingKey(e2) = <<"fallback:">> \o h2
  BY GroupingKeyIs
<1>2. h1 \in Seq(Words \cup {NUL}) /\ h2 \in Seq(Words \cup {NUL})
  BY GroupingKeyIs, HashOfParts
<1> HIDE DEF h1, h2
<1>3. (<<"fp:">> \o h1)[1] = "fp:" /\ (<<"fallback:">> \o h2)[1] = "fallback:"
  BY <1>2, FirstWord
<1>4. "fp:" # "fallback:"
  OBVIOUS
<1> QED BY <1>1, <1>3, <1>4, Zenon

\* Without fingerprints, the trimmed parts decide.
LEMMA SameFallbackHash ==
    ASSUME NEW e1 \in Event, NEW e2 \in Event, ~Fingerprinted(e1), ~Fingerprinted(e2)
    PROVE  BuildGroupingKey(e1) = BuildGroupingKey(e2)
              <=> Trimmed(FallbackParts(e1)) = Trimmed(FallbackParts(e2))
<1> DEFINE h1 == HashParts(FallbackParts(e1))
           h2 == HashParts(FallbackParts(e2))
<1>1. BuildGroupingKey(e1) = <<"fallback:">> \o h1 /\ BuildGroupingKey(e2) = <<"fallback:">> \o h2
  BY GroupingKeyIs
<1>2. h1 \in Seq(Words \cup {NUL}) /\ h2 \in Seq(Words \cup {NUL})
  BY GroupingKeyIs, HashOfParts
<1>3. h1 = h2 <=> Trimmed(FallbackParts(e1)) = Trimmed(FallbackParts(e2))
  BY GroupingKeyIs, SameHash
<1> HIDE DEF h1, h2
<1>4. <<"fallback:">> \o h1 = <<"fallback:">> \o h2 => h1 = h2
  BY <1>2, SameAfterWord, Zenon
<1> QED BY <1>1, <1>3, <1>4

\* Lists with one text more.
LEMMA AppendToTwo ==
    ASSUME NEW S, NEW a \in S, NEW b \in S, NEW c \in S
    PROVE  Append(<<a, b>>, c) = <<a, b, c>>
<1> DEFINE two == <<a, b>>
           more == Append(two, c)
           three == <<a, b, c>>
<1>1. two \in Seq(S) /\ Len(two) = 2 /\ two[1] = a /\ two[2] = b
  OBVIOUS
<1>2. /\ three \in Seq(S) /\ Len(three) = 3
      /\ three[1] = a /\ three[2] = b /\ three[3] = c
  OBVIOUS
<1> HIDE DEF two, three
<1>3. /\ more \in Seq(S) /\ Len(more) = 3
      /\ more[1] = a /\ more[2] = b /\ more[3] = c
  <2>1. /\ more \in Seq(S) /\ Len(more) = Len(two) + 1 /\ more[Len(two) + 1] = c
        /\ \A i \in 1 .. Len(two) : more[i] = two[i]
    <3>1. two \in Seq(S) /\ c \in S
      BY <1>1
    <3> QED BY ONLY <3>1
  <2>2. 1 \in 1 .. 2 /\ 2 \in 1 .. 2 /\ 2 + 1 = 3
    OBVIOUS
  <2> QED BY <1>1, <2>1, <2>2
<1> HIDE DEF more
<1>4. \A n \in 1 .. 3 : n = 1 \/ n = 2 \/ n = 3
  OBVIOUS
<1>5. \A n \in 1 .. Len(more) : more[n] = three[n]
  BY <1>2, <1>3, <1>4
<1>6. more = three
  BY <1>2, <1>3, <1>5, SeqEqual
<1> QED BY <1>6 DEF more, two, three

LEMMA AppendToFive ==
    ASSUME NEW S, NEW a \in S, NEW b \in S, NEW c \in S, NEW d \in S, NEW e \in S, NEW f \in S
    PROVE  Append(<<a, b, c, d, e>>, f) = <<a, b, c, d, e, f>>
<1> DEFINE five == <<a, b, c, d, e>>
           more == Append(five, f)
           six == <<a, b, c, d, e, f>>
<1>1. /\ five \in Seq(S) /\ Len(five) = 5 /\ five[1] = a /\ five[2] = b
      /\ five[3] = c /\ five[4] = d /\ five[5] = e
  OBVIOUS
<1>2. /\ six \in Seq(S) /\ Len(six) = 6 /\ six[1] = a /\ six[2] = b
      /\ six[3] = c /\ six[4] = d /\ six[5] = e /\ six[6] = f
  OBVIOUS
<1> HIDE DEF five, six
<1>3. /\ more \in Seq(S) /\ Len(more) = 6 /\ more[1] = a /\ more[2] = b
      /\ more[3] = c /\ more[4] = d /\ more[5] = e /\ more[6] = f
  <2>1. /\ more \in Seq(S) /\ Len(more) = Len(five) + 1 /\ more[Len(five) + 1] = f
        /\ \A i \in 1 .. Len(five) : more[i] = five[i]
    <3>1. five \in Seq(S) /\ f \in S
      BY <1>1
    <3> QED BY ONLY <3>1
  <2>2. 1 \in 1 .. 5 /\ 2 \in 1 .. 5 /\ 3 \in 1 .. 5 /\ 4 \in 1 .. 5 /\ 5 \in 1 .. 5
        /\ 5 + 1 = 6
    OBVIOUS
  <2> QED BY <1>1, <2>1, <2>2
<1> HIDE DEF more
<1>4. \A n \in 1 .. 6 : n = 1 \/ n = 2 \/ n = 3 \/ n = 4 \/ n = 5 \/ n = 6
  OBVIOUS
<1>5. \A n \in 1 .. Len(more) : more[n] = six[n]
  BY <1>2, <1>3, <1>4
<1>6. more = six
  BY <1>2, <1>3, <1>5, SeqEqual
<1> QED BY <1>6 DEF more, five, six

\* The title given to an event that says nothing.
LEMMA Unhandled ==
    ASSUME NEW none, none = <<"Unhandled event">>
    PROVE  none \in Seq(Words) /\ TrimSpace(none) = none /\ none # <<>>
<1>1. "Unhandled event" \in Words /\ "Unhandled event" # " "
  BY DEF Words
<1>2. none \in Seq(Words) /\ Clean(none)
  BY <1>1, CleanWord
<1> QED BY <1>2, CleanText DEF Clean

\* A title is clean.
LEMMA CleanTitle ==
    ASSUME NEW evt \in Event
    PROVE  TrimSpace(IssueTitle(evt)) = IssueTitle(evt) /\ IssueTitle(evt) # <<>>
<1> DEFINE type == PrimaryException(evt).type
           value == PrimaryException(evt).value
           texts == <<evt.formatted, evt.logMessage, evt.message,
                      evt.culprit, evt.transaction>>
           both == type \o <<": ">> \o value
<1>1. /\ type \in Seq(Words) /\ value \in Seq(Words)
      /\ TrimSpace(type) = type /\ TrimSpace(value) = value
  BY EventTexts
<1>2. texts \in Seq(Seq(Words))
  BY TextsAssumption DEF Event
<1>3. TrimSpace(FirstNonEmpty(texts)) = FirstNonEmpty(texts)
  <2> HIDE DEF texts
  <2> QED BY <1>2, FirstNonEmptyTyped
<1>4. type # <<>> => Clean(type)
  BY <1>1, TrimmedText DEF Clean
<1>5. value # <<>> => Clean(value)
  BY <1>1, TrimmedText DEF Clean
<1>6. Clean(type) /\ Clean(value) => TrimSpace(both) = both /\ both # <<>>
  <2>1. ": " \in Words
    BY DEF Words
  <2>2. Clean(type) /\ Clean(value) => both \in Seq(Words) /\ Clean(both)
    BY <1>1, <2>1, CleanJoin
  <2> QED BY <2>2, CleanText DEF Clean
<1>7. PICK none : none = <<"Unhandled event">>
  OBVIOUS
<1>8. TrimSpace(none) = none /\ none # <<>>
  BY <1>7, Unhandled
<1>9. \/ IssueTitle(evt) = both /\ type # <<>> /\ value # <<>>
      \/ IssueTitle(evt) = type /\ type # <<>>
      \/ IssueTitle(evt) = FirstNonEmpty(texts) /\ FirstNonEmpty(texts) # <<>>
      \/ IssueTitle(evt) = none
  BY <1>7, Zenon DEF IssueTitle
<1> HIDE DEF type, value, texts, both
<1> QED BY <1>1, <1>3, <1>4, <1>5, <1>6, <1>8, <1>9, Zenon

\* Without an exception, an event is titled by what it says.
LEMMA MessageIsTitle ==
    ASSUME NEW evt \in Event, ~HasException(evt)
    PROVE  IssueTitle(evt) = Message(evt)
<1> DEFINE texts == <<evt.formatted, evt.logMessage, evt.message,
                      evt.culprit, evt.transaction>>
<1>1. /\ evt.formatted \in Seq(Words) /\ evt.logMessage \in Seq(Words)
      /\ evt.message \in Seq(Words) /\ evt.culprit \in Seq(Words)
      /\ evt.transaction \in Seq(Words)
  BY TextsAssumption DEF Event
<1>2. PICK none : none = <<"Unhandled event">>
  OBVIOUS
<1>3. none \in Seq(Words) /\ TrimSpace(none) = none
  BY <1>2, Unhandled
<1>4. texts \in Seq(Seq(Words))
  BY <1>1
<1>5. Append(texts, none) = <<evt.formatted, evt.logMessage, evt.message,
                              evt.culprit, evt.transaction, none>>
  <2> DEFINE S == Seq(Words)
             a == evt.formatted
             b == evt.logMessage
             c == evt.message
             d == evt.culprit
             e == evt.transaction
  <2>1. a \in S /\ b \in S /\ c \in S /\ d \in S /\ e \in S /\ none \in S
    BY <1>1, <1>3
  <2> HIDE DEF S, a, b, c, d, e
  <2>2. Append(<<a, b, c, d, e>>, none) = <<a, b, c, d, e, none>>
    BY ONLY <2>1, AppendToFive
  <2> QED BY <2>2 DEF a, b, c, d, e
<1>6. Message(evt) = FirstNonEmpty(Append(texts, none))
  BY <1>2, <1>5, Zenon DEF Message
<1>7. Message(evt) = IF FirstNonEmpty(texts) # <<>> THEN FirstNonEmpty(texts) ELSE none
  <2> HIDE DEF texts
  <2> QED BY <1>3, <1>4, <1>6, FirstOfMore
<1>8. IssueTitle(evt) = IF FirstNonEmpty(texts) # <<>> THEN FirstNonEmpty(texts) ELSE none
  BY <1>2, Zenon DEF IssueTitle, HasException
<1> QED BY <1>7, <1>8

\* The place that is hashed is the one named, or the title.
LEMMA CulpritIs ==
    ASSUME NEW evt \in Event
    PROVE  Culprit(evt) = IF Place(evt) # <<>> THEN Place(evt) ELSE IssueTitle(evt)
<1> DEFINE two == <<evt.culprit, evt.transaction>>
           title == IssueTitle(evt)
<1>1. evt.culprit \in Seq(Words) /\ evt.transaction \in Seq(Words)
  BY TextsAssumption DEF Event
<1>2. title \in Seq(Words) /\ TrimSpace(title) = title
  BY EventTexts, CleanTitle
<1> HIDE DEF title
<1>3. two \in Seq(Seq(Words)) /\ Append(two, title) = <<evt.culprit, evt.transaction, title>>
  BY <1>1, <1>2, AppendToTwo
<1>4. FirstNonEmpty(Append(two, title)) =
         IF FirstNonEmpty(two) # <<>> THEN FirstNonEmpty(two) ELSE title
  <2> HIDE DEF two
  <2> QED BY <1>2, <1>3, FirstOfMore
<1>5. Culprit(evt) = FirstNonEmpty(<<evt.culprit, evt.transaction, title>>)
  BY DEF Culprit, title
<1> QED BY <1>3, <1>4, <1>5 DEF Place, title

\* The parts of an event without a fingerprint are trimmed already.
LEMMA PartsAreTrimmed ==
    ASSUME NEW evt \in Event
    PROVE  Trimmed(FallbackParts(evt)) = FallbackParts(evt)
<1> DEFINE parts == FallbackParts(evt)
<1>1. /\ TrimSpace(PrimaryException(evt).type) = PrimaryException(evt).type
      /\ TrimSpace(PrimaryException(evt).value) = PrimaryException(evt).value
      /\ TrimSpace(IssueTitle(evt)) = IssueTitle(evt)
  BY EventTexts, CleanTitle
<1>2. TrimSpace(Culprit(evt)) = Culprit(evt)
  <2>1. <<evt.culprit, evt.transaction>> \in Seq(Seq(Words))
    BY TextsAssumption DEF Event
  <2>2. TrimSpace(Place(evt)) = Place(evt)
    BY <2>1, FirstNonEmptyTyped DEF Place
  <2> QED BY <1>1, <2>2, CulpritIs
<1>3. TrimSpace(Platform(evt)) = Platform(evt)
  <2>1. PICK other : other = <<"other">>
    OBVIOUS
  <2>2. "other" \in Words
    BY DEF Words
  <2>3. other \in Seq(Words) /\ evt.platform \in Seq(Words)
    BY <2>1, <2>2, TextOfOneWord, TextsAssumption DEF Event
  <2>4. <<evt.platform, other>> \in Seq(Seq(Words))
    BY <2>3
  <2> QED BY <2>1, <2>4, FirstNonEmptyTyped DEF Platform
<1>4. parts \in Seq(Seq(Words))
  BY GroupingKeyIs
<1>5. /\ Len(parts) = 5
      /\ parts[1] = PrimaryException(evt).type /\ parts[2] = PrimaryException(evt).value
      /\ parts[3] = Culprit(evt) /\ parts[4] = Platform(evt) /\ parts[5] = IssueTitle(evt)
  BY DEF FallbackParts
<1>6. \A n \in 1 .. 5 : n = 1 \/ n = 2 \/ n = 3 \/ n = 4 \/ n = 5
  OBVIOUS
<1> HIDE DEF parts
<1>7. \A n \in 1 .. Len(parts) : TrimSpace(parts[n]) = parts[n]
  BY <1>1, <1>2, <1>3, <1>5, <1>6
<1>8. /\ Trimmed(parts) \in Seq(Seq(Words)) /\ Len(Trimmed(parts)) = Len(parts)
      /\ \A n \in 1 .. Len(parts) : Trimmed(parts)[n] = TrimSpace(parts[n])
  BY <1>4, HashOfParts
<1>9. \A n \in 1 .. Len(parts) : Trimmed(parts)[n] = parts[n]
  BY <1>7, <1>8
<1>10. Trimmed(parts) = parts
  BY <1>4, <1>8, <1>9, SeqEqual
<1> QED BY <1>10 DEF parts

\* So the key is made of the first exception, the place or else the title, the
\* platform and the title.
LEMMA KeyIsParts ==
    ASSUME NEW e1 \in Event, NEW e2 \in Event, ~Fingerprinted(e1), ~Fingerprinted(e2)
    PROVE  BuildGroupingKey(e1) = BuildGroupingKey(e2) <=>
              /\ PrimaryException(e1) = PrimaryException(e2)
              /\ Culprit(e1) = Culprit(e2)
              /\ Platform(e1) = Platform(e2)
              /\ IssueTitle(e1) = IssueTitle(e2)
<1>1. BuildGroupingKey(e1) = BuildGroupingKey(e2) <=> FallbackParts(e1) = FallbackParts(e2)
  BY SameFallbackHash, PartsAreTrimmed
<1>2. FallbackParts(e1) = FallbackParts(e2) <=>
              /\ PrimaryException(e1).type = PrimaryException(e2).type
              /\ PrimaryException(e1).value = PrimaryException(e2).value
              /\ Culprit(e1) = Culprit(e2)
              /\ Platform(e1) = Platform(e2)
              /\ IssueTitle(e1) = IssueTitle(e2)
  BY DEF FallbackParts
<1>3. \A evt \in Event : PrimaryException(evt) =
         [type |-> PrimaryException(evt).type, value |-> PrimaryException(evt).value]
  BY DEF PrimaryException
<1> QED BY <1>1, <1>2, <1>3

\* With the same exception, or none, the titles are the same just if the
\* exception gives them or the messages are the same.
LEMMA SameTitle ==
    ASSUME NEW e1 \in Event, NEW e2 \in Event, PrimaryException(e1) = PrimaryException(e2)
    PROVE  IssueTitle(e1) = IssueTitle(e2) <=> HasException(e1) \/ Message(e1) = Message(e2)
<1>1. HasException(e1) <=> HasException(e2)
  BY DEF HasException
<1>2. CASE HasException(e1)
  <2>1. IssueTitle(e1) = IssueTitle(e2)
    BY <1>1, <1>2, Zenon DEF IssueTitle, HasException
  <2> QED BY <1>2, <2>1
<1>3. CASE ~HasException(e1)
  BY <1>1, <1>3, MessageIsTitle
<1> QED BY <1>2, <1>3

\* And under one title the places that are hashed are the same just if the
\* events are at the same place.
LEMMA SameCulprit ==
    ASSUME NEW e1 \in Event, NEW e2 \in Event, IssueTitle(e1) = IssueTitle(e2)
    PROVE  Culprit(e1) = Culprit(e2) <=> SamePlace(e1, e2)
<1>1. PICK nowhere : nowhere = <<>>
  OBVIOUS
<1>2. PICK p1 : p1 = Place(e1)
  OBVIOUS
<1>3. PICK p2 : p2 = Place(e2)
  OBVIOUS
<1>4. PICK title : title = IssueTitle(e1)
  OBVIOUS
<1>5. /\ title # nowhere
      /\ Culprit(e1) = IF p1 # nowhere THEN p1 ELSE title
      /\ Culprit(e2) = IF p2 # nowhere THEN p2 ELSE title
  BY <1>1, <1>2, <1>3, <1>4, CulpritIs, CleanTitle
<1>6. SamePlace(e1, e2) <=> p1 = p2 \/ {p1, p2} = {nowhere, title}
  BY <1>1, <1>2, <1>3, <1>4 DEF SamePlace
<1>7. {p1, p2} = {nowhere, title} <=>
         (p1 = nowhere /\ p2 = title) \/ (p1 = title /\ p2 = nowhere)
  BY <1>5
<1> QED BY ONLY <1>5, <1>6, <1>7

\* Without fingerprints, one issue is one problem.
LEMMA OneProblemOneIssue ==
    ASSUME NEW e1 \in Event, NEW e2 \in Event, ~Fingerprinted(e1), ~Fingerprinted(e2)
    PROVE  BuildGroupingKey(e1) = BuildGroupingKey(e2) <=> SameProblem(e1, e2)
<1>1. BuildGroupingKey(e1) = BuildGroupingKey(e2) =>
         PrimaryException(e1) = PrimaryException(e2) /\ IssueTitle(e1) = IssueTitle(e2)
  BY KeyIsParts
<1>2. SameProblem(e1, e2) =>
         PrimaryException(e1) = PrimaryException(e2) /\ IssueTitle(e1) = IssueTitle(e2)
  BY SameTitle DEF SameProblem
<1>3. CASE PrimaryException(e1) = PrimaryException(e2) /\ IssueTitle(e1) = IssueTitle(e2)
  <2>1. /\ HasException(e1) \/ Message(e1) = Message(e2)
        /\ Culprit(e1) = Culprit(e2) <=> SamePlace(e1, e2)
    BY <1>3, SameTitle, SameCulprit
  <2> QED BY <1>3, <2>1, KeyIsParts DEF SameProblem
<1> QED BY <1>1, <1>2, <1>3

\* Whatever the events: with fingerprints, these decide; without, two events
\* become one issue if and only if they have the same first exception, or the
\* same message where there is none, the same place and the same platform
\* (normalizeEvent and buildGroupingKey, for texts without a NUL).
THEOREM GroupedByIdentity == \A e1, e2 \in Event : GroupedAlike(e1, e2)
<1> SUFFICES ASSUME NEW e1 \in Event, NEW e2 \in Event PROVE GroupedAlike(e1, e2)
  OBVIOUS
<1>1. CASE Fingerprinted(e1) /\ Fingerprinted(e2)
  BY <1>1, FingerprintsDecide DEF GroupedAlike
<1>2. CASE Fingerprinted(e1) /\ ~Fingerprinted(e2)
  <2>1. BuildGroupingKey(e1) # BuildGroupingKey(e2)
    BY <1>2, KindsDiffer
  <2> QED BY <1>2, <2>1, Zenon DEF GroupedAlike
<1>3. CASE ~Fingerprinted(e1) /\ Fingerprinted(e2)
  <2>1. BuildGroupingKey(e1) # BuildGroupingKey(e2)
    BY <1>3, KindsDiffer
  <2> QED BY <1>3, <2>1, Zenon DEF GroupedAlike
<1>4. CASE ~Fingerprinted(e1) /\ ~Fingerprinted(e2)
  <2> DEFINE joined == BuildGroupingKey(e1) = BuildGroupingKey(e2) <=> SameProblem(e1, e2)
  <2>1. joined
    BY <1>4, OneProblemOneIssue
  <2>2. GroupedAlike(e1, e2) = joined
    BY <1>4 DEF GroupedAlike, Fingerprinted
  <2> HIDE DEF joined
  <2> QED BY <2>1, <2>2
<1> QED BY <1>1, <1>2, <1>3, <1>4

-----------------------------------------------------------------------------
(***************************************************************************)
(* The items of an envelope.                                               *)
(***************************************************************************)
\* f[i] is what the first i of some blocks make.
JoinsUpTo(f, s, B) ==
    /\ f \in [0 .. Len(s) -> Seq(B)]
    /\ f[0] = <<>> /\ f[Len(s)] = FlattenSeq(s)
    /\ \A i \in 1 .. Len(s) : f[i] = f[i - 1] \o s[i]

\* There is such a function, for any blocks.
LEMMA FlattenPrefixes ==
    ASSUME NEW B, NEW s \in Seq(Seq(B))
    PROVE  \E f : JoinsUpTo(f, s, B)
<1>1. Len(s) \in Nat /\ \A i \in 1 .. Len(s) : s[i] \in Seq(B)
  BY LenProperties, ElementOfSeq
<1>2. CASE s = <<>>
  <2> DEFINE f == [i \in 0 .. 0 |-> <<>>]
  <2>1. Len(s) = 0 /\ FlattenSeq(s) = <<>>
    BY <1>2, EmptySeq DEF FlattenSeq
  <2>2. f \in [0 .. 0 -> Seq(B)] /\ f[0] = <<>>
    BY EmptySeq
  <2> HIDE DEF f
  <2> QED BY <2>1, <2>2 DEF JoinsUpTo
<1>3. CASE s # <<>>
  <2>1. PICK g \in [1 .. Len(s) -> Seq(B)] :
           /\ FlattenSeq(s) = g[Len(s)]
           /\ g[1] = s[1]
           /\ \A i \in 2 .. Len(s) : g[i] = g[i - 1] \o s[i]
    BY <1>3, FlattenSteps
  <2>2. Len(s) \in 1 .. Len(s)
    BY <1>1, <1>3, EmptySeq
  <2> DEFINE f == [i \in 0 .. Len(s) |-> IF i = 0 THEN <<>> ELSE g[i]]
  <2>3. f \in [0 .. Len(s) -> Seq(B)]
    <3>1. \A i \in 0 .. Len(s) : i # 0 => i \in 1 .. Len(s)
      BY <1>1
    <3> QED BY <3>1, <2>1, EmptySeq
  <2>4. f[0] = <<>> /\ \A i \in 1 .. Len(s) : f[i] = g[i]
    BY <1>1
  <2> HIDE DEF f
  <2>5. f[Len(s)] = FlattenSeq(s)
    BY <2>1, <2>2, <2>4
  <2>6. ASSUME NEW i \in 1 .. Len(s) PROVE f[i] = f[i - 1] \o s[i]
    <3>1. s[i] \in Seq(B) /\ <<>> \o s[i] = s[i]
      BY <1>1
    <3>2. CASE i = 1
      <4>1. i - 1 = 0
        BY <3>2
      <4> QED BY <2>1, <2>4, <3>1, <3>2, <4>1
    <3>3. CASE i # 1
      <4>1. i \in 2 .. Len(s) /\ i - 1 \in 1 .. Len(s)
        BY <1>1, <3>3
      <4> QED BY <2>1, <2>4, <4>1
    <3> QED BY <3>2, <3>3
  <2> QED BY <2>3, <2>4, <2>5, <2>6 DEF JoinsUpTo
<1> QED BY <1>2, <1>3

\* ReadLine finds the next newline, or else the end.
LEMMA LineIsRead ==
    ASSUME NEW S, NEW body \in Seq(S), NEW pos \in 0 .. Len(body) - 1
    PROVE  \E e \in pos .. Len(body) :
              /\ \A m \in pos .. e - 1 : body[m + 1] # NL
              /\ e = Len(body) \/ body[e + 1] = NL
              /\ ReadLine(body, pos) = [line |-> SubSeq(body, pos + 1, e),
                                        next |-> IF e < Len(body) THEN e + 1 ELSE e]
<1> DEFINE ends == {n \in pos .. Len(body) - 1 : body[n + 1] = NL}
           end == CHOOSE n \in ends : \A m \in ends : n <= m
<1>1. Len(body) \in Nat
  BY LenProperties
<1>2. CASE ends = {}
  <2>1. ReadLine(body, pos) = [line |-> SubSeq(body, pos + 1, Len(body)), next |-> Len(body)]
    BY <1>2 DEF ReadLine
  <2>2. \A m \in pos .. Len(body) - 1 : body[m + 1] # NL
    BY <1>2
  <2>3. Len(body) \in pos .. Len(body) /\ ~(Len(body) < Len(body))
    BY <1>1
  <2> QED BY <2>1, <2>2, <2>3
<1>3. CASE ends # {}
  <2>1. ends \in SUBSET Nat
    <3>1. \A n \in pos .. Len(body) - 1 : n \in Nat
      OBVIOUS
    <3> QED BY <3>1
  <2>2. end \in ends /\ \A m \in ends : end <= m
    BY <1>3, <2>1, NatSetHasLeast
  <2>3. end \in pos .. Len(body) - 1 /\ body[end + 1] = NL
    BY <2>2
  <2>4. ReadLine(body, pos) = [line |-> SubSeq(body, pos + 1, end), next |-> end + 1]
    BY <1>3 DEF ReadLine
  <2>5. ASSUME NEW m \in pos .. end - 1 PROVE body[m + 1] # NL
    <3> HIDE DEF end
    <3>1. m \in pos .. Len(body) - 1 /\ ~(end <= m)
      BY <1>1, <2>3
    <3> QED BY <2>2, <3>1
  <2> HIDE DEF end
  <2>6. end \in pos .. Len(body) /\ end < Len(body)
    BY <1>1, <2>3
  <2> QED BY <2>3, <2>4, <2>5, <2>6
<1> QED BY <1>2, <1>3

\* The line up to a newline or the end that is known to be the next.
LEMMA LineUpTo ==
    ASSUME NEW S, NEW body \in Seq(S), NEW pos \in 0 .. Len(body) - 1, NEW e \in pos .. Len(body),
           \A m \in pos .. e - 1 : body[m + 1] # NL,
           e = Len(body) \/ body[e + 1] = NL
    PROVE  ReadLine(body, pos) = [line |-> SubSeq(body, pos + 1, e),
                                  next |-> IF e < Len(body) THEN e + 1 ELSE e]
<1>1. PICK d \in pos .. Len(body) :
         /\ \A m \in pos .. d - 1 : body[m + 1] # NL
         /\ d = Len(body) \/ body[d + 1] = NL
         /\ ReadLine(body, pos) = [line |-> SubSeq(body, pos + 1, d),
                                   next |-> IF d < Len(body) THEN d + 1 ELSE d]
  BY LineIsRead
<1>2. Len(body) \in Nat
  BY LenProperties
<1>3. ASSUME d < e PROVE FALSE
  <2>1. d \in pos .. e - 1 /\ d # Len(body)
    BY <1>2, <1>3
  <2> QED BY <1>1, <2>1
<1>4. ASSUME e < d PROVE FALSE
  <2>1. e \in pos .. d - 1 /\ e # Len(body)
    BY <1>2, <1>4
  <2> QED BY <1>1, <2>1
<1>5. d = e
  BY <1>2, <1>3, <1>4
<1> QED BY <1>1, <1>5

\* Reading a line goes on, and not beyond the end.
LEMMA LineGoesOn ==
    ASSUME NEW S, NEW body \in Seq(S), NEW pos \in 0 .. Len(body) - 1
    PROVE  /\ ReadLine(body, pos).next \in pos + 1 .. Len(body)
           /\ ReadLine(body, pos).line = <<>> \/ ReadLine(body, pos).line[1] = body[pos + 1]
<1>1. PICK e \in pos .. Len(body) :
         /\ e = Len(body) \/ body[e + 1] = NL
         /\ ReadLine(body, pos) = [line |-> SubSeq(body, pos + 1, e),
                                   next |-> IF e < Len(body) THEN e + 1 ELSE e]
  BY LineIsRead
<1>2. Len(body) \in Nat
  BY LenProperties
<1>3. ReadLine(body, pos).next \in pos + 1 .. Len(body)
  BY <1>1, <1>2
<1>4. ReadLine(body, pos).line = SubSeq(body, pos + 1, e)
  BY <1>1
<1>5. CASE e = pos
  BY <1>2, <1>3, <1>4, <1>5, SubSeqEmpty
<1>6. CASE e # pos
  <2>1. pos + 1 \in 1 .. Len(body) /\ e \in 1 .. Len(body) /\ pos + 1 <= e
    BY <1>2, <1>6
  <2> QED BY <1>3, <1>4, <2>1, PartOfText
<1> QED BY <1>5, <1>6

\* What parseEnvelope has read so far does not matter for what is next.
LEMMA PayloadGoesOn ==
    ASSUME NEW S, NEW body \in Seq(S), NEW pos \in 1 .. Len(body), NEW length \in Int,
           ReadItemPayload(body, pos, length).ok
    PROVE  ReadItemPayload(body, pos, length).next \in pos .. Len(body)
<1> DEFINE item == ReadItemPayload(body, pos, length)
           end == pos + length
           next == IF end < Len(body) /\ body[end + 1] = NL THEN end + 1 ELSE end
<1>1. Len(body) \in Nat
  BY LenProperties
<1>2. CASE length > 0
  <2>1. end <= Len(body)
    BY <1>2 DEF ReadItemPayload
  <2>2. item.next = next
    BY <1>2, <2>1, <1>1 DEF ReadItemPayload
  <2>3. next \in {end, end + 1} /\ next <= Len(body)
    BY <1>1, <1>2, <2>1
  <2> QED BY <1>1, <1>2, <2>2, <2>3
<1>3. CASE ~(length > 0)
  <2>1. ~(pos >= Len(body))
    BY <1>3 DEF ReadItemPayload
  <2>2. item.next = ReadLine(body, pos).next
    BY <1>3, <2>1 DEF ReadItemPayload
  <2>3. pos \in 0 .. Len(body) - 1
    BY <1>1, <2>1
  <2>4. ReadLine(body, pos).next \in pos + 1 .. Len(body)
    BY <2>3, LineGoesOn
  <2> QED BY <1>1, <2>2, <2>4
<1> QED BY <1>2, <1>3

\* The body of ItemsFrom's function.
ItemsAt(body, f, pos) ==
    IF pos = Len(body) THEN [ok |-> TRUE, items |-> <<>>]
    ELSE LET read == ReadLine(body, pos)
             header == read.line[1].value
             item == ReadItemPayload(body, read.next, header.length)
             rest == f[item.next]
         IN  IF read.line = <<>> THEN f[read.next]
             ELSE IF ~Decodes(read.line) THEN Failed
             ELSE IF header.type = "" THEN f[read.next]
             ELSE IF ~item.ok \/ ~rest.ok THEN Failed
             ELSE [ok |-> TRUE, items |->
                     <<[type |-> header.type, payload |-> item.payload]>> \o rest.items]

\* A line that decodes, after the first, is the header of an item.
LEMMA DecodedHeader ==
    ASSUME NEW S, NEW body \in Seq(S), \A i \in 2 .. Len(body) : body[i] \in Symbol,
           NEW pos \in 1 .. Len(body) - 1,
           ReadLine(body, pos).line # <<>>, Decodes(ReadLine(body, pos).line)
    PROVE  ReadLine(body, pos).line[1].value \in ItemHeader
<1> DEFINE line == ReadLine(body, pos).line
<1>1. Len(body) \in Nat
  BY LenProperties
<1>2. line[1] = body[pos + 1] /\ pos + 1 \in 2 .. Len(body)
  BY <1>1, LineGoesOn
<1>3. line[1] \in Symbol
  BY <1>2
<1>4. line = JSON(line[1].value)
  BY DEF Decodes
<1> HIDE DEF line
<1>5. line[1] = [sym |-> "opening", value |-> line[1].value]
  BY <1>4 DEF JSON
<1>6. line[1].sym = "opening"
  BY <1>5
<1>7. line[1] \in [sym : {"opening"}, value : ItemHeader]
  BY <1>3, <1>6 DEF Symbol, NL
<1> QED BY <1>7 DEF line

\* The items from a position on are made of those from later ones on.
LEMMA ItemsDependOnLater ==
    ASSUME NEW S, NEW body \in Seq(S), \A i \in 2 .. Len(body) : body[i] \in Symbol,
           NEW pos \in 1 .. Len(body), NEW f, NEW g,
           \A p \in pos + 1 .. Len(body) : f[p] = g[p]
    PROVE  ItemsAt(body, f, pos) = ItemsAt(body, g, pos)
<1> DEFINE read == ReadLine(body, pos)
           header == read.line[1].value
           item == ReadItemPayload(body, read.next, header.length)
<1>1. Len(body) \in Nat
  BY LenProperties
<1>2. CASE pos = Len(body)
  BY <1>2 DEF ItemsAt
<1>3. CASE pos # Len(body)
  <2>1. pos \in 0 .. Len(body) - 1 /\ pos \in 1 .. Len(body) - 1
    BY <1>1, <1>3
  <2>2. read.next \in pos + 1 .. Len(body)
    BY <2>1, LineGoesOn
  <2>3. f[read.next] = g[read.next]
    BY <2>2
  <2>4. CASE read.line = <<>>
    BY <1>3, <2>3, <2>4 DEF ItemsAt
  <2>5. CASE read.line # <<>> /\ ~Decodes(read.line)
    BY <1>3, <2>5 DEF ItemsAt
  <2>6. CASE read.line # <<>> /\ Decodes(read.line) /\ header.type = ""
    BY <1>3, <2>3, <2>6 DEF ItemsAt
  <2>7. CASE read.line # <<>> /\ Decodes(read.line) /\ header.type # "" /\ ~item.ok
    BY <1>3, <2>7 DEF ItemsAt
  <2>8. CASE read.line # <<>> /\ Decodes(read.line) /\ header.type # "" /\ item.ok
    <3>1. header.length \in Int
      BY <2>1, <2>8, DecodedHeader DEF ItemHeader
    <3>2. read.next \in 1 .. Len(body)
      BY <1>1, <2>2
    <3>3. item.next \in read.next .. Len(body)
      BY <2>8, <3>1, <3>2, PayloadGoesOn
    <3>4. item.next \in pos + 1 .. Len(body)
      BY <1>1, <2>2, <3>3
    <3>5. f[item.next] = g[item.next]
      BY <3>4
    <3> QED BY <1>3, <2>8, <3>5 DEF ItemsAt
  <2> QED BY <2>4, <2>5, <2>6, <2>7, <2>8
<1> QED BY <1>2, <1>3

\* The function that ItemsFrom chooses exists, for each of its values depends
\* on later ones only.
LEMMA ItemsFromSteps ==
    ASSUME NEW S, NEW body \in Seq(S), \A i \in 2 .. Len(body) : body[i] \in Symbol
    PROVE  \A pos \in 1 .. Len(body) : ItemsFrom(body)[pos] = ItemsAt(body, ItemsFrom(body), pos)
<1> DEFINE Agrees(f, k) == \A pos \in 1 .. Len(body) :
                              pos > Len(body) - k => f[pos] = ItemsAt(body, f, pos)
           Good(k) == \E f : Agrees(f, k)
           N == {k \in Nat : Good(k)}
<1>1. Len(body) \in Nat
  BY LenProperties
<1>2. 0 \in N
  <2>1. \A pos \in 1 .. Len(body) : ~(pos > Len(body) - 0)
    BY <1>1
  <2>2. \A f : Agrees(f, 0)
    BY <2>1
  <2>3. Good(0)
    BY <2>2
  <2> QED BY <2>3
<1>3. ASSUME NEW k \in Nat, k \in N PROVE k + 1 \in N
  <2>1. Good(k)
    BY <1>3
  <2>2. PICK f : Agrees(f, k)
    BY <2>1
  <2> DEFINE g == [pos \in 1 .. Len(body) |->
                      IF pos > Len(body) - k THEN f[pos] ELSE ItemsAt(body, f, pos)]
  <2>3. \A pos \in 1 .. Len(body) :
           g[pos] = IF pos > Len(body) - k THEN f[pos] ELSE ItemsAt(body, f, pos)
    OBVIOUS
  <2> HIDE DEF g
  <2>4. ASSUME NEW pos \in 1 .. Len(body), pos > Len(body) - (k + 1)
        PROVE  g[pos] = ItemsAt(body, g, pos)
    <3>1. \A p \in pos + 1 .. Len(body) : p \in 1 .. Len(body) /\ p > Len(body) - k
      BY <1>1, <2>4
    <3>2. \A p \in pos + 1 .. Len(body) : f[p] = g[p]
      BY <2>3, <3>1
    <3>3. ItemsAt(body, f, pos) = ItemsAt(body, g, pos)
      BY <3>2, ItemsDependOnLater
    <3>4. g[pos] = ItemsAt(body, f, pos)
      BY <2>2, <2>3
    <3> QED BY <3>3, <3>4
  <2>5. Agrees(g, k + 1)
    BY <2>4
  <2>6. Good(k + 1)
    BY <2>5
  <2> QED BY <2>6
<1> HIDE DEF N
<1>4. Len(body) \in N
  BY <1>1, <1>2, <1>3, NatSetInduction
<1>5. PICK f : \A pos \in 1 .. Len(body) : f[pos] = ItemsAt(body, f, pos)
  <2>1. Good(Len(body))
    BY <1>4 DEF N
  <2>2. \A pos \in 1 .. Len(body) : pos > Len(body) - Len(body)
    BY <1>1
  <2> QED BY <2>1, <2>2
<1> DEFINE h == [pos \in 1 .. Len(body) |-> f[pos]]
<1>6. \A pos \in 1 .. Len(body) : h[pos] = f[pos]
  OBVIOUS
<1>7. h = [pos \in 1 .. Len(body) |-> h[pos]]
  OBVIOUS
<1> HIDE DEF h
<1>8. ASSUME NEW pos \in 1 .. Len(body) PROVE h[pos] = ItemsAt(body, h, pos)
  <2>1. \A p \in pos + 1 .. Len(body) : p \in 1 .. Len(body)
    BY <1>1
  <2>2. \A p \in pos + 1 .. Len(body) : f[p] = h[p]
    BY <1>6, <2>1
  <2>3. ItemsAt(body, f, pos) = ItemsAt(body, h, pos)
    BY <2>2, ItemsDependOnLater
  <2> QED BY <1>5, <1>6, <2>3
<1>9. h = [pos \in 1 .. Len(body) |-> ItemsAt(body, h, pos)]
  BY <1>7, <1>8
<1>10. ItemsFrom(body) = CHOOSE e : e = [pos \in 1 .. Len(body) |-> ItemsAt(body, e, pos)]
  BY DEF ItemsFrom, ItemsAt
<1>11. ItemsFrom(body) = [pos \in 1 .. Len(body) |-> ItemsAt(body, ItemsFrom(body), pos)]
  BY <1>9, <1>10
<1> QED BY <1>11

\* What has been joined stays in front.
LEMMA PrefixesGrow ==
    ASSUME NEW B, NEW s \in Seq(Seq(B)), NEW f, JoinsUpTo(f, s, B)
    PROVE  \A n \in 0 .. Len(s) :
              /\ Len(f[n]) <= Len(f[Len(s)])
              /\ \A j \in 1 .. Len(f[n]) : f[Len(s)][j] = f[n][j]
<1> DEFINE k == Len(s)
           Grown(d) == \A n \in 0 .. k : n + d = k =>
                         /\ Len(f[n]) <= Len(f[k])
                         /\ \A j \in 1 .. Len(f[n]) : f[k][j] = f[n][j]
           N == {d \in Nat : Grown(d)}
<1> f \in [0 .. Len(s) -> Seq(B)] /\ \A i \in 1 .. Len(s) : f[i] = f[i - 1] \o s[i]
  BY DEF JoinsUpTo
<1>1. k \in Nat /\ \A i \in 1 .. k : s[i] \in Seq(B)
  BY LenProperties, ElementOfSeq
<1>2. \A n \in 0 .. k : f[n] \in Seq(B) /\ Len(f[n]) \in Nat
  BY LenProperties
<1>3. 0 \in N
  <2>1. \A n \in 0 .. k : n + 0 = k => n = k
    BY <1>1
  <2>2. k \in 0 .. k
    BY <1>1
  <2>3. Len(f[k]) <= Len(f[k])
    BY <1>2, <2>2
  <2>4. Grown(0)
    BY <2>1, <2>3
  <2> QED BY <2>4
<1>4. ASSUME NEW d \in Nat, d \in N PROVE d + 1 \in N
  <2>1. Grown(d)
    BY <1>4
  <2>2. ASSUME NEW n \in 0 .. k, n + (d + 1) = k
        PROVE  /\ Len(f[n]) <= Len(f[k])
               /\ \A j \in 1 .. Len(f[n]) : f[k][j] = f[n][j]
    <3>1. n + 1 \in 1 .. k /\ n + 1 \in 0 .. k /\ (n + 1) + d = k /\ (n + 1) - 1 = n
      BY <1>1, <2>2
    <3>2. /\ Len(f[n + 1]) <= Len(f[k])
          /\ \A j \in 1 .. Len(f[n + 1]) : f[k][j] = f[n + 1][j]
      BY <2>1, <3>1
    <3>3. f[n + 1] = f[(n + 1) - 1] \o s[n + 1]
      BY <3>1
    <3>4. f[n + 1] = f[n] \o s[n + 1]
      BY <3>1, <3>3
    <3>5. f[n] \in Seq(B) /\ s[n + 1] \in Seq(B) /\ Len(s[n + 1]) \in Nat
      BY <1>1, <1>2, <3>1, LenProperties
    <3>6. /\ Len(f[n + 1]) = Len(f[n]) + Len(s[n + 1])
          /\ \A j \in 1 .. Len(f[n]) : f[n + 1][j] = f[n][j]
      BY <3>4, <3>5
    <3>7. /\ Len(f[n]) <= Len(f[n + 1])
          /\ Len(f[n]) \in Nat /\ Len(f[n + 1]) \in Nat /\ Len(f[k]) \in Nat
      BY <1>1, <1>2, <3>1, <3>5, <3>6
    <3>8. \A j \in 1 .. Len(f[n]) : j \in 1 .. Len(f[n + 1])
      BY <3>7
    <3> QED BY <3>2, <3>6, <3>7, <3>8
  <2>3. Grown(d + 1)
    BY <2>2
  <2> QED BY <2>3
<1> HIDE DEF N
<1>5. Nat \subseteq N
  BY <1>3, <1>4, NatSetInduction
<1>6. ASSUME NEW n \in 0 .. k
      PROVE  /\ Len(f[n]) <= Len(f[k])
             /\ \A j \in 1 .. Len(f[n]) : f[k][j] = f[n][j]
  <2>1. k - n \in Nat /\ n + (k - n) = k
    BY <1>1
  <2>2. Grown(k - n)
    BY <1>5, <2>1 DEF N
  <2> QED BY <2>1, <2>2
<1> QED BY <1>6

\* The header that WriteItem writes.
Header(item) == [type |-> item.type, length |-> IF item.declared THEN Len(item.payload) ELSE 0]

\* The positions in a block: a newline, a header, a newline, a payload.
LEMMA FourAndMore ==
    ASSUME NEW S, NEW a \in S, NEW b \in S, NEW c \in S, NEW d \in S, NEW p \in Seq(S)
    PROVE  LET x == <<a>> \o (<<b, c>> \o <<d>> \o p)
           IN  /\ x \in Seq(S) /\ Len(x) = 4 + Len(p)
               /\ x[1] = a /\ x[2] = b /\ x[3] = c /\ x[4] = d
               /\ \A i \in 1 .. Len(p) : x[4 + i] = p[i]
OBVIOUS

\* The symbols of an item, with the newline before it.
LEMMA WrittenItem ==
    ASSUME NEW item \in Item
    PROVE  LET block == <<NL>> \o WriteItem(item)
           IN  /\ block \in Seq(Symbol) /\ Len(block) = 4 + Len(item.payload)
               /\ block[1] = NL /\ block[4] = NL
               /\ block[2] = JSON(Header(item))[1] /\ block[3] = JSON(Header(item))[2]
               /\ \A i \in 1 .. Len(item.payload) : block[4 + i] = item.payload[i]
<1> DEFINE b == [sym |-> "opening", value |-> Header(item)]
           c == [sym |-> "closing"]
<1>1. item.payload \in Seq(Symbol) /\ Len(item.payload) \in Int
  BY LenProperties DEF Item
<1>2. Header(item) \in ItemHeader
  BY <1>1 DEF Header, ItemHeader, Item
<1>3. b \in Symbol /\ c \in Symbol /\ NL \in Symbol
  BY <1>2 DEF Symbol
<1>4. JSON(Header(item)) = <<b, c>>
  BY DEF JSON
<1>5. WriteItem(item) = <<b, c>> \o <<NL>> \o item.payload
  BY DEF WriteItem, JSON, Header
<1>6. JSON(Header(item))[1] = b /\ JSON(Header(item))[2] = c
  BY <1>4
<1> HIDE DEF b, c
<1> QED BY <1>1, <1>3, <1>5, <1>6, FourAndMore

\* Where each item of an envelope starts.
Layout(written, start, items, ending) ==
    /\ start \in [1 .. Len(items) + 1 -> Nat \ {0, 1}] /\ start[1] = 2
    /\ Len(written) = start[Len(items) + 1] + Len(ending)
    /\ \A i \in 1 .. Len(ending) : written[start[Len(items) + 1] + i] = NL
    /\ \A n \in 1 .. Len(items) :
          /\ start[n + 1] = start[n] + 4 + Len(items[n].payload)
          /\ start[n + 1] <= start[Len(items) + 1]
          /\ written[start[n] + 1] = NL /\ written[start[n] + 4] = NL
          /\ written[start[n] + 2] = JSON(Header(items[n]))[1]
          /\ written[start[n] + 3] = JSON(Header(items[n]))[2]
          /\ \A i \in 1 .. Len(items[n].payload) :
                written[start[n] + 4 + i] = items[n].payload[i]

\* The positions in what follows a header.
LEMMA TwoAndMore ==
    ASSUME NEW S, NEW a, NEW b, NEW p \in Seq(S), NEW q \in Seq(S), b \in S
    PROVE  LET x == <<a, b>> \o p \o q
           IN  /\ x \in Seq(S \cup {a}) /\ Len(x) = 2 + Len(p) + Len(q)
               /\ x[1] = a /\ x[2] = b
               /\ \A i \in 1 .. Len(p) : x[2 + i] = p[i]
               /\ \A i \in 1 .. Len(q) : x[2 + Len(p) + i] = q[i]
<1>1. /\ <<a, b>> \in Seq(S \cup {a}) /\ p \in Seq(S \cup {a}) /\ q \in Seq(S \cup {a})
      /\ Len(p) \in Nat /\ Len(q) \in Nat
  OBVIOUS
<1> QED BY <1>1

\* Where the symbols of the second of two sequences are.
LEMMA AfterFirst ==
    ASSUME NEW S, NEW p \in Seq(S), NEW q \in Seq(S)
    PROVE  /\ Len(p \o q) = Len(p) + Len(q)
           /\ \A i \in 1 .. Len(q) : (p \o q)[Len(p) + i] = q[i]
OBVIOUS

\* What WriteEnvelope writes: where each item and the ending is.
LEMMA LaidOut ==
    ASSUME NEW dsn, NEW items \in Seq(Item), NEW ending \in Seq({NL})
    PROVE  LET written == WriteEnvelope(dsn, items, ending)
           IN  /\ written \in Seq(Symbol \cup {JSON([dsn |-> dsn])[1]})
               /\ \A i \in 2 .. Len(written) : written[i] \in Symbol
               /\ Len(written) >= 2
               /\ written[1] = JSON([dsn |-> dsn])[1] /\ written[2] = JSON([dsn |-> dsn])[2]
               /\ \E start : Layout(written, start, items, ending)
<1> DEFINE s == [n \in DOMAIN items |-> <<NL>> \o WriteItem(items[n])]
           a == [sym |-> "opening", value |-> [dsn |-> dsn]]
           b == [sym |-> "closing"]
           k == Len(items)
           written == WriteEnvelope(dsn, items, ending)
<1>1. /\ k \in Nat /\ DOMAIN items = 1 .. k
      /\ \A n \in 1 .. k : items[n] \in Item /\ items[n].payload \in Seq(Symbol)
                            /\ Len(items[n].payload) \in Nat
  <2>1. k \in Nat /\ DOMAIN items = 1 .. k /\ \A n \in 1 .. k : items[n] \in Item
    BY LenProperties, ElementOfSeq
  <2>2. \A item \in Item : item.payload \in Seq(Symbol) /\ Len(item.payload) \in Nat
    BY LenProperties DEF Item
  <2> QED BY <2>1, <2>2
<1>2. /\ s \in Seq(Seq(Symbol)) /\ Len(s) = k
      /\ \A n \in 1 .. k : s[n] = <<NL>> \o WriteItem(items[n])
  BY <1>1, WrittenItem
<1> HIDE DEF s
<1>20. PICK f : JoinsUpTo(f, s, Symbol)
  BY <1>2, FlattenPrefixes
<1>3. /\ f \in [0 .. Len(s) -> Seq(Symbol)]
      /\ f[0] = <<>> /\ f[Len(s)] = FlattenSeq(s)
      /\ \A i \in 1 .. Len(s) : f[i] = f[i - 1] \o s[i]
  BY <1>20 DEF JoinsUpTo
<1>19. \A n \in 0 .. Len(s) : /\ Len(f[n]) <= Len(f[Len(s)])
                               /\ \A j \in 1 .. Len(f[n]) : f[Len(s)][j] = f[n][j]
  BY <1>2, <1>20, PrefixesGrow
<1>4. \A n \in 0 .. k : f[n] \in Seq(Symbol) /\ Len(f[n]) \in Nat
  BY <1>2, <1>3, LenProperties
<1>5. ending \in Seq(Symbol) /\ b \in Symbol /\ Len(ending) \in Nat
      /\ \A i \in 1 .. Len(ending) : ending[i] = NL
  BY LenProperties, ElementOfSeq DEF Symbol
<1>6. written = <<a, b>> \o f[k] \o ending
  BY <1>2, <1>3 DEF WriteEnvelope, JSON, s
<1>7. JSON([dsn |-> dsn])[1] = a /\ JSON([dsn |-> dsn])[2] = b
  BY DEF JSON
<1> HIDE DEF a, b, written
<1>8. f[k] \in Seq(Symbol) /\ Len(f[k]) \in Nat
  BY <1>1, <1>4
<1>9. /\ written \in Seq(Symbol \cup {a}) /\ Len(written) = 2 + Len(f[k]) + Len(ending)
      /\ written[1] = a /\ written[2] = b
      /\ \A i \in 1 .. Len(f[k]) : written[2 + i] = f[k][i]
      /\ \A i \in 1 .. Len(ending) : written[2 + Len(f[k]) + i] = ending[i]
  <2> DEFINE p == f[k]
  <2>1. p \in Seq(Symbol) /\ ending \in Seq(Symbol) /\ b \in Symbol
    BY <1>5, <1>8
  <2>2. written = <<a, b>> \o p \o ending
    BY <1>6
  <2> HIDE DEF p
  <2>3. /\ written \in Seq(Symbol \cup {a}) /\ Len(written) = 2 + Len(p) + Len(ending)
        /\ written[1] = a /\ written[2] = b
        /\ \A i \in 1 .. Len(p) : written[2 + i] = p[i]
        /\ \A i \in 1 .. Len(ending) : written[2 + Len(p) + i] = ending[i]
    BY ONLY <2>1, <2>2, TwoAndMore
  <2> QED BY <2>3 DEF p
<1>10. ASSUME NEW i \in 2 .. Len(written) PROVE written[i] \in Symbol
  <2>1. CASE i = 2
    BY <1>5, <1>9, <2>1
  <2>2. CASE i \in 3 .. 2 + Len(f[k])
    <3>1. i - 2 \in 1 .. Len(f[k]) /\ 2 + (i - 2) = i
      BY <1>8, <2>2
    <3>2. written[i] = f[k][i - 2]
      BY <1>9, <3>1
    <3> QED BY <1>8, <3>1, <3>2, ElementOfSeq
  <2>3. CASE i > 2 + Len(f[k])
    <3> DEFINE j == i - 2 - Len(f[k])
    <3>1. j \in 1 .. Len(ending) /\ 2 + Len(f[k]) + j = i
      BY <1>5, <1>8, <1>9, <2>3
    <3>2. written[i] = ending[j]
      BY <1>9, <3>1
    <3> QED BY <1>5, <3>1, <3>2, ElementOfSeq
  <2> QED BY <1>8, <2>1, <2>2, <2>3
<1> DEFINE start == [n \in 1 .. k + 1 |-> 2 + Len(f[n - 1])]
<1>11. \A n \in 1 .. k + 1 : start[n] = 2 + Len(f[n - 1])
  OBVIOUS
<1>12. start \in [1 .. k + 1 -> Nat \ {0, 1}]
  <2>1. \A n \in 1 .. k + 1 : n - 1 \in 0 .. k
    BY <1>1
  <2> QED BY <1>4, <2>1
<1> HIDE DEF start
<1>13. start[1] = 2
  <2>1. 1 \in 1 .. k + 1 /\ 1 - 1 = 0
    BY <1>1
  <2> QED BY <1>3, <1>11, <2>1, EmptySeq
<1>14. start[k + 1] = 2 + Len(f[k])
  <2>1. k + 1 \in 1 .. k + 1 /\ (k + 1) - 1 = k
    BY <1>1
  <2>2. start[k + 1] = 2 + Len(f[(k + 1) - 1])
    BY <1>11, <2>1
  <2> QED BY <2>1, <2>2
<1>15. ASSUME NEW n \in 1 .. k
       PROVE  /\ start[n + 1] = start[n] + 4 + Len(items[n].payload)
              /\ start[n + 1] <= start[k + 1]
              /\ written[start[n] + 1] = NL /\ written[start[n] + 4] = NL
              /\ written[start[n] + 2] = JSON(Header(items[n]))[1]
              /\ written[start[n] + 3] = JSON(Header(items[n]))[2]
              /\ \A i \in 1 .. Len(items[n].payload) :
                    written[start[n] + 4 + i] = items[n].payload[i]
  <2> DEFINE block == <<NL>> \o WriteItem(items[n])
             p == Len(items[n].payload)
             m == Len(f[n - 1])
  <2>1. /\ n \in 1 .. k + 1 /\ n + 1 \in 1 .. k + 1 /\ (n + 1) - 1 = n
        /\ n - 1 \in 0 .. k /\ n \in 0 .. k
    BY <1>1
  <2>2. /\ block \in Seq(Symbol) /\ Len(block) = 4 + p
        /\ block[1] = NL /\ block[4] = NL
        /\ block[2] = JSON(Header(items[n]))[1] /\ block[3] = JSON(Header(items[n]))[2]
        /\ \A i \in 1 .. p : block[4 + i] = items[n].payload[i]
    BY <1>1, WrittenItem
  <2>3. f[n] = f[n - 1] \o block
    BY <1>2, <1>3
  <2> HIDE DEF block
  <2>4. f[n - 1] \in Seq(Symbol) /\ m \in Nat /\ p \in Nat
    BY <1>1, <1>4, <2>1
  <2>5. /\ Len(f[n]) = m + Len(block)
        /\ \A j \in 1 .. Len(block) : f[n][m + j] = block[j]
    <3>1. /\ Len(f[n - 1] \o block) = Len(f[n - 1]) + Len(block)
          /\ \A j \in 1 .. Len(block) : (f[n - 1] \o block)[Len(f[n - 1]) + j] = block[j]
      <4>1. block \in Seq(Symbol) /\ f[n - 1] \in Seq(Symbol)
        BY <2>2, <2>4
      <4> QED BY ONLY <4>1, AfterFirst
    <3> QED BY <2>3, <3>1
  <2>6. start[n] = 2 + m
    BY <1>11, <2>1
  <2>7. start[n + 1] = 2 + Len(f[(n + 1) - 1])
    BY <1>11, <2>1
  <2>8. start[n + 1] = 2 + Len(f[n])
    BY <2>1, <2>7
  <2>9. /\ Len(f[n]) <= Len(f[k])
        /\ \A j \in 1 .. Len(f[n]) : f[k][j] = f[n][j]
    BY <1>2, <1>19, <2>1
  <2> HIDE DEF m, p
  <2>10. ASSUME NEW j \in 1 .. 4 + p PROVE written[start[n] + j] = block[j]
    <3>1. m + j \in 1 .. Len(f[n]) /\ m + j \in 1 .. Len(f[k]) /\ start[n] + j = 2 + (m + j)
      <4>1. Len(f[n]) = m + (4 + p) /\ Len(f[n]) <= Len(f[k])
        BY <2>2, <2>5, <2>9
      <4> QED BY <1>8, <2>4, <2>6, <4>1
    <3>2. written[2 + (m + j)] = f[k][m + j]
      BY <1>9, <3>1
    <3>3. f[k][m + j] = f[n][m + j]
      BY <2>9, <3>1
    <3>4. f[n][m + j] = block[j]
      BY <2>2, <2>5
    <3> QED BY <3>1, <3>2, <3>3, <3>4
  <2>11. start[n + 1] = start[n] + 4 + p /\ start[n + 1] <= start[k + 1]
    BY <1>8, <1>14, <2>2, <2>4, <2>5, <2>6, <2>8, <2>9
  <2>12. 1 \in 1 .. 4 + p /\ 2 \in 1 .. 4 + p /\ 3 \in 1 .. 4 + p /\ 4 \in 1 .. 4 + p
    BY <2>4
  <2>13. ASSUME NEW i \in 1 .. p PROVE written[start[n] + 4 + i] = items[n].payload[i]
    <3>1. 4 + i \in 1 .. 4 + p /\ start[n] + 4 + i = start[n] + (4 + i)
      BY <2>4, <2>6
    <3> QED BY <2>2, <2>10, <3>1
  <2> QED BY <2>2, <2>10, <2>11, <2>12, <2>13 DEF p
<1>16. \A i \in 1 .. Len(ending) : written[start[k + 1] + i] = NL
  BY <1>5, <1>9, <1>14
<1>17. Len(written) = start[k + 1] + Len(ending) /\ Len(written) >= 2
  BY <1>5, <1>8, <1>9, <1>14
<1>18. Layout(written, start, items, ending)
  BY <1>12, <1>13, <1>15, <1>16, <1>17 DEF Layout
<1> QED BY <1>7, <1>9, <1>10, <1>17, <1>18 DEF written

\* The body holds the first symbols of what was written, if not all.
Cut(body, S, written, start, items, ending) ==
    /\ body \in Seq(S) /\ \A i \in 2 .. Len(body) : body[i] \in Symbol
    /\ items \in Seq(Item) /\ ending \in Seq({NL})
    /\ Layout(written, start, items, ending)
    /\ Len(body) <= Len(written)
    /\ \A i \in 1 .. Len(body) : body[i] = written[i]

\* The body holds all of it, and a last empty item has its newline.
Whole(body, written, items, ending) ==
    Len(body) = Len(written) /\ Terminated(items, ending)

\* A newline is read as an empty line.
LEMMA BlankLine ==
    ASSUME NEW S, NEW body \in Seq(S), NEW pos \in 0 .. Len(body) - 1, body[pos + 1] = NL
    PROVE  ReadLine(body, pos) = [line |-> <<>>, next |-> pos + 1]
<1>1. Len(body) \in Nat
  BY LenProperties
<1>2. pos \in pos .. Len(body) /\ pos < Len(body) /\ \A m \in pos .. pos - 1 : FALSE
  BY <1>1
<1>3. ReadLine(body, pos) = [line |-> SubSeq(body, pos + 1, pos),
                             next |-> IF pos < Len(body) THEN pos + 1 ELSE pos]
  BY <1>2, LineUpTo
<1>4. SubSeq(body, pos + 1, pos) = <<>>
  BY <1>1, SubSeqEmpty
<1> QED BY <1>2, <1>3, <1>4

\* parseEnvelope passes over it.
LEMMA BlankLineSkipped ==
    ASSUME NEW S, NEW body \in Seq(S), \A i \in 2 .. Len(body) : body[i] \in Symbol,
           NEW pos \in 1 .. Len(body) - 1, body[pos + 1] = NL
    PROVE  ItemsFrom(body)[pos] = ItemsFrom(body)[pos + 1]
<1>1. Len(body) \in Nat
  BY LenProperties
<1>2. pos \in 0 .. Len(body) - 1 /\ pos \in 1 .. Len(body) /\ pos # Len(body)
  BY <1>1
<1>3. ReadLine(body, pos) = [line |-> <<>>, next |-> pos + 1]
  BY <1>2, BlankLine
<1>4. ItemsFrom(body)[pos] = ItemsAt(body, ItemsFrom(body), pos)
  BY <1>2, ItemsFromSteps
<1> QED BY <1>2, <1>3, <1>4 DEF ItemsAt

\* The types of what Cut speaks of.
LEMMA CutTypes ==
    ASSUME NEW S, NEW body, NEW written, NEW start, NEW items, NEW ending,
           Cut(body, S, written, start, items, ending)
    PROVE  /\ Len(body) \in Nat /\ Len(items) \in Nat /\ Len(ending) \in Nat
           /\ start[Len(items) + 1] \in Nat /\ start[Len(items) + 1] >= 2
           /\ Len(written) = start[Len(items) + 1] + Len(ending)
           /\ Len(body) <= Len(written)
           /\ \A n \in 1 .. Len(items) :
                 /\ start[n] \in Nat /\ start[n] >= 2 /\ start[n + 1] \in Nat
                 /\ items[n] \in Item /\ items[n].payload \in Seq(Symbol)
                 /\ Len(items[n].payload) \in Nat
                 /\ start[n + 1] = start[n] + 4 + Len(items[n].payload)
                 /\ start[n + 1] <= start[Len(items) + 1]
                 /\ start[n + 1] <= Len(written)
<1>1. Len(body) \in Nat /\ Len(items) \in Nat /\ Len(ending) \in Nat
  BY LenProperties DEF Cut
<1>2. \A n \in 1 .. Len(items) + 1 : start[n] \in Nat /\ start[n] >= 2
  <2>1. start \in [1 .. Len(items) + 1 -> Nat \ {0, 1}]
    BY DEF Cut, Layout
  <2>2. \A n \in 1 .. Len(items) + 1 : start[n] \in Nat \ {0, 1}
    BY <2>1
  <2> QED BY <2>2
<1>3. Len(items) + 1 \in 1 .. Len(items) + 1
      /\ \A n \in 1 .. Len(items) : n \in 1 .. Len(items) + 1 /\ n + 1 \in 1 .. Len(items) + 1
  BY <1>1
<1>4. \A n \in 1 .. Len(items) : items[n] \in Item
  BY ElementOfSeq DEF Cut
<1>5. \A item \in Item : item.payload \in Seq(Symbol) /\ Len(item.payload) \in Nat
  BY LenProperties DEF Item
<1>6. Len(written) = start[Len(items) + 1] + Len(ending) /\ Len(body) <= Len(written)
  BY DEF Cut, Layout
<1>7. \A n \in 1 .. Len(items) : /\ start[n + 1] = start[n] + 4 + Len(items[n].payload)
                                 /\ start[n + 1] <= start[Len(items) + 1]
  BY DEF Cut, Layout
<1>8. \A n \in 1 .. Len(items) : start[n + 1] <= Len(written)
  BY <1>1, <1>2, <1>3, <1>6, <1>7, SMTT(30)
<1> QED BY <1>1, <1>2, <1>3, <1>4, <1>5, <1>6, <1>7, <1>8

\* Behind the last item there are newlines, of which nothing comes.
LEMMA AfterItems ==
    ASSUME NEW S, NEW body, NEW written, NEW start, NEW items, NEW ending,
           Cut(body, S, written, start, items, ending),
           NEW pos \in Nat, start[Len(items) + 1] <= pos, pos <= Len(body)
    PROVE  ItemsFrom(body)[pos] = [ok |-> TRUE, items |-> <<>>]
<1> DEFINE first == start[Len(items) + 1]
           Nothing(d) == first <= Len(body) - d =>
                            ItemsFrom(body)[Len(body) - d] = [ok |-> TRUE, items |-> <<>>]
           N == {d \in Nat : Nothing(d)}
<1>1. Len(body) \in Nat /\ first \in Nat /\ first >= 2
  BY CutTypes
<1> HIDE DEF first
<1>2. body \in Seq(S) /\ \A i \in 2 .. Len(body) : body[i] \in Symbol
  BY DEF Cut
<1>3. 0 \in N
  <2>1. ASSUME first <= Len(body) - 0
        PROVE  ItemsFrom(body)[Len(body) - 0] = [ok |-> TRUE, items |-> <<>>]
    <3>1. Len(body) \in 1 .. Len(body) /\ Len(body) - 0 = Len(body)
      BY <1>1, <2>1
    <3>2. ItemsFrom(body)[Len(body)] = ItemsAt(body, ItemsFrom(body), Len(body))
      BY <1>2, <3>1, ItemsFromSteps
    <3> QED BY <3>1, <3>2 DEF ItemsAt
  <2> QED BY <2>1
<1>4. ASSUME NEW d \in Nat, d \in N PROVE d + 1 \in N
  <2>1. Nothing(d)
    BY <1>4
  <2>2. ASSUME first <= Len(body) - (d + 1)
        PROVE  ItemsFrom(body)[Len(body) - (d + 1)] = [ok |-> TRUE, items |-> <<>>]
    <3> DEFINE p == Len(body) - (d + 1)
               i == p + 1 - first
    <3>1. p \in 1 .. Len(body) - 1 /\ p + 1 \in 1 .. Len(body) /\ p + 1 = Len(body) - d
          /\ first <= Len(body) - d
      BY <1>1, <2>2
    <3>2. i \in 1 .. Len(ending) /\ first + i = p + 1
      <4>1. Len(ending) \in Nat /\ Len(body) <= first + Len(ending)
        BY CutTypes DEF first
      <4> QED BY <1>1, <2>2, <3>1, <4>1
    <3>3. written[first + i] = NL
      BY <3>2 DEF Cut, Layout, first
    <3>4. body[p + 1] = NL
      BY <3>1, <3>2, <3>3 DEF Cut
    <3>5. ItemsFrom(body)[p] = ItemsFrom(body)[p + 1]
      BY <1>2, <3>1, <3>4, BlankLineSkipped
    <3> QED BY <2>1, <3>1, <3>5
  <2>3. Nothing(d + 1)
    BY <2>2
  <2> QED BY <2>3
<1> HIDE DEF N
<1>5. Nat \subseteq N
  BY <1>3, <1>4, NatSetInduction
<1>6. Len(body) - pos \in Nat /\ Len(body) - (Len(body) - pos) = pos
  BY <1>1
<1>7. Nothing(Len(body) - pos)
  BY <1>5, <1>6 DEF N
<1> QED BY <1>6, <1>7 DEF first

\* Where an item ends, the line does.
LEMMA NewlineAfterItem ==
    ASSUME NEW S, NEW body, NEW written, NEW start, NEW items, NEW ending,
           Cut(body, S, written, start, items, ending),
           NEW n \in 1 .. Len(items) + 1, start[n] < Len(body)
    PROVE  body[start[n] + 1] = NL
<1>1. Len(body) \in Nat /\ Len(items) \in Nat
  BY CutTypes
<1>2. CASE n \in 1 .. Len(items)
  <2>1. written[start[n] + 1] = NL
    BY <1>2 DEF Cut, Layout
  <2>2. start[n] + 1 \in 1 .. Len(body)
    BY <1>1, <1>2, CutTypes, SMTT(30)
  <2> QED BY <2>1, <2>2 DEF Cut
<1>3. CASE n = Len(items) + 1
  <2> DEFINE first == start[Len(items) + 1]
  <2>1. /\ Len(ending) \in Nat /\ first \in Nat /\ Len(written) = first + Len(ending)
        /\ Len(body) <= Len(written)
    BY CutTypes
  <2>2. first < Len(body)
    BY <1>3
  <2>3. 1 \in 1 .. Len(ending) /\ first + 1 \in 1 .. Len(body)
    BY <1>1, <2>1, <2>2
  <2>4. written[first + 1] = NL
    BY <2>3 DEF Cut, Layout
  <2> QED BY <1>3, <2>3, <2>4 DEF Cut
<1> QED BY <1>1, <1>2, <1>3

\* The symbols of a line of JSON.
LEMMA JSONIsNoNewline ==
    ASSUME NEW value
    PROVE  /\ JSON(value)[1] # NL /\ JSON(value)[2] # NL
           /\ JSON(value) = <<JSON(value)[1], JSON(value)[2]>>
           /\ JSON(value)[1].value = value
<1>1. JSON(value)[1] = [sym |-> "opening", value |-> value] /\ JSON(value)[2] = [sym |-> "closing"]
  BY DEF JSON
<1>2. /\ JSON(value)[1].sym = "opening" /\ JSON(value)[2].sym = "closing"
      /\ JSON(value)[1].value = value
  BY <1>1
<1>3. NL.sym = "newline"
  BY DEF NL
<1>4. JSON(value) = <<JSON(value)[1], JSON(value)[2]>>
  BY DEF JSON
<1> QED BY <1>2, <1>3, <1>4

\* Lines of one symbol and of two.
LEMMA ShortLine ==
    ASSUME NEW S, NEW body \in Seq(S), NEW pos \in Nat
    PROVE  /\ pos + 1 \in 1 .. Len(body) => SubSeq(body, pos + 1, pos + 1) = <<body[pos + 1]>>
           /\ pos + 2 \in 1 .. Len(body) =>
                 SubSeq(body, pos + 1, pos + 2) = <<body[pos + 1], body[pos + 2]>>
<1>1. Len(body) \in Nat
  BY LenProperties
<1>2. ASSUME pos + 1 \in 1 .. Len(body)
      PROVE  SubSeq(body, pos + 1, pos + 1) = <<body[pos + 1]>>
  <2> DEFINE x == SubSeq(body, pos + 1, pos + 1)
             y == <<body[pos + 1]>>
  <2>1. \A i \in pos + 1 .. pos + 1 : i \in 1 .. Len(body)
    BY <1>2
  <2>2. \A i \in pos + 1 .. pos + 1 : body[i] \in S
    BY <2>1, ElementOfSeq
  <2>3. /\ x \in Seq(S) /\ Len(x) = 1
        /\ \A i \in 1 .. 1 : x[i] = body[pos + 1 + i - 1]
    BY <2>2, SubSeqProperties
  <2>4. y \in Seq(S) /\ Len(y) = 1 /\ y[1] = body[pos + 1]
    BY <2>2
  <2>5. x[1] = body[pos + 1]
    BY <2>3
  <2> HIDE DEF x, y
  <2>6. \A i \in 1 .. 1 : x[i] = y[i]
    BY <2>4, <2>5
  <2>7. x = y
    BY <2>3, <2>4, <2>6, SeqEqual
  <2> QED BY <2>7 DEF x, y
<1>3. ASSUME pos + 2 \in 1 .. Len(body)
      PROVE  SubSeq(body, pos + 1, pos + 2) = <<body[pos + 1], body[pos + 2]>>
  <2> DEFINE x == SubSeq(body, pos + 1, pos + 2)
             y == <<body[pos + 1], body[pos + 2]>>
  <2>1. \A i \in pos + 1 .. pos + 2 : i \in 1 .. Len(body)
    BY <1>3
  <2>2. \A i \in pos + 1 .. pos + 2 : body[i] \in S
    BY <2>1, ElementOfSeq
  <2>3. /\ x \in Seq(S) /\ Len(x) = 2
        /\ \A i \in 1 .. 2 : x[i] = body[pos + 1 + i - 1]
    BY <2>2, SubSeqProperties
  <2>4. y \in Seq(S) /\ Len(y) = 2 /\ y[1] = body[pos + 1] /\ y[2] = body[pos + 2]
    BY <2>2
  <2>5. x[1] = body[pos + 1 + 1 - 1] /\ x[2] = body[pos + 1 + 2 - 1]
    <3> HIDE DEF x
    <3> QED BY <2>3
  <2>8. pos + 1 + 1 - 1 = pos + 1 /\ pos + 1 + 2 - 1 = pos + 2
    OBVIOUS
  <2> HIDE DEF x, y
  <2>6. \A i \in 1 .. 2 : x[i] = y[i]
    BY <2>4, <2>5, <2>8
  <2>7. x = y
    BY <2>3, <2>4, <2>6, SeqEqual
  <2> QED BY <2>7 DEF x, y
<1> QED BY <1>2, <1>3

\* A line of JSON is read whole, with the newline behind it, or not decoded.
LEMMA JSONRead ==
    ASSUME NEW S, NEW body \in Seq(S), NEW pos \in 0 .. Len(body) - 1, NEW value,
           body[pos + 1] = JSON(value)[1],
           pos + 2 <= Len(body) => body[pos + 2] = JSON(value)[2],
           pos + 3 <= Len(body) => body[pos + 3] = NL
    PROVE  LET read == ReadLine(body, pos)
           IN  /\ read.line # <<>>
               /\ Decodes(read.line) <=> pos + 2 <= Len(body)
               /\ pos + 2 <= Len(body) =>
                     /\ read.line[1].value = value
                     /\ read.next = IF pos + 3 <= Len(body) THEN pos + 3 ELSE Len(body)
<1> DEFINE read == ReadLine(body, pos)
<1>1. Len(body) \in Nat /\ pos \in Nat /\ pos + 1 \in 1 .. Len(body)
  BY LenProperties
<1>2. JSON(value)[1] # NL /\ JSON(value)[2] # NL
  BY JSONIsNoNewline
<1>3. CASE pos + 1 = Len(body)
  <2> DEFINE e == pos + 1
  <2>1. e \in pos .. Len(body) /\ \A m \in pos .. e - 1 : m = pos
    BY <1>1
  <2>2. \A m \in pos .. e - 1 : body[m + 1] # NL
    BY <1>2, <2>1
  <2>3. read.line = SubSeq(body, pos + 1, e)
    BY <1>3, <2>1, <2>2, LineUpTo
  <2>4. read.line = <<body[pos + 1]>>
    BY <1>1, <2>3, ShortLine
  <2>5. read.line # <<>> /\ Len(read.line) # 2
    BY <2>4
  <2>6. ~(pos + 2 <= Len(body))
    BY <1>1, <1>3
  <2> QED BY <2>5, <2>6 DEF Decodes
<1>4. CASE pos + 2 <= Len(body)
  <2> DEFINE e == pos + 2
  <2>1. e \in pos .. Len(body) /\ \A m \in pos .. e - 1 : m = pos \/ m = pos + 1
    BY <1>1, <1>4
  <2>2. \A m \in pos .. e - 1 : body[m + 1] # NL
    <3>1. body[pos + 1] # NL /\ body[(pos + 1) + 1] # NL
      <4>1. (pos + 1) + 1 = pos + 2
        BY <1>1
      <4> QED BY <1>2, <1>4, <4>1
    <3> QED BY <2>1, <3>1
  <2>3. e = Len(body) \/ body[e + 1] = NL
    <3>1. e + 1 = pos + 3 /\ (e = Len(body) \/ pos + 3 <= Len(body))
      BY <1>1, <1>4
    <3> QED BY <3>1
  <2>4. read = [line |-> SubSeq(body, pos + 1, e), next |-> IF e < Len(body) THEN e + 1 ELSE e]
    BY <2>1, <2>2, <2>3, LineUpTo
  <2>5. read.line = <<body[pos + 1], body[pos + 2]>>
    <3>1. pos + 2 \in 1 .. Len(body)
      BY <1>1, <1>4
    <3> QED BY <1>1, <2>4, <3>1, ShortLine
  <2>6. read.line = JSON(value)
    BY <1>4, <2>5, JSONIsNoNewline
  <2>7. read.next = IF pos + 3 <= Len(body) THEN pos + 3 ELSE Len(body)
    BY <1>1, <1>4, <2>4
  <2> HIDE DEF read
  <2>8. read.line # <<>> /\ Len(read.line) = 2
    BY <2>5
  <2>9. read.line[1].value = value
    BY <2>6, JSONIsNoNewline
  <2>10. Decodes(read.line)
    BY <2>6, <2>8, <2>9 DEF Decodes
  <2> QED BY <1>4, <2>7, <2>8, <2>9, <2>10 DEF read
<1> QED BY <1>1, <1>3, <1>4

\* A payload that is in the body is what stands between its ends.
LEMMA PayloadIs ==
    ASSUME NEW S, NEW body, NEW written, NEW start, NEW items, NEW ending,
           Cut(body, S, written, start, items, ending),
           NEW n \in 1 .. Len(items), start[n + 1] <= Len(body)
    PROVE  /\ SubSeq(body, start[n] + 5, start[n + 1]) = items[n].payload
           /\ \A i \in 1 .. Len(items[n].payload) :
                 body[start[n] + 4 + i] = items[n].payload[i]
<1> DEFINE p == items[n].payload
           x == SubSeq(body, start[n] + 5, start[n + 1])
           a == start[n] + 5
           z == start[n + 1]
<1>1. /\ p \in Seq(Symbol) /\ Len(p) \in Nat /\ Len(body) \in Nat
      /\ start[n] \in Nat /\ start[n + 1] \in Nat /\ start[n + 1] = start[n] + 4 + Len(p)
  BY CutTypes
<1>2. \A i \in 1 .. Len(p) : body[start[n] + 4 + i] = p[i]
  <2> DEFINE l == Len(p)
             b == start[n]
             c == start[n + 1]
             m == Len(body)
  <2>1. l \in Nat /\ b \in Nat /\ m \in Nat /\ c = b + 4 + l /\ c <= m
    BY <1>1
  <2> HIDE DEF l, b, c, m
  <2>2. \A i \in 1 .. l : b + 4 + i \in 1 .. m
    BY <2>1
  <2>3. \A i \in 1 .. Len(p) : start[n] + 4 + i \in 1 .. Len(body)
    BY <2>2 DEF l, b, m
  <2> QED BY <2>3 DEF Cut, Layout
<1>3. a \in Int /\ z \in Int /\ z - a + 1 = Len(p) /\ (a <= z \/ Len(p) = 0)
  <2> DEFINE l == Len(p)
             b == start[n]
             c == start[n + 1]
  <2>1. l \in Nat /\ b \in Nat /\ c \in Nat /\ c = b + 4 + l /\ a = b + 5 /\ z = c
    BY <1>1
  <2> HIDE DEF a, z, l, b, c
  <2>2. a \in Int /\ z \in Int /\ z - a + 1 = l /\ (a <= z \/ l = 0)
    BY <2>1
  <2> QED BY <2>2 DEF l
<1>4. \A i \in a .. z : body[i] \in Symbol
  <2>1. \A i \in a .. z : i \in 2 .. Len(body)
    BY <1>1
  <2> QED BY <2>1 DEF Cut
<1>5. \A i \in 1 .. Len(p) : body[a + i - 1] = p[i]
  <2>1. \A i \in 1 .. Len(p) : a + i - 1 = start[n] + 4 + i
    BY <1>1
  <2> QED BY <1>2, <2>1
<1> HIDE DEF p, a, z
<1>6. /\ SubSeq(body, a, z) \in Seq(Symbol)
      /\ Len(SubSeq(body, a, z)) = IF a <= z THEN z - a + 1 ELSE 0
      /\ \A i \in 1 .. z - a + 1 : SubSeq(body, a, z)[i] = body[a + i - 1]
  BY <1>3, <1>4, SubSeqProperties
<1> DEFINE y == SubSeq(body, a, z)
<1>7. Len(y) = Len(p) /\ \A i \in 1 .. Len(p) : y[i] = p[i]
  BY <1>1, <1>3, <1>5, <1>6
<1>8. y = p
  BY <1>1, <1>6, <1>7, SeqEqual
<1> QED BY <1>2, <1>8 DEF p, a, z

\* In an envelope that is whole, something follows the header of an item
\* without a payload.
LEMMA LineForPayload ==
    ASSUME NEW S, NEW body, NEW written, NEW start, NEW items, NEW ending,
           Cut(body, S, written, start, items, ending), Whole(body, written, items, ending),
           NEW n \in 1 .. Len(items), Len(items[n].payload) = 0
    PROVE  start[n] + 4 < Len(body)
<1>1. SUFFICES ASSUME start[n] + 4 >= Len(body) PROVE FALSE
  BY CutTypes
<1> DEFINE first == start[Len(items) + 1]
<1>2. /\ Len(body) \in Nat /\ Len(items) \in Nat /\ Len(ending) \in Nat /\ first \in Nat
      /\ Len(written) = first + Len(ending)
  BY CutTypes
<1>3. /\ start[n] \in Nat /\ start[n + 1] = start[n] + 4 /\ start[n + 1] <= first
      /\ items[n].payload \in Seq(Symbol)
  BY CutTypes
<1>4. Len(body) = Len(written) /\ Terminated(items, ending)
  BY DEF Whole
<1>5. Len(ending) = 0 /\ start[n + 1] = first
  BY <1>1, <1>2, <1>3, <1>4, SMTT(30)
<1>6. n = Len(items)
  <2>1. SUFFICES ASSUME n # Len(items) PROVE FALSE
    OBVIOUS
  <2> DEFINE Room(m) == /\ start[m] \in Nat /\ Len(items[m].payload) \in Nat
                        /\ start[m + 1] = start[m] + 4 + Len(items[m].payload)
                        /\ start[m + 1] <= start[Len(items) + 1]
  <2>2. \A m \in 1 .. Len(items) : Room(m)
    BY CutTypes, SMTT(30)
  <2>3. n + 1 \in 1 .. Len(items)
    BY <1>2, <2>1
  <2>4. Room(n + 1)
    BY <2>2, <2>3
  <2>5. PICK a, b, l : /\ a = start[n + 1] /\ b = start[n + 1 + 1] /\ l = Len(items[n + 1].payload)
    OBVIOUS
  <2>6. /\ a \in Nat /\ l \in Nat /\ b = a + 4 + l /\ b <= first /\ a = first
    BY <1>5, <2>4, <2>5
  <2> QED BY <1>2, <2>6, SMTT(30)
<1>7. ending = <<>> /\ items[n].payload = <<>> /\ items # <<>>
  <2>1. ending \in Seq({NL})
    BY DEF Cut
  <2>2. ending = <<>>
    BY <1>5, <2>1, EmptySeq
  <2>3. items[n].payload = <<>>
    BY <1>3, EmptySeq
  <2>4. Len(items) # 0
    BY <1>2
  <2>5. items # <<>>
    BY <2>4, EmptySeq
  <2> QED BY <2>2, <2>3, <2>5
<1> QED BY <1>4, <1>6, <1>7 DEF Terminated, Last

\* The payload of an item is read whole or not at all, and reading goes on
\* with the next item.
LEMMA PayloadRead ==
    ASSUME NEW S, NEW body, NEW written, NEW start, NEW items, NEW ending,
           Cut(body, S, written, start, items, ending),
           NEW n \in 1 .. Len(items), start[n] + 4 <= Len(body),
           items[n].declared \/ (Whole(body, written, items, ending)
                                  /\ NL \notin ToSet(items[n].payload))
    PROVE  LET item == ReadItemPayload(body, start[n] + 4, Header(items[n]).length)
           IN  /\ Whole(body, written, items, ending) => item.ok
               /\ item.ok =>
                     /\ start[n + 1] <= Len(body)
                     /\ item.payload = items[n].payload
                     /\ item.next = IF start[n + 1] < Len(body) THEN start[n + 1] + 1
                                    ELSE start[n + 1]
<1> DEFINE at == start[n] + 4
           end == start[n + 1]
           p == Len(items[n].payload)
           length == Header(items[n]).length
           item == ReadItemPayload(body, at, length)
           complete == Whole(body, written, items, ending)
<1>1. /\ Len(body) \in Nat /\ Len(items) \in Nat /\ at \in Nat /\ end \in Nat /\ p \in Nat
      /\ end = at + p /\ at >= 6 /\ at + 1 = start[n] + 5 /\ n + 1 \in 1 .. Len(items) + 1
  <2> DEFINE b == start[n]
  <2>1. /\ Len(body) \in Nat /\ Len(items) \in Nat /\ b \in Nat /\ end \in Nat /\ p \in Nat
        /\ end = b + 4 + p /\ b >= 2
    BY CutTypes
  <2>2. at = b + 4 /\ at + 1 = b + 4 + 1
    OBVIOUS
  <2> HIDE DEF b, end, p, at
  <2>3. /\ at \in Nat /\ end = at + p /\ at >= 6 /\ at + 1 = b + 5 /\ n + 1 \in 1 .. Len(items) + 1
    BY <2>1, <2>2
  <2> QED BY <2>1, <2>3 DEF b
<1>2. complete => end <= Len(body)
  BY CutTypes DEF Whole
<1>3. length = IF items[n].declared THEN p ELSE 0
  BY DEF Header
<1>4. body \in Seq(S)
  BY DEF Cut
<1>5. end < Len(body) => body[end + 1] = NL
  BY <1>1, NewlineAfterItem, SMTT(30)
<1>6. end <= Len(body) => /\ SubSeq(body, at + 1, end) = items[n].payload
                          /\ \A i \in 1 .. p : body[at + i] = items[n].payload[i]
  <2> SUFFICES ASSUME end <= Len(body)
               PROVE  /\ SubSeq(body, at + 1, end) = items[n].payload
                      /\ \A i \in 1 .. p : body[at + i] = items[n].payload[i]
    OBVIOUS
  <2>1. /\ SubSeq(body, start[n] + 5, end) = items[n].payload
        /\ \A i \in 1 .. p : body[at + i] = items[n].payload[i]
    BY PayloadIs
  <2> QED BY <1>1, <2>1
<1>7. complete /\ p = 0 => at < Len(body)
  BY LineForPayload
<1>8. items[n].declared \/ (complete /\ NL \notin ToSet(items[n].payload))
  OBVIOUS
<1> HIDE DEF at, end, p, length, complete
<1>9. CASE length > 0
  <2>1. length = p /\ at + length = end
    BY <1>1, <1>3, <1>9
  <2>2. CASE end > Len(body)
    <3>1. ~item.ok
      BY <1>9, <2>1, <2>2 DEF ReadItemPayload
    <3> QED BY <1>1, <1>2, <2>2, <3>1, SMTT(30) DEF at, length, complete, end
  <2>3. CASE end <= Len(body)
    <3> DEFINE next == IF end < Len(body) /\ body[end + 1] = NL THEN end + 1 ELSE end
               r == [ok |-> TRUE, payload |-> SubSeq(body, at + 1, end), next |-> next]
    <3>1. item = r
      BY <1>1, <1>9, <2>1, <2>3 DEF ReadItemPayload
    <3>3. r.ok /\ r.payload = SubSeq(body, at + 1, end) /\ r.next = next
      OBVIOUS
    <3>4. next = IF end < Len(body) THEN end + 1 ELSE end
      BY <1>5
    <3> HIDE DEF item, r, next
    <3>2. /\ item.ok /\ item.payload = SubSeq(body, at + 1, end)
          /\ item.next = IF end < Len(body) THEN end + 1 ELSE end
      BY <3>1, <3>3, <3>4
    <3> QED BY <1>6, <2>3, <3>2 DEF at, length, complete, end, item
  <2> QED BY <1>1, <2>2, <2>3
<1>10. CASE ~(length > 0)
  <2>1. CASE at >= Len(body)
    <3>1. ~item.ok
      BY <1>10, <2>1 DEF ReadItemPayload
    <3>2. ~complete
      BY <1>1, <1>2, <1>7, <2>1
    <3> QED BY <3>1, <3>2 DEF at, length, complete
  <2>2. CASE at < Len(body)
    <3>1. end <= Len(body)
      BY <1>1, <1>2, <1>3, <1>8, <1>10, <2>2
    <3>2. ASSUME NEW m \in at .. end - 1 PROVE body[m + 1] # NL
      <4>1. p # 0 /\ ~items[n].declared
        BY <1>1, <1>3, <1>10, <3>2
      <4>2. NL \notin ToSet(items[n].payload)
        BY <1>8, <4>1
      <4> DEFINE i == m + 1 - at
      <4>3. i \in 1 .. p /\ at + i = m + 1
        BY <1>1
      <4>4. body[m + 1] = items[n].payload[i]
        BY <1>6, <3>1, <4>3
      <4>5. items[n].payload[i] \in ToSet(items[n].payload)
        <5>1. DOMAIN items[n].payload = 1 .. p
          BY CutTypes, LenProperties DEF p
        <5> QED BY <4>3, <5>1 DEF ToSet
      <4> QED BY <4>2, <4>4, <4>5
    <3>3. /\ at \in 0 .. Len(body) - 1 /\ end \in at .. Len(body)
          /\ end = Len(body) \/ body[end + 1] = NL
      BY <1>1, <1>5, <2>2, <3>1
    <3>4. ReadLine(body, at) = [line |-> SubSeq(body, at + 1, end),
                                next |-> IF end < Len(body) THEN end + 1 ELSE end]
      BY <1>4, <3>2, <3>3, LineUpTo
    <3> DEFINE read == ReadLine(body, at)
               r == [ok |-> TRUE, payload |-> read.line, next |-> read.next]
    <3>5. item = r
      BY <1>1, <1>10, <2>2 DEF ReadItemPayload
    <3>7. read.line = SubSeq(body, at + 1, end)
          /\ read.next = IF end < Len(body) THEN end + 1 ELSE end
      <4> DEFINE line == SubSeq(body, at + 1, end)
                 next == IF end < Len(body) THEN end + 1 ELSE end
      <4>1. read = [line |-> line, next |-> next]
        BY <3>4
      <4> HIDE DEF read, line, next
      <4>2. read.line = line /\ read.next = next
        BY <4>1
      <4> QED BY <4>2 DEF line, next
    <3> HIDE DEF read
    <3>8. r.ok /\ r.payload = read.line /\ r.next = read.next
      OBVIOUS
    <3> HIDE DEF item, r
    <3>6. /\ item.ok /\ item.payload = SubSeq(body, at + 1, end)
          /\ item.next = IF end < Len(body) THEN end + 1 ELSE end
      BY <3>5, <3>7, <3>8
    <3> QED BY <1>6, <3>1, <3>6 DEF at, length, complete, end, item
  <2> QED BY <1>1, <2>1, <2>2
<1> QED BY <1>9, <1>10

\* What the server is to make of an item.
Part(item) ==
    IF item.type = "" THEN <<>> ELSE <<[type |-> item.type, payload |-> item.payload]>>

\* What reading the item n, from the symbol behind its newline, comes to.
ItemReadAs(r, body, written, start, items, ending, n) ==
    \/ ~Whole(body, written, items, ending)
       /\ (r = Failed \/ r = [ok |-> TRUE, items |-> <<>>])
    \/ /\ start[n + 1] <= Len(body)
       /\ items[n].type = ""
       /\ r = ItemsFrom(body)[start[n + 1]]
    \/ /\ start[n + 1] <= Len(body)
       /\ items[n].type # ""
       /\ \E pos \in {start[n + 1], start[n + 1] + 1} :
             /\ pos <= Len(body)
             /\ r = IF ItemsFrom(body)[pos].ok
                    THEN [ok |-> TRUE, items |-> Part(items[n]) \o ItemsFrom(body)[pos].items]
                    ELSE Failed

\* At the end of a body there are no more items.
LEMMA NothingLeft ==
    ASSUME NEW S, NEW body \in Seq(S), \A i \in 2 .. Len(body) : body[i] \in Symbol,
           1 <= Len(body)
    PROVE  ItemsFrom(body)[Len(body)] = [ok |-> TRUE, items |-> <<>>]
<1>1. Len(body) \in 1 .. Len(body)
  BY LenProperties
<1>2. ItemsFrom(body)[Len(body)] = ItemsAt(body, ItemsFrom(body), Len(body))
  BY <1>1, ItemsFromSteps
<1> QED BY <1>2 DEF ItemsAt

\* The header of an item is read as it was written, or not decoded.
LEMMA HeaderRead ==
    ASSUME NEW S, NEW body, NEW written, NEW start, NEW items, NEW ending,
           Cut(body, S, written, start, items, ending),
           NEW n \in 1 .. Len(items), start[n] + 1 < Len(body)
    PROVE  LET read == ReadLine(body, start[n] + 1)
           IN  /\ read.line # <<>>
               /\ Decodes(read.line) <=> start[n] + 3 <= Len(body)
               /\ start[n] + 3 <= Len(body) =>
                     /\ read.line[1].value = Header(items[n])
                     /\ read.next = IF start[n] + 4 <= Len(body) THEN start[n] + 4
                                    ELSE Len(body)
<1> DEFINE b == start[n]
           pos == b + 1
           value == Header(items[n])
<1>1. b \in Nat /\ b >= 2 /\ Len(body) \in Nat /\ body \in Seq(S)
  BY CutTypes DEF Cut
<1>2. /\ written[b + 2] = JSON(value)[1] /\ written[b + 3] = JSON(value)[2]
      /\ written[b + 4] = NL /\ \A i \in 1 .. Len(body) : body[i] = written[i]
  BY DEF Cut, Layout
<1>3. pos < Len(body)
  OBVIOUS
<1> HIDE DEF b, value
<1>4. /\ pos \in 0 .. Len(body) - 1
      /\ pos + 1 = b + 2 /\ pos + 2 = b + 3 /\ pos + 3 = b + 4
      /\ b + 2 \in 1 .. Len(body)
      /\ b + 3 <= Len(body) => b + 3 \in 1 .. Len(body)
      /\ b + 4 <= Len(body) => b + 4 \in 1 .. Len(body)
  BY <1>1, <1>3
<1>5. /\ body[pos + 1] = JSON(value)[1]
      /\ pos + 2 <= Len(body) => body[pos + 2] = JSON(value)[2]
      /\ pos + 3 <= Len(body) => body[pos + 3] = NL
  BY <1>2, <1>4
<1> HIDE DEF pos
<1> DEFINE read == ReadLine(body, pos)
<1>6. /\ read.line # <<>>
      /\ Decodes(read.line) <=> pos + 2 <= Len(body)
      /\ pos + 2 <= Len(body) =>
            /\ read.line[1].value = value
            /\ read.next = IF pos + 3 <= Len(body) THEN pos + 3 ELSE Len(body)
  BY <1>1, <1>4, <1>5, JSONRead
<1> HIDE DEF read
<1>7. /\ read.line # <<>>
      /\ Decodes(read.line) <=> b + 3 <= Len(body)
      /\ b + 3 <= Len(body) =>
            /\ read.line[1].value = value
            /\ read.next = IF b + 4 <= Len(body) THEN b + 4 ELSE Len(body)
  BY <1>4, <1>6
<1> QED BY <1>7 DEF read, pos, b, value

\* What the sender of an item keeps to; and if the item declares no length,
\* that the envelope is whole.
Careful(item, whole) ==
    /\ item.type = "" => item.payload = <<>>
    /\ item.declared \/ (whole /\ NL \notin ToSet(item.payload))

\* An item is read as it was written, and reading goes on where the next one is.
LEMMA ItemRead ==
    ASSUME NEW S, NEW body, NEW written, NEW start, NEW items, NEW ending,
           Cut(body, S, written, start, items, ending),
           NEW n \in 1 .. Len(items), start[n] + 1 < Len(body),
           Careful(items[n], Whole(body, written, items, ending))
    PROVE  ItemReadAs(ItemsFrom(body)[start[n] + 1], body, written, start, items, ending, n)
<1> DEFINE b == start[n]
           end == start[n + 1]
           pos == b + 1
           whole == Whole(body, written, items, ending)
           f == ItemsFrom(body)
           read == ReadLine(body, pos)
           header == read.line[1].value
           item == ReadItemPayload(body, read.next, header.length)
           rest == f[item.next]
           length == Header(items[n]).length
<1>1. /\ b \in Nat /\ b >= 2 /\ end \in Nat /\ Len(body) \in Nat /\ body \in Seq(S)
      /\ end = b + 4 + Len(items[n].payload) /\ Len(items[n].payload) \in Nat
      /\ end <= Len(written)
  <2>1. body \in Seq(S)
    BY DEF Cut
  <2>2. /\ b \in Nat /\ b >= 2 /\ end \in Nat /\ Len(body) \in Nat
        /\ end = b + 4 + Len(items[n].payload) /\ Len(items[n].payload) \in Nat
        /\ end <= Len(written)
    BY CutTypes
  <2> QED BY <2>1, <2>2
<1>2. /\ read.line # <<>>
      /\ Decodes(read.line) <=> b + 3 <= Len(body)
      /\ b + 3 <= Len(body) =>
            /\ header = Header(items[n])
            /\ read.next = IF b + 4 <= Len(body) THEN b + 4 ELSE Len(body)
  BY HeaderRead
<1>3. whole => end <= Len(body)
  BY <1>1 DEF Whole
<1>4. Header(items[n]).type = items[n].type
  BY DEF Header
<1>5. \A i \in 2 .. Len(body) : body[i] \in Symbol
  BY DEF Cut
<1>6. f[pos] = IF read.line = <<>> THEN f[read.next]
               ELSE IF ~Decodes(read.line) THEN Failed
               ELSE IF header.type = "" THEN f[read.next]
               ELSE IF ~item.ok \/ ~rest.ok THEN Failed
               ELSE [ok |-> TRUE, items |->
                       <<[type |-> header.type, payload |-> item.payload]>> \o rest.items]
  <2>1. b + 1 < Len(body)
    OBVIOUS
  <2> HIDE DEF b
  <2>2. pos \in 1 .. Len(body) /\ pos # Len(body)
    BY <1>1, <2>1
  <2> HIDE DEF pos
  <2>3. f[pos] = ItemsAt(body, f, pos)
    BY <1>1, <1>5, <2>2, ItemsFromSteps
  <2> HIDE DEF f
  <2> QED BY <2>2, <2>3 DEF ItemsAt
<1>7. b + 1 < Len(body)
  OBVIOUS
<1>8. f[Len(body)] = [ok |-> TRUE, items |-> <<>>]
  <2> HIDE DEF b, f
  <2>1. 1 <= Len(body)
    BY <1>1, <1>7
  <2> QED BY <1>1, <1>5, <2>1, NothingLeft DEF f
<1>9. items[n].type = "" => Len(items[n].payload) = 0
  <2>1. Len(<<>>) = 0
    OBVIOUS
  <2> QED BY <2>1 DEF Careful
<1>10. b + 4 <= Len(body) =>
          LET i == ReadItemPayload(body, b + 4, length)
          IN  /\ whole => i.ok
              /\ i.ok =>
                    /\ end <= Len(body)
                    /\ i.payload = items[n].payload
                    /\ i.next = IF end < Len(body) THEN end + 1 ELSE end
  <2>1. items[n].declared \/ (whole /\ NL \notin ToSet(items[n].payload))
    BY DEF Careful
  <2> QED BY <2>1, PayloadRead
<1>11. Part(items[n]) = IF items[n].type = "" THEN <<>>
                        ELSE <<[type |-> items[n].type, payload |-> items[n].payload]>>
  BY DEF Part
<1> DEFINE p == Len(items[n].payload)
<1>16. b \in Nat /\ end \in Nat /\ p \in Nat /\ Len(body) \in Nat /\ end = b + 4 + p
  BY <1>1
<1> HIDE DEF b, end, whole, f, length, p
<1>12. CASE b + 3 > Len(body)
  <2>3. ~(b + 3 <= Len(body)) /\ ~(end <= Len(body))
    BY <1>12, <1>16
  <2>1. ~Decodes(read.line) /\ ~whole
    <3> HIDE DEF read
    <3> QED BY <1>2, <1>3, <2>3
  <2> HIDE DEF read
  <2>2. f[pos] = Failed
    BY <1>2, <1>6, <2>1
  <2> QED BY <2>1, <2>2 DEF ItemReadAs, whole, f, b, pos
<1>13. CASE b + 3 = Len(body)
  <2>1. Decodes(read.line) /\ header = Header(items[n]) /\ read.next = Len(body) /\ ~whole
    BY <1>1, <1>2, <1>3, <1>13, SMTT(30)
  <2>2. CASE items[n].type = ""
    <3>1. f[pos] = f[Len(body)]
      <4> HIDE DEF read
      <4> QED BY <1>2, <1>4, <1>6, <2>1, <2>2
    <3>2. f[pos] = [ok |-> TRUE, items |-> <<>>]
      BY <1>8, <3>1
    <3> QED BY <2>1, <3>2 DEF ItemReadAs, whole, f, b, pos
  <2>3. CASE items[n].type # ""
    <3>1. ~item.ok
      <4>1. length \in Int
        <5>1. length = IF items[n].declared THEN Len(items[n].payload) ELSE 0
          BY DEF length, Header
        <5> QED BY <1>1, <5>1
      <4>2. ~ReadItemPayload(body, Len(body), length).ok
        BY <1>1, <4>1 DEF ReadItemPayload
      <4>3. item = ReadItemPayload(body, Len(body), length)
        BY <2>1 DEF length
      <4> QED BY <4>2, <4>3
    <3>2. f[pos] = Failed
      <4> HIDE DEF read, item
      <4> QED BY <1>2, <1>4, <1>6, <2>1, <2>3, <3>1
    <3> QED BY <2>1, <3>2 DEF ItemReadAs, whole, f, b, pos
  <2> QED BY <2>2, <2>3
<1>14. CASE b + 4 <= Len(body)
  <2>1. Decodes(read.line) /\ header = Header(items[n]) /\ read.next = b + 4
    BY <1>1, <1>2, <1>14
  <2>2. CASE items[n].type = ""
    <3>1. end = b + 4
      <4>1. Len(items[n].payload) = 0
        BY <1>9, <2>2
      <4> QED BY <1>1, <4>1
    <3>2. f[pos] = f[end]
      <4> HIDE DEF read
      <4> QED BY <1>2, <1>4, <1>6, <2>1, <2>2, <3>1
    <3> QED BY <1>14, <2>2, <3>1, <3>2 DEF ItemReadAs, f, end, pos, b
  <2>3. CASE items[n].type # ""
    <3>1. item = ReadItemPayload(body, b + 4, length)
      BY <2>1 DEF length
    <3>2. /\ whole => item.ok
          /\ item.ok => /\ end <= Len(body)
                        /\ item.payload = items[n].payload
                        /\ item.next = IF end < Len(body) THEN end + 1 ELSE end
      BY <1>10, <1>14, <3>1
    <3> HIDE DEF item
    <3>3. f[pos] = IF ~item.ok \/ ~rest.ok THEN Failed
                   ELSE [ok |-> TRUE, items |->
                           <<[type |-> items[n].type, payload |-> item.payload]>> \o rest.items]
      <4> HIDE DEF read, item
      <4> QED BY <1>2, <1>4, <1>6, <2>1, <2>3
    <3>4. CASE ~item.ok
      <4>1. f[pos] = Failed /\ ~whole
        BY <3>2, <3>3, <3>4
      <4> QED BY <4>1 DEF ItemReadAs, whole, f, b, pos
    <3>5. CASE item.ok
      <4> DEFINE q == item.next
      <4>4. end <= Len(body) /\ q = IF end < Len(body) THEN end + 1 ELSE end
        BY <3>2, <3>5
      <4>1. q \in {end, end + 1} /\ q <= Len(body) /\ end <= Len(body)
        <5> HIDE DEF q
        <5> QED BY <1>16, <4>4
      <4>2. Part(items[n]) = <<[type |-> items[n].type, payload |-> item.payload]>>
        BY <1>11, <2>3, <3>2, <3>5
      <4>3. f[pos] = IF f[q].ok THEN [ok |-> TRUE, items |-> Part(items[n]) \o f[q].items]
                     ELSE Failed
        BY <3>3, <3>5, <4>2
      <4> HIDE DEF q
      <4> QED BY <2>3, <4>1, <4>3 DEF ItemReadAs, f, end, b, pos
    <3> QED BY <3>4, <3>5
  <2> QED BY <2>2, <2>3
<1>15. b + 3 > Len(body) \/ b + 3 = Len(body) \/ b + 4 <= Len(body)
  BY <1>1
<1> QED BY <1>12, <1>13, <1>14, <1>15

\* What the server makes of an item.
Out == [type : STRING, payload : Seq(Symbol)]

\* x begins y.
Begins(x, y) == Len(x) <= Len(y) /\ \A i \in 1 .. Len(x) : y[i] = x[i]

\* With done before it, r is what the server should make of all.
Arrives(r, done, all, whole) ==
    \/ ~whole /\ r = Failed
    \/ \E rest \in Seq(Out) :
          /\ r = [ok |-> TRUE, items |-> rest]
          /\ Begins(done \o rest, all)
          /\ whole => done \o rest = all

\* What Sent joins.
Parts(items) == [n \in DOMAIN items |-> Part(items[n])]

\* Sent, with the types of what it joins.
LEMMA PartTypes ==
    ASSUME NEW items \in Seq(Item)
    PROVE  /\ Parts(items) \in Seq(Seq(Out)) /\ Len(Parts(items)) = Len(items)
           /\ \A n \in 1 .. Len(items) : /\ Parts(items)[n] = Part(items[n])
                                         /\ Part(items[n]) \in Seq(Out)
           /\ Sent(items) = FlattenSeq(Parts(items))
<1>1. Len(items) \in Nat /\ DOMAIN items = 1 .. Len(items)
  BY LenProperties
<1>2. ASSUME NEW n \in 1 .. Len(items) PROVE Part(items[n]) \in Seq(Out)
  <2> DEFINE item == items[n]
             out == [type |-> item.type, payload |-> item.payload]
  <2>1. item \in Item
    BY ElementOfSeq
  <2> HIDE DEF item
  <2>2. out \in Out
    BY <2>1 DEF Item, Out
  <2> HIDE DEF out
  <2>3. <<out>> \in Seq(Out) /\ <<>> \in Seq(Out)
    BY <2>2
  <2>4. Part(item) \in Seq(Out)
    <3>1. Part(item) = <<>> \/ Part(item) = <<out>>
      BY DEF Part, out
    <3> QED BY <2>3, <3>1
  <2> QED BY <2>4 DEF item
<1>3. Parts(items) \in [1 .. Len(items) -> Seq(Out)]
  BY <1>1, <1>2 DEF Parts
<1>4. Parts(items) \in Seq(Seq(Out)) /\ Len(Parts(items)) = Len(items)
  BY <1>1, <1>3
<1>5. Sent(items) = FlattenSeq(Parts(items))
  BY DEF Sent, Parts, Part
<1> QED BY <1>1, <1>2, <1>4, <1>5 DEF Parts

\* An item before items that arrive.
LEMMA ArrivalStep ==
    ASSUME NEW done \in Seq(Out), NEW part \in Seq(Out), NEW all, NEW whole \in BOOLEAN,
           NEW r, NEW rest, Arrives(rest, done \o part, all, whole),
           r = IF rest.ok THEN [ok |-> TRUE, items |-> part \o rest.items] ELSE Failed
    PROVE  Arrives(r, done, all, whole)
<1>1. CASE ~whole /\ rest = Failed
  <2>1. ~rest.ok
    BY <1>1 DEF Failed
  <2> QED BY <1>1, <2>1 DEF Arrives
<1>2. ASSUME NEW x \in Seq(Out), rest = [ok |-> TRUE, items |-> x],
             Begins((done \o part) \o x, all), whole => (done \o part) \o x = all
      PROVE  Arrives(r, done, all, whole)
  <2>1. rest.ok /\ rest.items = x
    BY <1>2
  <2>2. r = [ok |-> TRUE, items |-> part \o x]
    BY <2>1
  <2>3. part \o x \in Seq(Out) /\ (done \o part) \o x = done \o (part \o x)
    OBVIOUS
  <2> DEFINE y == part \o x
  <2> HIDE DEF y
  <2>4. y \in Seq(Out) /\ r = [ok |-> TRUE, items |-> y]
        /\ Begins(done \o y, all) /\ (whole => done \o y = all)
    BY <1>2, <2>2, <2>3 DEF y
  <2> QED BY <2>4 DEF Arrives
<1> QED BY <1>1, <1>2 DEF Arrives

\* No more items, which is right at the end, or where the body is cut.
LEMMA NothingMore ==
    ASSUME NEW items \in Seq(Item), NEW h, JoinsUpTo(h, Parts(items), Out),
           NEW n \in 0 .. Len(items), NEW whole \in BOOLEAN, whole => n = Len(items)
    PROVE  Arrives([ok |-> TRUE, items |-> <<>>], h[n], h[Len(items)], whole)
<1>1. Parts(items) \in Seq(Seq(Out)) /\ Len(Parts(items)) = Len(items)
  BY PartTypes
<1>2. h[n] \in Seq(Out)
  BY <1>1 DEF JoinsUpTo
<1>3. Len(h[n]) <= Len(h[Len(items)]) /\ \A j \in 1 .. Len(h[n]) : h[Len(items)][j] = h[n][j]
  <2>1. n \in 0 .. Len(Parts(items))
    BY <1>1
  <2>2. /\ Len(h[n]) <= Len(h[Len(Parts(items))])
        /\ \A j \in 1 .. Len(h[n]) : h[Len(Parts(items))][j] = h[n][j]
    BY <1>1, <2>1, PrefixesGrow
  <2> QED BY <1>1, <2>2
<1> DEFINE x == <<>>
<1>4. x \in Seq(Out) /\ h[n] \o x = h[n]
  BY <1>2
<1>5. Begins(h[n], h[Len(items)])
  BY <1>3 DEF Begins
<1>6. whole => h[n] = h[Len(items)]
  OBVIOUS
<1>7. [ok |-> TRUE, items |-> <<>>] = [ok |-> TRUE, items |-> x]
  OBVIOUS
<1> HIDE DEF x
<1> QED BY <1>4, <1>5, <1>6, <1>7 DEF Arrives

\* Where reading stands when it comes to the item n.
Stands(body, start, n, pos) == pos \in {start[n], start[n] + 1} /\ pos <= Len(body)

\* From there on it finds what it should.
ReadsOn(body, start, h, n, k, whole) ==
    \A pos : Stands(body, start, n, pos) => Arrives(ItemsFrom(body)[pos], h[n - 1], h[k], whole)

\* From an item on, reading finds what it should, if it does from the next one on.
LEMMA ItemIsPassed ==
    ASSUME NEW S, NEW body, NEW written, NEW start, NEW items, NEW ending,
           Cut(body, S, written, start, items, ending),
           NEW h, JoinsUpTo(h, Parts(items), Out), NEW whole \in BOOLEAN,
           whole <=> Whole(body, written, items, ending),
           NEW n \in 1 .. Len(items), Careful(items[n], whole),
           ReadsOn(body, start, h, n + 1, Len(items), whole)
    PROVE  ReadsOn(body, start, h, n, Len(items), whole)
<1> DEFINE b == start[n]
           end == start[n + 1]
           k == Len(items)
           f == ItemsFrom(body)
           part == Part(items[n])
           l == Len(items[n].payload)
<1>1. /\ b \in Nat /\ end \in Nat /\ l \in Nat /\ Len(body) \in Nat /\ k \in Nat
      /\ b >= 2 /\ end = b + 4 + l
  BY CutTypes
<1>2. end <= Len(written) /\ (whole => Len(body) = Len(written))
  BY CutTypes DEF Whole
<1>3. items \in Seq(Item) /\ body \in Seq(S) /\ \A i \in 2 .. Len(body) : body[i] \in Symbol
  BY DEF Cut
<1>4. /\ h[n - 1] \in Seq(Out) /\ part \in Seq(Out) /\ h[n] = h[n - 1] \o part
  <2>1. Len(Parts(items)) = k /\ Parts(items)[n] = part /\ part \in Seq(Out)
    BY <1>3, PartTypes
  <2>2. n \in 1 .. Len(Parts(items)) /\ n - 1 \in 0 .. Len(Parts(items))
    BY <1>1, <2>1
  <2> QED BY <2>1, <2>2 DEF JoinsUpTo
<1>5. \A pos : Stands(body, start, n + 1, pos) => Arrives(f[pos], h[n], h[k], whole)
  <2>1. (n + 1) - 1 = n
    BY <1>1
  <2>2. \A pos : Stands(body, start, n + 1, pos) => Arrives(f[pos], h[(n + 1) - 1], h[k], whole)
    BY DEF ReadsOn
  <2> QED BY <2>1, <2>2
<1>6. end <= Len(body) => Stands(body, start, n + 1, end)
  BY DEF Stands
<1>7. Len(body) \in {b, b + 1} => f[Len(body)] = [ok |-> TRUE, items |-> <<>>]
  <2>1. Len(body) \in {b, b + 1} => 1 <= Len(body)
    BY <1>1
  <2> QED BY <1>3, <2>1, NothingLeft
<1>8. b < Len(body) => f[b] = f[b + 1]
  <2>1. ASSUME b < Len(body) PROVE f[b] = f[b + 1]
    <3>1. body[b + 1] = NL
      <4>1. n \in 1 .. Len(items) + 1
        BY <1>1
      <4> QED BY <2>1, <4>1, NewlineAfterItem
    <3>2. b \in 1 .. Len(body) - 1
      <4> HIDE DEF b
      <4> QED BY <1>1, <2>1
    <3> HIDE DEF b, f
    <3> QED BY <1>3, <3>1, <3>2, BlankLineSkipped DEF f
  <2> QED BY <2>1
<1>9. b + 1 < Len(body) => ItemReadAs(f[b + 1], body, written, start, items, ending, n)
  <2>1. Careful(items[n], Whole(body, written, items, ending))
    BY DEF Careful
  <2> QED BY <2>1, ItemRead
<1>11. ~whole => Arrives([ok |-> TRUE, items |-> <<>>], h[n - 1], h[k], whole)
  <2>1. n - 1 \in 0 .. Len(items)
    BY <1>1
  <2>2. ASSUME ~whole PROVE Arrives([ok |-> TRUE, items |-> <<>>], h[n - 1], h[k], whole)
    <3> DEFINE m == n - 1
    <3>1. m \in 0 .. Len(items)
      BY <2>1
    <3> HIDE DEF m
    <3>2. Arrives([ok |-> TRUE, items |-> <<>>], h[m], h[Len(items)], whole)
      BY <1>3, <2>2, <3>1, NothingMore
    <3> QED BY <3>2 DEF m
  <2> QED BY <2>2
<1>12. b + 1 < Len(body) => Arrives(f[b + 1], h[n - 1], h[k], whole)
  <2> SUFFICES ASSUME b + 1 < Len(body) PROVE Arrives(f[b + 1], h[n - 1], h[k], whole)
    OBVIOUS
  <2> DEFINE r == f[b + 1]
  <2>1. ItemReadAs(r, body, written, start, items, ending, n)
    BY <1>9
  <2>2. CASE ~whole /\ (r = Failed \/ r = [ok |-> TRUE, items |-> <<>>])
    BY <1>11, <2>2 DEF Arrives
  <2>3. CASE /\ end <= Len(body) /\ items[n].type = "" /\ r = f[end]
    <3>1. Arrives(r, h[n], h[k], whole)
      BY <1>5, <1>6, <2>3
    <3>2. part = <<>>
      BY <2>3 DEF Part
    <3>3. h[n] = h[n - 1]
      BY <1>4, <3>2
    <3> QED BY <3>1, <3>3
  <2>4. ASSUME NEW pos \in {end, end + 1}, pos <= Len(body),
               r = IF f[pos].ok THEN [ok |-> TRUE, items |-> part \o f[pos].items] ELSE Failed
        PROVE  Arrives(r, h[n - 1], h[k], whole)
    <3>1. Stands(body, start, n + 1, pos)
      BY <2>4 DEF Stands
    <3>2. Arrives(f[pos], h[n - 1] \o part, h[k], whole)
      BY <1>4, <1>5, <3>1
    <3> HIDE DEF r, f, part, end
    <3> QED BY <1>4, <2>4, <3>2, ArrivalStep
  <2> QED BY <2>1, <2>2, <2>3, <2>4 DEF ItemReadAs
<1>13. Len(body) \in {b, b + 1} => ~whole
  <2> DEFINE w == Len(written)
  <2>1. end <= w /\ (whole => Len(body) = w)
    BY <1>2
  <2> HIDE DEF b, end, l, w
  <2> QED BY <1>1, <2>1
<1> SUFFICES ASSUME NEW pos, Stands(body, start, n, pos)
             PROVE  Arrives(f[pos], h[n - 1], h[k], whole)
  BY DEF ReadsOn
<1>14. pos \in {b, b + 1} /\ pos <= Len(body)
  BY DEF Stands
<1>15. \/ pos = Len(body)
       \/ pos = b /\ b + 1 = Len(body)
       \/ b + 1 < Len(body)
  <2> HIDE DEF b
  <2> QED BY <1>1, <1>14
<1>16. CASE pos = Len(body) \/ (pos = b /\ b + 1 = Len(body))
  <2>1. Len(body) \in {b, b + 1}
    BY <1>14, <1>16
  <2>2. f[pos] = [ok |-> TRUE, items |-> <<>>]
    <3>1. b + 1 = Len(body) => b < Len(body)
      <4> HIDE DEF b
      <4> QED BY <1>1
    <3> QED BY <1>7, <1>8, <1>16, <2>1, <3>1
  <2> QED BY <1>11, <1>13, <2>1, <2>2
<1>17. CASE b + 1 < Len(body)
  <2>1. b < Len(body)
    <3> HIDE DEF b
    <3> QED BY <1>1, <1>17
  <2>2. f[pos] = f[b + 1]
    BY <1>8, <1>14, <2>1
  <2> QED BY <1>12, <1>17, <2>2
<1> QED BY <1>15, <1>16, <1>17

\* So it does from the first one on: an induction from the last one back.
LEMMA AllReadsOn ==
    ASSUME NEW S, NEW body, NEW written, NEW start, NEW items, NEW ending,
           Cut(body, S, written, start, items, ending),
           NEW h, JoinsUpTo(h, Parts(items), Out), NEW whole \in BOOLEAN,
           whole <=> Whole(body, written, items, ending),
           \A n \in 1 .. Len(items) : Careful(items[n], whole)
    PROVE  ReadsOn(body, start, h, 1, Len(items), whole)
<1> DEFINE k == Len(items)
           N == {d \in Nat : \A n \in 1 .. k + 1 : n + d = k + 1 =>
                                ReadsOn(body, start, h, n, k, whole)}
<1>1. k \in Nat /\ Len(body) \in Nat /\ start[k + 1] \in Nat /\ start[k + 1] >= 2
  BY CutTypes
<1>2. items \in Seq(Item)
  BY DEF Cut
<1>3. ReadsOn(body, start, h, k + 1, k, whole)
  <2> SUFFICES ASSUME NEW pos, Stands(body, start, k + 1, pos)
               PROVE  Arrives(ItemsFrom(body)[pos], h[(k + 1) - 1], h[k], whole)
    BY DEF ReadsOn
  <2> DEFINE first == start[k + 1]
  <2>1. pos \in {first, first + 1} /\ pos <= Len(body)
    BY DEF Stands
  <2>2. pos \in Nat /\ first <= pos
    <3>1. first \in Nat
      BY <1>1
    <3> HIDE DEF first
    <3> QED BY <2>1, <3>1
  <2>3. ItemsFrom(body)[pos] = [ok |-> TRUE, items |-> <<>>]
    BY <2>1, <2>2, AfterItems
  <2>4. Arrives([ok |-> TRUE, items |-> <<>>], h[k], h[k], whole)
    <3>1. k \in 0 .. Len(items)
      BY <1>1
    <3> QED BY <1>2, <3>1, NothingMore
  <2>5. (k + 1) - 1 = k
    BY <1>1
  <2> QED BY <2>3, <2>4, <2>5
<1>4. 0 \in N
  <2>1. \A n \in 1 .. k + 1 : n + 0 = k + 1 => n = k + 1
    BY <1>1
  <2> HIDE DEF k
  <2> QED BY <1>3, <2>1
<1>5. ASSUME NEW d \in Nat, d \in N PROVE d + 1 \in N
  <2>1. ASSUME NEW n \in 1 .. k + 1, n + (d + 1) = k + 1
        PROVE  ReadsOn(body, start, h, n, k, whole)
    <3>1. n \in 1 .. k /\ n + 1 \in 1 .. k + 1 /\ (n + 1) + d = k + 1
      BY <1>1, <2>1
    <3>2. ReadsOn(body, start, h, n + 1, k, whole)
      BY <1>5, <3>1
    <3> QED BY <3>1, <3>2, ItemIsPassed
  <2> HIDE DEF k
  <2> QED BY <2>1
<1> HIDE DEF N
<1>6. k \in N
  BY <1>1, <1>4, <1>5, NatSetInduction
<1>7. 1 \in 1 .. k + 1 /\ 1 + k = k + 1
  BY <1>1
<1> QED BY <1>6, <1>7 DEF N

\* What io.LimitReader leaves of it.
LEMMA BodyIsCut ==
    ASSUME NEW dsn, NEW items \in Seq(Item), NEW ending \in Seq({NL})
    PROVE  LET written == WriteEnvelope(dsn, items, ending)
               body == ReadRequestBody(written)
               S == Symbol \cup {JSON([dsn |-> dsn])[1]}
           IN  /\ \E start : Cut(body, S, written, start, items, ending)
               /\ 1 <= Len(body) => body[1] = JSON([dsn |-> dsn])[1]
               /\ 2 <= Len(body) => body[2] = JSON([dsn |-> dsn])[2]
               /\ Len(written) <= MaxBody => Len(body) = Len(written)
               /\ Len(written) >= 2
<1> DEFINE written == WriteEnvelope(dsn, items, ending)
           m == IF Len(written) < MaxBody THEN Len(written) ELSE MaxBody
           body == SubSeq(written, 1, m)
           S == Symbol \cup {JSON([dsn |-> dsn])[1]}
<1>1. /\ written \in Seq(S) /\ Len(written) >= 2
      /\ \A i \in 2 .. Len(written) : written[i] \in Symbol
      /\ written[1] = JSON([dsn |-> dsn])[1] /\ written[2] = JSON([dsn |-> dsn])[2]
  BY LaidOut
<1>2. PICK start : Layout(written, start, items, ending)
  BY LaidOut
<1>3. body = ReadRequestBody(written)
  BY DEF ReadRequestBody
<1> HIDE DEF written, S
<1>4. /\ Len(written) \in Nat /\ m \in Nat /\ m <= Len(written)
      /\ Len(written) <= MaxBody => m = Len(written)
  BY <1>1, LenProperties, BodyAssumption
<1>5. \A i \in 1 .. m : written[i] \in S
  BY <1>1, <1>4, ElementOfSeq
<1> HIDE DEF m
<1>6. /\ body \in Seq(S) /\ Len(body) = m /\ \A i \in 1 .. m : body[i] = written[i]
  <2>1. /\ SubSeq(written, 1, m) \in Seq(S)
        /\ Len(SubSeq(written, 1, m)) = IF 1 <= m THEN m - 1 + 1 ELSE 0
        /\ \A i \in 1 .. m - 1 + 1 : SubSeq(written, 1, m)[i] = written[1 + i - 1]
    BY <1>4, <1>5, SubSeqProperties
  <2>2. m - 1 + 1 = m /\ \A i \in 1 .. m : 1 + i - 1 = i
    BY <1>4
  <2>3. Len(body) = m
    BY <1>4, <2>1, <2>2
  <2>4. \A i \in 1 .. m : body[i] = written[i]
    BY <2>1, <2>2
  <2> QED BY <2>1, <2>3, <2>4
<1> HIDE DEF body
<1>7. \A i \in 2 .. Len(body) : body[i] \in Symbol
  BY <1>1, <1>4, <1>6
<1>8. Cut(body, S, written, start, items, ending)
  BY <1>2, <1>4, <1>6, <1>7 DEF Cut
<1>9. (1 <= Len(body) => body[1] = written[1]) /\ (2 <= Len(body) => body[2] = written[2])
  BY <1>4, <1>6
<1>10. /\ \E s : Cut(body, S, written, s, items, ending)
       /\ 1 <= Len(body) => body[1] = JSON([dsn |-> dsn])[1]
       /\ 2 <= Len(body) => body[2] = JSON([dsn |-> dsn])[2]
       /\ Len(written) <= MaxBody => Len(body) = Len(written)
       /\ Len(written) >= 2
  BY <1>1, <1>4, <1>6, <1>8, <1>9
<1> QED BY <1>3, <1>10 DEF written, S

\* The line of the envelope's header is passed, if enough of it is left.
LEMMA HeaderIsPassed ==
    ASSUME NEW S, NEW body, NEW written, NEW start, NEW items, NEW ending, NEW dsn,
           Cut(body, S, written, start, items, ending),
           1 <= Len(body) => body[1] = JSON([dsn |-> dsn])[1],
           2 <= Len(body) => body[2] = JSON([dsn |-> dsn])[2],
           Len(written) >= 2
    PROVE  \/ ParseEnvelope(body) = Failed /\ ~Whole(body, written, items, ending)
           \/ \E pos : Stands(body, start, 1, pos) /\ ParseEnvelope(body) = ItemsFrom(body)[pos]
<1> DEFINE value == [dsn |-> dsn]
           read == ReadLine(body, 0)
<1>1. body \in Seq(S) /\ Len(body) \in Nat /\ Len(items) \in Nat /\ start[1] = 2
  BY CutTypes DEF Cut, Layout
<1>2. CASE Len(body) = 0
  <2>1. body = <<>>
    BY <1>1, <1>2, EmptySeq
  <2>2. ~Whole(body, written, items, ending)
    BY <1>2 DEF Whole
  <2>3. ParseEnvelope(body) = Failed
    BY <2>1 DEF ParseEnvelope
  <2> QED BY <2>2, <2>3
<1>3. CASE Len(body) # 0
  <2>1. 0 \in 0 .. Len(body) - 1 /\ 1 <= Len(body) /\ body # <<>>
    <3>1. body # <<>>
      BY <1>1, <1>3, EmptySeq
    <3> QED BY <1>1, <1>3, <3>1
  <2>2. 3 <= Len(body) => body[3] = NL
    <3>1. 1 \in 1 .. Len(items) + 1
      BY <1>1
    <3>2. 3 <= Len(body) => start[1] < Len(body)
      BY <1>1
    <3>3. start[1] + 1 = 3
      BY <1>1
    <3> QED BY <3>1, <3>2, <3>3, NewlineAfterItem
  <2> HIDE DEF value
  <2>3. /\ body[0 + 1] = JSON(value)[1]
        /\ 0 + 2 <= Len(body) => body[0 + 2] = JSON(value)[2]
        /\ 0 + 3 <= Len(body) => body[0 + 3] = NL
    BY <2>1, <2>2 DEF value
  <2>4. /\ read.line # <<>>
        /\ Decodes(read.line) <=> 0 + 2 <= Len(body)
        /\ 0 + 2 <= Len(body) =>
              read.next = IF 0 + 3 <= Len(body) THEN 0 + 3 ELSE Len(body)
    BY <1>1, <2>1, <2>3, JSONRead
  <2>5. ParseEnvelope(body) = IF Decodes(read.line) THEN ItemsFrom(body)[read.next] ELSE Failed
    <3> HIDE DEF read
    <3> QED BY <2>1, <2>4 DEF ParseEnvelope, read
  <2> HIDE DEF read
  <2>6. CASE 2 <= Len(body)
    <3>1. Decodes(read.line) /\ read.next \in {2, 2 + 1} /\ read.next <= Len(body)
      BY <1>1, <2>4, <2>6
    <3>2. Stands(body, start, 1, read.next)
      BY <1>1, <3>1 DEF Stands
    <3> QED BY <2>5, <3>1, <3>2
  <2>7. CASE ~(2 <= Len(body))
    <3>1. ~Decodes(read.line)
      BY <2>4, <2>7
    <3>2. ~Whole(body, written, items, ending)
      BY <2>7 DEF Whole
    <3> QED BY <2>5, <3>1, <3>2
  <2> QED BY <2>6, <2>7
<1> QED BY <1>2, <1>3

\* Whatever its payloads contain, an envelope arrives whole, or without the
\* items from where the limit cuts it on.
THEOREM EnvelopeArrives ==
    ASSUME NEW dsn, NEW items \in Seq(Item), NEW ending \in Seq({NL}), Writable(items)
    PROVE  ArrivesWholeOrCut(dsn, items, ending)
<1> DEFINE written == WriteEnvelope(dsn, items, ending)
           body == ReadRequestBody(written)
           parsed == ParseEnvelope(body)
           S == Symbol \cup {JSON([dsn |-> dsn])[1]}
           whole == Whole(body, written, items, ending)
           k == Len(items)
           declared == \A n \in DOMAIN items : items[n].declared
<1>1. /\ \E start : Cut(body, S, written, start, items, ending)
      /\ 1 <= Len(body) => body[1] = JSON([dsn |-> dsn])[1]
      /\ 2 <= Len(body) => body[2] = JSON([dsn |-> dsn])[2]
      /\ Len(written) <= MaxBody => Len(body) = Len(written)
      /\ Len(written) >= 2
  BY BodyIsCut
<1>2. PICK start : Cut(body, S, written, start, items, ending)
  BY <1>1
<1>3. whole \in BOOLEAN /\ whole = Whole(body, written, items, ending)
      /\ parsed = ParseEnvelope(body)
  BY DEF Whole
<1>4. Len(written) <= MaxBody /\ Terminated(items, ending) => whole
  BY <1>1 DEF Whole
<1>5. /\ Parts(items) \in Seq(Seq(Out)) /\ Len(Parts(items)) = k
      /\ Sent(items) = FlattenSeq(Parts(items))
  BY PartTypes
<1>6. PICK h : JoinsUpTo(h, Parts(items), Out)
  BY <1>5, FlattenPrefixes
<1>7. h[0] = <<>> /\ h[k] = Sent(items) /\ Sent(items) \in Seq(Out)
  <2>1. k \in Nat
    BY LenProperties
  <2>2. k \in 0 .. Len(Parts(items))
    BY <1>5, <2>1
  <2>3. h[k] \in Seq(Out)
    BY <1>6, <2>2 DEF JoinsUpTo
  <2> QED BY <1>5, <1>6, <2>3 DEF JoinsUpTo
<1>8. DOMAIN items = 1 .. k
  BY LenProperties
<1>9. whole \/ declared => \A n \in 1 .. k : Careful(items[n], whole)
  BY <1>8 DEF Writable, Careful
<1> HIDE DEF written, body, parsed, whole, S
<1>10. whole \/ declared => Arrives(parsed, <<>>, Sent(items), whole)
  <2> SUFFICES ASSUME whole \/ declared
               PROVE  Arrives(parsed, <<>>, Sent(items), whole)
    OBVIOUS
  <2>1. ReadsOn(body, start, h, 1, k, whole)
    BY <1>2, <1>3, <1>6, <1>9, AllReadsOn
  <2>2. CASE parsed = Failed /\ ~whole
    BY <2>2 DEF Arrives
  <2>3. ASSUME NEW pos, Stands(body, start, 1, pos), parsed = ItemsFrom(body)[pos]
        PROVE  Arrives(parsed, <<>>, Sent(items), whole)
    <3>1. Arrives(ItemsFrom(body)[pos], h[1 - 1], h[k], whole)
      BY <2>1, <2>3 DEF ReadsOn
    <3>2. 1 - 1 = 0
      OBVIOUS
    <3> QED BY <1>7, <2>3, <3>1, <3>2
  <2> QED BY <1>1, <1>2, <1>3, <2>2, <2>3, HeaderIsPassed
<1>11. ASSUME whole PROVE parsed = [ok |-> TRUE, items |-> Sent(items)]
  <2>1. PICK rest \in Seq(Out) : /\ parsed = [ok |-> TRUE, items |-> rest]
                                 /\ <<>> \o rest = Sent(items)
    BY <1>10, <1>11 DEF Arrives
  <2>2. <<>> \o rest = rest
    OBVIOUS
  <2> QED BY <2>1, <2>2
<1>12. ASSUME parsed.ok, declared PROVE IsPrefix(parsed.items, Sent(items))
  <2>1. parsed # Failed
    BY <1>12 DEF Failed
  <2>2. PICK rest \in Seq(Out) : parsed = [ok |-> TRUE, items |-> rest]
                                 /\ Begins(<<>> \o rest, Sent(items))
    BY <1>10, <1>12, <2>1 DEF Arrives
  <2>3. <<>> \o rest = rest /\ parsed.items = rest
    BY <2>2
  <2>4. Begins(rest, Sent(items))
    BY <2>2, <2>3
  <2> DEFINE all == Sent(items)
             l == Len(rest)
  <2>5. all \in Seq(Out) /\ l \in Nat /\ Len(all) \in Nat /\ l <= Len(all)
        /\ \A i \in 1 .. l : all[i] = rest[i]
    BY <1>7, <2>4, LenProperties DEF Begins
  <2> HIDE DEF all
  <2>6. \A i \in 1 .. l : rest[i] \in Out /\ all[i] \in Out
    BY <2>5, ElementOfSeq
  <2> DEFINE x == SubSeq(rest, 1, l)
             y == SubSeq(all, 1, l)
  <2>7. /\ x \in Seq(Out) /\ Len(x) = IF 1 <= l THEN l - 1 + 1 ELSE 0
        /\ \A i \in 1 .. l - 1 + 1 : x[i] = rest[1 + i - 1]
    <3> HIDE DEF l
    <3> QED BY <2>5, <2>6, SubSeqProperties
  <2>8. /\ y \in Seq(Out) /\ Len(y) = IF 1 <= l THEN l - 1 + 1 ELSE 0
        /\ \A i \in 1 .. l - 1 + 1 : y[i] = all[1 + i - 1]
    <3> HIDE DEF l
    <3> QED BY <2>5, <2>6, SubSeqProperties
  <2>9. l - 1 + 1 = l /\ \A i \in 1 .. l : 1 + i - 1 = i
    BY <2>5
  <2> HIDE DEF x, y, l
  <2>10. Len(x) = l /\ Len(y) = l
    BY <2>5, <2>7, <2>8, <2>9
  <2>11. \A i \in 1 .. l : x[i] = y[i]
    BY <2>5, <2>7, <2>8, <2>9
  <2>12. x = y
    BY <2>7, <2>8, <2>10, <2>11, SeqEqual
  <2> QED BY <2>3, <2>5, <2>12 DEF IsPrefix, x, y, l, all
<1> QED BY <1>4, <1>11, <1>12 DEF ArrivesWholeOrCut, written, body, parsed
=============================================================================
