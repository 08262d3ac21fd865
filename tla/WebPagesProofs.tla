--------------------------- MODULE WebPagesProofs ---------------------------
(***************************************************************************)
(* WebPages, for any number of entries, any pages and keys: what sums and  *)
(* concatenations are, by induction over the entries; the invariant; and   *)
(* that the web server shows the pages as they were last restored.         *)
(***************************************************************************)
EXTENDS WebPages, Induction, SequenceTheorems

-----------------------------------------------------------------------------
(* Sums and Laid are recursive functions: a function with the recursion    *)
(* exists, by induction over its domain.                                   *)

LEMMA SumsExist ==
    ASSUME NEW f
    PROVE  \A m \in Nat : \E g : g = [i \in 0..m |-> IF i = 0 THEN 0 ELSE g[i - 1] + f[i]]
<1> DEFINE S == {m \in Nat : \E g : g = [i \in 0..m |-> IF i = 0 THEN 0 ELSE g[i - 1] + f[i]]}
<1>1. 0 \in S
  <2>1. [i \in 0..0 |-> 0] = [i \in 0..0 |-> IF i = 0 THEN 0 ELSE [j \in 0..0 |-> 0][i - 1] + f[i]]
    OBVIOUS
  <2> QED BY <2>1
<1>2. ASSUME NEW m \in Nat, m \in S
      PROVE  m + 1 \in S
  <2>1. PICK g : g = [i \in 0..m |-> IF i = 0 THEN 0 ELSE g[i - 1] + f[i]]
    BY <1>2
  <2> DEFINE h == [i \in 0..m + 1 |-> IF i = m + 1 THEN g[m] + f[m + 1] ELSE g[i]]
  <2>2. \A i \in 0..m + 1 : h[i] = IF i = 0 THEN 0 ELSE h[i - 1] + f[i]
    <3>1. \A i \in 0..m : g[i] = IF i = 0 THEN 0 ELSE g[i - 1] + f[i]
      BY <2>1
    <3>2. ASSUME NEW i \in 0..m
          PROVE  h[i] = g[i] /\ (i # 0 => h[i - 1] = g[i - 1])
      OBVIOUS
    <3>3. h[m + 1] = g[m] + f[m + 1] /\ h[m] = g[m] /\ (m + 1) - 1 = m /\ m + 1 # 0
      OBVIOUS
    <3> HIDE DEF h
    <3>4. ASSUME NEW i \in 0..m + 1
          PROVE  i = m + 1 \/ i \in 0..m
      OBVIOUS
    <3> QED BY <3>1, <3>2, <3>3, <3>4
  <2>3. h = [i \in 0..m + 1 |-> IF i = 0 THEN 0 ELSE h[i - 1] + f[i]]
    BY <2>2
  <2> HIDE DEF h
  <2>4. \E k : k = [i \in 0..m + 1 |-> IF i = 0 THEN 0 ELSE k[i - 1] + f[i]]
    BY <2>3
  <2> QED BY <2>4
<1> HIDE DEF S
<1>3. Nat \subseteq S
  BY <1>1, <1>2, Induct
<1> QED BY <1>3 DEF S

LEMMA SumsAre ==
    ASSUME NEW f
    PROVE  /\ Sums(f)[0] = 0
           /\ \A i \in Entries : Sums(f)[i] = Sums(f)[i - 1] + f[i]
<1>1. \E g : g = [i \in 0..N |-> IF i = 0 THEN 0 ELSE g[i - 1] + f[i]]
  BY SumsExist, WebAssumption
<1>2. Sums(f) = [i \in 0..N |-> IF i = 0 THEN 0 ELSE Sums(f)[i - 1] + f[i]]
  BY <1>1 DEF Sums
<1>3. \A i \in 0..N : Sums(f)[i] = IF i = 0 THEN 0 ELSE Sums(f)[i - 1] + f[i]
  BY <1>2
<1> QED BY <1>3, WebAssumption DEF Entries

LEMMA LaidExist ==
    ASSUME NEW p
    PROVE  \A m \in Nat : \E g : g = [i \in 0..m |-> IF i = 0 THEN << >> ELSE g[i - 1] \o p[i]]
<1> DEFINE empty == << >>
           After(x, i) == x \o p[i]
           S == {m \in Nat : \E g : g = [i \in 0..m |-> IF i = 0 THEN empty ELSE After(g[i - 1], i)]}
<1> HIDE DEF empty, After
<1>1. 0 \in S
  <2>1. [i \in 0..0 |-> empty]
          = [i \in 0..0 |-> IF i = 0 THEN empty ELSE After([j \in 0..0 |-> empty][i - 1], i)]
    OBVIOUS
  <2> QED BY <2>1
<1>2. ASSUME NEW m \in Nat, m \in S
      PROVE  m + 1 \in S
  <2>1. PICK g : g = [i \in 0..m |-> IF i = 0 THEN empty ELSE After(g[i - 1], i)]
    BY <1>2
  <2> DEFINE h == [i \in 0..m + 1 |-> IF i = m + 1 THEN After(g[m], m + 1) ELSE g[i]]
  <2>2. \A i \in 0..m + 1 : h[i] = IF i = 0 THEN empty ELSE After(h[i - 1], i)
    <3>1. \A i \in 0..m : g[i] = IF i = 0 THEN empty ELSE After(g[i - 1], i)
      BY <2>1
    <3>2. ASSUME NEW i \in 0..m
          PROVE  h[i] = g[i] /\ (i # 0 => h[i - 1] = g[i - 1])
      OBVIOUS
    <3>3. h[m + 1] = After(g[m], m + 1) /\ h[m] = g[m] /\ (m + 1) - 1 = m /\ m + 1 # 0
      OBVIOUS
    <3> HIDE DEF h
    <3>4. ASSUME NEW i \in 0..m + 1
          PROVE  i = m + 1 \/ i \in 0..m
      OBVIOUS
    <3> QED BY <3>1, <3>2, <3>3, <3>4
  <2>3. h = [i \in 0..m + 1 |-> IF i = 0 THEN empty ELSE After(h[i - 1], i)]
    BY <2>2
  <2> HIDE DEF h
  <2>4. \E k : k = [i \in 0..m + 1 |-> IF i = 0 THEN empty ELSE After(k[i - 1], i)]
    BY <2>3
  <2> QED BY <2>4
<1> HIDE DEF S
<1>3. Nat \subseteq S
  BY <1>1, <1>2, Induct
<1> QED BY <1>3 DEF S, After, empty

LEMMA LaidAre ==
    ASSUME NEW p
    PROVE  /\ Laid(p)[0] = << >>
           /\ \A i \in Entries : Laid(p)[i] = Laid(p)[i - 1] \o p[i]
<1>1. \E g : g = [i \in 0..N |-> IF i = 0 THEN << >> ELSE g[i - 1] \o p[i]]
  BY LaidExist, WebAssumption
<1>2. Laid(p) = [i \in 0..N |-> IF i = 0 THEN << >> ELSE Laid(p)[i - 1] \o p[i]]
  BY <1>1 DEF Laid
<1> DEFINE empty == << >>
           After(x, i) == x \o p[i]
           L == Laid(p)
<1>3. L = [i \in 0..N |-> IF i = 0 THEN empty ELSE After(L[i - 1], i)]
  BY <1>2
<1> HIDE DEF empty, After, L
<1>4. \A i \in 0..N : L[i] = IF i = 0 THEN empty ELSE After(L[i - 1], i)
  BY <1>3
<1>5. L[0] = empty /\ \A i \in Entries : L[i] = After(L[i - 1], i)
  BY <1>4, WebAssumption DEF Entries
<1> QED BY <1>5 DEF empty, After, L

(* What holds of no entry and goes over to the next one holds of them all. *)
LEMMA ByEntries ==
    ASSUME NEW S, 0 \in S, \A i \in Entries : i - 1 \in S => i \in S
    PROVE  0..N \subseteq S
<1> DEFINE T == {m \in Nat : m <= N => m \in S}
<1>1. 0 \in T
  OBVIOUS
<1>2. ASSUME NEW m \in Nat, m \in T
      PROVE  m + 1 \in T
  <2>1. CASE m + 1 <= N
    <3>1. m \in S /\ m + 1 \in Entries /\ (m + 1) - 1 = m
      BY <1>2, <2>1, WebAssumption DEF Entries
    <3> QED BY <3>1
  <2> QED BY <2>1
<1> HIDE DEF T
<1>3. Nat \subseteq T
  BY <1>1, <1>2, Induct
<1> QED BY <1>3, WebAssumption DEF T

-----------------------------------------------------------------------------
(* Sums.                                                                   *)

LEMMA SumsNat ==
    ASSUME NEW f \in [Entries -> Nat]
    PROVE  \A i \in 0..N : Sums(f)[i] \in Nat
<1> DEFINE S == {i \in 0..N : Sums(f)[i] \in Nat}
<1>1. 0 \in S
  BY SumsAre, WebAssumption
<1>2. ASSUME NEW i \in Entries, i - 1 \in S
      PROVE  i \in S
  <2>1. Sums(f)[i] = Sums(f)[i - 1] + f[i] /\ f[i] \in Nat
    BY SumsAre
  <2>2. Sums(f)[i - 1] \in Nat /\ i \in 0..N
    BY <1>2, WebAssumption DEF Entries
  <2> QED BY <2>1, <2>2
<1> HIDE DEF S
<1>3. 0..N \subseteq S
  BY <1>1, <1>2, ByEntries
<1> QED BY <1>3 DEF S

LEMMA SumsBound ==
    ASSUME NEW M \in Nat, NEW f \in [Entries -> 0..M]
    PROVE  \A i \in 0..N : Sums(f)[i] <= i * M
<1> DEFINE S == {i \in 0..N : Sums(f)[i] <= i * M}
<1>1. 0 \in S
  BY SumsAre, WebAssumption
<1>2. ASSUME NEW i \in Entries, i - 1 \in S
      PROVE  i \in S
  <2>1. i \in 0..N /\ i - 1 \in 0..N /\ f[i] \in 0..M
    BY WebAssumption DEF Entries
  <2>2. Sums(f)[i - 1] \in Nat
    BY <2>1, SumsNat
  <2>3. Sums(f)[i] = Sums(f)[i - 1] + f[i] /\ Sums(f)[i - 1] <= (i - 1) * M
    BY <1>2, SumsAre
  <2>4. (i - 1) * M + M = i * M
    BY <2>1
  <2>5. (i - 1) * M \in Int /\ i * M \in Int
    BY <2>1
  <2>6. Sums(f)[i] <= i * M
    BY <2>1, <2>2, <2>3, <2>4, <2>5
  <2> QED BY <2>1, <2>6
<1> HIDE DEF S
<1>3. 0..N \subseteq S
  BY <1>1, <1>2, ByEntries
<1> QED BY <1>3 DEF S

LEMMA SumsGrow ==
    ASSUME NEW f \in [Entries -> Nat], NEW i \in 0..N
    PROVE  \A j \in i..N : Sums(f)[i] <= Sums(f)[j]
<1> DEFINE S == {j \in 0..N : i <= j => Sums(f)[i] <= Sums(f)[j]}
<1>1. 0 \in S
  BY SumsNat, WebAssumption
<1>2. ASSUME NEW j \in Entries, j - 1 \in S
      PROVE  j \in S
  <2>1. j \in 0..N /\ j - 1 \in 0..N
    BY WebAssumption DEF Entries
  <2>2. Sums(f)[j] = Sums(f)[j - 1] + f[j] /\ f[j] \in Nat
    BY SumsAre
  <2>3. Sums(f)[i] \in Nat /\ Sums(f)[j - 1] \in Nat
    BY <2>1, SumsNat
  <2> QED BY <1>2, <2>1, <2>2, <2>3
<1> HIDE DEF S
<1>3. 0..N \subseteq S
  BY <1>1, <1>2, ByEntries
<1> QED BY <1>3, WebAssumption DEF S

LEMMA SumsAgree ==
    ASSUME NEW f, NEW g, NEW m \in 0..N, \A j \in 1..m : f[j] = g[j]
    PROVE  \A i \in 0..m : Sums(f)[i] = Sums(g)[i]
<1> DEFINE S == {i \in 0..N : i <= m => Sums(f)[i] = Sums(g)[i]}
<1>1. 0 \in S
  BY SumsAre, WebAssumption
<1>2. ASSUME NEW i \in Entries, i - 1 \in S
      PROVE  i \in S
  <2>1. i \in 0..N /\ i - 1 \in 0..N
    BY WebAssumption DEF Entries
  <2>2. Sums(f)[i] = Sums(f)[i - 1] + f[i] /\ Sums(g)[i] = Sums(g)[i - 1] + g[i]
    BY SumsAre
  <2>3. i <= m => i \in 1..m
    BY WebAssumption DEF Entries
  <2>4. i <= m => i - 1 <= m
    BY <2>1, WebAssumption
  <2> QED BY <1>2, <2>1, <2>2, <2>3, <2>4
<1> HIDE DEF S
<1>3. 0..N \subseteq S
  BY <1>1, <1>2, ByEntries
<1> QED BY <1>3, WebAssumption DEF S

(* With the key added to every size, i keys are added to the sum of i.     *)
LEMMA SumsShift ==
    ASSUME NEW f \in [Entries -> Nat], NEW c \in Nat
    PROVE  \A i \in 0..N : Sums([j \in Entries |-> f[j] + c])[i] = Sums(f)[i] + i * c
<1> DEFINE g == [j \in Entries |-> f[j] + c]
           S == {i \in 0..N : Sums(g)[i] = Sums(f)[i] + i * c}
<1>1. 0 \in S
  BY SumsAre, WebAssumption
<1>2. ASSUME NEW i \in Entries, i - 1 \in S
      PROVE  i \in S
  <2>1. i \in 0..N /\ i - 1 \in 0..N /\ f[i] \in Nat /\ g[i] = f[i] + c
    BY WebAssumption DEF Entries
  <2>2. Sums(f)[i - 1] \in Nat
    BY <2>1, SumsNat
  <2> HIDE DEF g
  <2>3. Sums(g)[i] = Sums(g)[i - 1] + g[i] /\ Sums(f)[i] = Sums(f)[i - 1] + f[i]
    BY SumsAre
  <2>4. (i - 1) * c + c = i * c /\ (i - 1) * c \in Int /\ i * c \in Int
    BY <2>1
  <2>5. Sums(g)[i - 1] = Sums(f)[i - 1] + (i - 1) * c
    BY <1>2
  <2>6. Sums(g)[i] = Sums(f)[i] + i * c
    BY <2>1, <2>2, <2>3, <2>4, <2>5
  <2> QED BY <2>1, <2>6
<1> HIDE DEF S
<1>3. 0..N \subseteq S
  BY <1>1, <1>2, ByEntries
<1> QED BY <1>3 DEF S

-----------------------------------------------------------------------------
(* Pages, one after the other.                                             *)

LEMMA LengthsType ==
    ASSUME NEW pages \in [Entries -> Pages]
    PROVE  /\ Lengths(pages) \in [Entries -> 0..MaxPage]
           /\ Lengths(pages) \in [Entries -> Nat]
<1>1. ASSUME NEW i \in Entries
      PROVE  Len(pages[i]) \in 0..MaxPage
  BY WebAssumption DEF Pages
<1> QED BY <1>1, WebAssumption DEF Lengths

(* An offset fits its field: it addresses what the flash holds.            *)
LEMMA OffsetsFit ==
    ASSUME NEW pages \in [Entries -> Pages]
    PROVE  \A i \in 0..N : Sums(Lengths(pages))[i] \in 0..(W - 1)
<1>1. TAKE i \in 0..N
<1>2. Sums(Lengths(pages))[i] \in Nat /\ Sums(Lengths(pages))[i] <= i * MaxPage
  BY LengthsType, SumsNat, SumsBound, WebAssumption
<1>3. i * MaxPage <= N * MaxPage /\ i * MaxPage \in Int /\ N * MaxPage \in Int
  BY WebAssumption
<1> QED BY <1>2, <1>3, WebAssumption

LEMMA LaidLength ==
    ASSUME NEW pages \in [Entries -> Pages]
    PROVE  \A i \in 0..N : /\ Laid(pages)[i] \in Seq(Bytes)
                          /\ Len(Laid(pages)[i]) = Sums(Lengths(pages))[i]
<1> DEFINE L == Laid(pages)
           T == Sums(Lengths(pages))
           S == {i \in 0..N : L[i] \in Seq(Bytes) /\ Len(L[i]) = T[i]}
<1>1. 0 \in S
  <2>1. L[0] = << >> /\ T[0] = 0
    BY LaidAre, SumsAre
  <2> HIDE DEF L, T
  <2>2. << >> \in Seq(Bytes) /\ Len(<< >>) = 0 /\ 0 \in 0..N
    BY EmptySeq, WebAssumption
  <2>3. L[0] \in Seq(Bytes) /\ Len(L[0]) = T[0]
    BY <2>1, <2>2
  <2> QED BY <2>2, <2>3
<1>2. ASSUME NEW i \in Entries, i - 1 \in S
      PROVE  i \in S
  <2>1. L[i] = L[i - 1] \o pages[i] /\ T[i] = T[i - 1] + Lengths(pages)[i]
    BY LaidAre, SumsAre
  <2>2. Lengths(pages)[i] = Len(pages[i]) /\ pages[i] \in Seq(Bytes)
    BY DEF Lengths, Pages
  <2>3. i \in 0..N /\ L[i - 1] \in Seq(Bytes) /\ Len(L[i - 1]) = T[i - 1]
    BY <1>2, WebAssumption DEF Entries
  <2> HIDE DEF L, T
  <2> DEFINE before == L[i - 1]
             page   == pages[i]
  <2>4. before \in Seq(Bytes) /\ page \in Seq(Bytes)
    BY <2>2, <2>3
  <2> HIDE DEF before, page
  <2>5. before \o page \in Seq(Bytes) /\ Len(before \o page) = Len(before) + Len(page)
    BY <2>4
  <2>6. L[i] \in Seq(Bytes) /\ Len(L[i]) = T[i]
    BY <2>1, <2>2, <2>3, <2>5 DEF before, page
  <2> QED BY <2>3, <2>6
<1> HIDE DEF S
<1>3. 0..N \subseteq S
  BY <1>1, <1>2, ByEntries
<1> QED BY <1>3 DEF S

(* A page lies where the sum of the lengths before it says, whatever       *)
(* follows it.                                                             *)
LEMMA PageInLaid ==
    ASSUME NEW pages \in [Entries -> Pages], NEW i \in Entries
    PROVE  \A m \in i..N : \A k \in 1..Len(pages[i]) :
              Laid(pages)[m][Sums(Lengths(pages))[i - 1] + k] = pages[i][k]
<1> DEFINE L == Laid(pages)
           T == Sums(Lengths(pages))
           S == {m \in 0..N : i <= m => \A k \in 1..Len(pages[i]) : L[m][T[i - 1] + k] = pages[i][k]}
<1>1. i \in 0..N /\ i - 1 \in 0..N /\ i \in Nat /\ i >= 1
  BY WebAssumption DEF Entries
<1>2. 0 \in S
  BY <1>1, WebAssumption
<1>3. ASSUME NEW m \in Entries, m - 1 \in S
      PROVE  m \in S
  <2>1. m \in 0..N /\ m - 1 \in 0..N
    BY WebAssumption DEF Entries
  <2>2. L[m] = L[m - 1] \o pages[m] /\ pages[m] \in Seq(Bytes) /\ pages[i] \in Seq(Bytes)
    BY LaidAre DEF Pages
  <2>3. /\ L[m - 1] \in Seq(Bytes) /\ Len(L[m - 1]) = T[m - 1] /\ T[m - 1] \in Nat
        /\ T[i - 1] \in Nat /\ T[i] \in Nat
    BY <1>1, <2>1, LaidLength, LengthsType, SumsNat
  <2>4. T[i] = T[i - 1] + Len(pages[i])
    BY SumsAre DEF Lengths
  <2>5. i <= m - 1 => T[i] <= T[m - 1]
    BY <1>1, <2>1, LengthsType, SumsGrow
  <2> HIDE DEF L, T
  <2>6. ASSUME i <= m, NEW k \in 1..Len(pages[i])
        PROVE  L[m][T[i - 1] + k] = pages[i][k]
    <3>1. CASE i = m
      BY <2>2, <2>3, <3>1
    <3>2. CASE i <= m - 1
      <4>1. L[m - 1][T[i - 1] + k] = pages[i][k]
        BY <1>3, <3>2
      <4>2. T[i - 1] + k \in 1..Len(L[m - 1])
        BY <2>2, <2>3, <2>4, <2>5, <3>2
      <4> QED BY <2>2, <2>3, <4>1, <4>2
    <3> QED BY <1>1, <2>1, <2>6, <3>1, <3>2
  <2> QED BY <2>1, <2>6
<1> HIDE DEF S
<1>4. 0..N \subseteq S
  BY <1>2, <1>3, ByEntries
<1> QED BY <1>1, <1>4, WebAssumption DEF S

LEMMA PaddedType ==
    ASSUME NEW s \in Seq(Bytes), NEW length
    PROVE  /\ Padded(s, length) \in Seq(Bytes)
           /\ Len(s) <= Len(Padded(s, length))
           /\ \A k \in 1..Len(s) : Padded(s, length)[k] = s[k]
BY WebAssumption DEF Padded

(* A page can be read back from www, padded or not.                        *)
LEMMA PageInWww ==
    ASSUME NEW pages \in [Entries -> Pages], NEW i \in Entries, NEW length
    PROVE  LET T == Sums(Lengths(pages))
               w == Padded(Concat(pages), length)
           IN  /\ T[i - 1] \in 0..(W - 1) /\ T[i - 1] + Len(pages[i]) <= Len(w)
               /\ T[i - 1] + Len(pages[i]) < W
               /\ SubSeq(w, T[i - 1] + 1, T[i - 1] + Len(pages[i])) = pages[i]
<1> DEFINE T == Sums(Lengths(pages))
           c == Concat(pages)
           w == Padded(c, length)
<1>1. i \in 0..N /\ i - 1 \in 0..N /\ N \in i..N /\ N \in 0..N
  BY WebAssumption DEF Entries
<1>2. c \in Seq(Bytes) /\ Len(c) = T[N] /\ pages[i] \in Seq(Bytes)
  BY <1>1, LaidLength DEF Concat, Pages
<1>3. /\ T[i - 1] \in 0..(W - 1) /\ T[i] \in 0..(W - 1) /\ T[N] \in 0..(W - 1)
      /\ T[i] = T[i - 1] + Len(pages[i])
      /\ T[i] <= T[N]
  <2>1. T[i - 1] \in 0..(W - 1) /\ T[i] \in 0..(W - 1) /\ T[N] \in 0..(W - 1)
    BY <1>1, OffsetsFit
  <2>2. T[i] = T[i - 1] + Len(pages[i])
    BY SumsAre DEF Lengths
  <2>3. T[i] <= T[N]
    BY <1>1, LengthsType, SumsGrow
  <2> QED BY <2>1, <2>2, <2>3
<1>4. \A k \in 1..Len(pages[i]) : c[T[i - 1] + k] = pages[i][k]
  BY <1>1, PageInLaid DEF Concat
<1>5. w \in Seq(Bytes) /\ Len(c) <= Len(w) /\ \A k \in 1..Len(c) : w[k] = c[k]
  BY <1>2, PaddedType
<1> HIDE DEF T, c, w
<1> DEFINE a == T[i - 1]
           p == pages[i]
<1>6. /\ a \in Nat /\ p \in Seq(Bytes) /\ w \in Seq(Bytes) /\ Len(c) \in Nat
      /\ a + Len(p) <= Len(c) /\ Len(c) <= Len(w)
      /\ \A k \in 1..Len(p) : a + k \in 1..Len(c)
  BY <1>2, <1>3, <1>5
<1>7. \A k \in 1..Len(p) : w[a + k] = p[k]
  BY <1>4, <1>5, <1>6
<1> HIDE DEF a, p
<1>8. SubSeq(w, a + 1, a + Len(p)) = p
  <2> DEFINE q == SubSeq(w, a + 1, a + Len(p))
  <2>1. q \in Seq(Bytes) /\ Len(q) = Len(p) /\ \A k \in 1..Len(p) : q[k] = w[a + k]
    BY <1>6
  <2> HIDE DEF q
  <2>2. q = p
    BY <1>6, <1>7, <2>1, SeqEqual
  <2> QED BY <2>2 DEF q
<1> QED BY <1>3, <1>5, <1>6, <1>8, WebAssumption DEF T, c, w, a, p

-----------------------------------------------------------------------------
(* Sizes and offsets modulo W.                                             *)

LEMMA ModRange ==
    ASSUME NEW x \in Int
    PROVE  x % W \in 0..(W - 1)
BY WebAssumption

LEMMA ModSame ==
    ASSUME NEW x \in 0..(W - 1)
    PROVE  x % W = x
BY WebAssumption

(* The key that was added modulo W is taken off modulo W.                  *)
LEMMA ModBack ==
    ASSUME NEW x \in 0..(W - 1), NEW k \in 0..(W - 1)
    PROVE  (((x + k) % W) - k) % W = x
<1>1. CASE x + k < W
  <2>1. (x + k) % W = x + k
    BY <1>1, ModSame, WebAssumption
  <2>2. (x + k) - k = x
    OBVIOUS
  <2> QED BY <2>1, <2>2, ModSame
<1>2. CASE x + k >= W
  <2>1. (x + k) % W = x + k - W
    BY <1>2, WebAssumption
  <2>2. (x + k - W) - k = x - W
    BY WebAssumption
  <2>3. (x - W) % W = x
    BY WebAssumption
  <2> QED BY <2>1, <2>2, <2>3
<1> QED BY <1>1, <1>2, WebAssumption

-----------------------------------------------------------------------------
(* What the program reads is of its kind.                                  *)

LEMMA IndexType ==
    ASSUME TypeOK, NEW i \in Entries
    PROVE  /\ index[i] \in [size : 0..(W - 1), offset : 0..(W - 1)]
           /\ index[i].size \in 0..(W - 1) /\ index[i].offset \in 0..(W - 1)
           /\ hdata[i] \in [size : 0..(W - 1), offset : 0..(W - 1)]
BY DEF TypeOK

LEMMA ContentType ==
    ASSUME TypeOK
    PROVE  /\ \A i \in Entries : Content(i) \in Pages
           /\ Restored \in [Entries -> Pages] /\ Kept \in [Entries -> Pages]
           /\ wanted \in [Entries -> Pages]
<1>1. << >> \in Pages
  BY EmptySeq, WebAssumption DEF Pages
<1>2. ASSUME NEW i \in Entries
      PROVE  Content(i) \in Pages
  BY <1>1 DEF Content, TypeOK
<1> QED BY <1>1, <1>2 DEF Restored, Kept, TypeOK

LEMMA EntryType ==
    ASSUME TypeOK, NEW i \in Entries, NEW k \in Int
    PROVE  SizeOf(i, k) \in 0..(W - 1) /\ OffsetOf(i, k) \in 0..(W - 1)
<1>1. ASSUME NEW j \in Entries
      PROVE  SizeOf(j, k) \in 0..(W - 1)
  <2>1. index[j].size \in 0..(W - 1)
    BY IndexType
  <2>2. index[j].size - k \in Int
    BY <2>1, WebAssumption
  <2>3. (index[j].size - k) % W \in 0..(W - 1)
    BY <2>2, ModRange
  <2> QED BY <2>1, <2>3 DEF SizeOf
<1> DEFINE f == [j \in Entries |-> SizeOf(j, k)]
<1>2. f \in [Entries -> Nat]
  BY <1>1, WebAssumption
<1> HIDE DEF f
<1>3. i - 1 \in 0..N
  BY WebAssumption DEF Entries
<1>4. Sums(f)[i - 1] % W \in 0..(W - 1)
  BY <1>2, <1>3, SumsNat, ModRange
<1>5. OffsetOf(i, k) = IF new THEN Sums(f)[i - 1] % W ELSE index[i].offset
  BY DEF OffsetOf, f
<1> QED BY <1>1, <1>4, <1>5, IndexType

LEMMA PageAtType ==
    ASSUME TypeOK, NEW i \in Entries, NEW k \in Int
    PROVE  PageAt(i, k) \in Seq(Bytes)
<1> DEFINE a == OffsetOf(i, k)
           b == EndOf(i, k)
<1>1. www \in Seq(Bytes) /\ a \in Nat /\ b \in Nat /\ b <= Len(www)
  <2>1. a \in Nat /\ SizeOf(i, k) \in Nat
    BY EntryType, WebAssumption
  <2>2. www \in Seq(Bytes) /\ Len(www) \in Nat
    BY DEF TypeOK
  <2>3. b = IF a + SizeOf(i, k) <= Len(www) THEN a + SizeOf(i, k) ELSE Len(www)
    BY DEF EndOf
  <2> HIDE DEF a, b
  <2> QED BY <2>1, <2>2, <2>3
<1> HIDE DEF a, b
<1>2. ASSUME NEW j \in (a + 1)..b
      PROVE  www[j] \in Bytes
  BY <1>1
<1>3. SubSeq(www, a + 1, b) \in Seq(Bytes)
  BY <1>1, <1>2
<1> QED BY <1>3 DEF PageAt, a, b

LEMMA SurplusType ==
    ASSUME TypeOK
    PROVE  Surplus \in Int
<1> DEFINE f == [j \in Entries |-> index[j].size]
           x == Sums(f)[N]
<1>1. f \in [Entries -> Nat]
  BY IndexType, WebAssumption
<1> HIDE DEF f
<1>2. x \in Nat
  BY <1>1, SumsNat, WebAssumption
<1> HIDE DEF x
<1>3. Signed(x) \in Int
  BY <1>2, ModRange, WebAssumption DEF Signed
<1>4. Len(www) \in Nat
  BY DEF TypeOK
<1> QED BY <1>3, <1>4 DEF Surplus, f, x

LEMMA KeyType ==
    ASSUME TypeOK
    PROVE  DetectKey \in 0..(W - 1)
<1> DEFINE b == W * W
           x == Surplus % b
           y == x \div N
<1>1. b \in Nat \ {0}
  BY WebAssumption
<1> HIDE DEF b
<1>2. x \in Int
  BY <1>1, SurplusType
<1> HIDE DEF x
<1>3. y \in Int
  BY <1>2, WebAssumption
<1> HIDE DEF y
<1>4. y % W \in 0..(W - 1) /\ 0 \in 0..(W - 1)
  BY <1>3, ModRange, WebAssumption
<1> QED BY <1>4 DEF DetectKey, b, x, y

-----------------------------------------------------------------------------
(* Type correctness.                                                       *)

LEMMA PaddedWww ==
    ASSUME NEW pages \in [Entries -> Pages]
    PROVE  Padded(Concat(pages), Len(Concat(pages))) \in Seq(Bytes)
<1>1. N \in 0..N
  BY WebAssumption
<1>2. Concat(pages) \in Seq(Bytes)
  BY <1>1, LaidLength DEF Concat
<1> QED BY <1>2, PaddedType

LEMMA TypeInit ==
    ASSUME Init
    PROVE  TypeOK
<1> USE WebAssumption
<1>1. wanted \in [Entries -> Pages] /\ KEY \in 0..(W - 1)
  BY DEF Init
<1>2. index \in [Entries -> [size : 0..(W - 1), offset : 0..(W - 1)]]
  <2>1. ASSUME NEW i \in Entries
        PROVE  VendorIndex(wanted)[i] \in [size : 0..(W - 1), offset : 0..(W - 1)]
    <3> DEFINE a == (Len(wanted[i]) + (IF new THEN KEY ELSE 0)) % W
               b == IF new THEN 0 ELSE Sums(Lengths(wanted))[i - 1]
    <3>1. Len(wanted[i]) \in Nat
      BY <1>1, LengthsType DEF Lengths
    <3>2. a \in 0..(W - 1)
      <4> DEFINE x == Len(wanted[i]) + (IF new THEN KEY ELSE 0)
      <4>1. x \in Int
        BY <1>1, <3>1
      <4> HIDE DEF x
      <4>2. x % W \in 0..(W - 1)
        BY <4>1, ModRange
      <4> QED BY <4>2 DEF x
    <3>3. i - 1 \in 0..N
      BY DEF Entries
    <3>4. b \in 0..(W - 1)
      BY <1>1, <3>3, OffsetsFit
    <3>5. VendorIndex(wanted)[i] = [size |-> a, offset |-> b]
      BY DEF VendorIndex
    <3> HIDE DEF a, b
    <3> QED BY <3>2, <3>4, <3>5
  <2> QED BY <2>1 DEF Init, VendorIndex
<1>3. www \in Seq(Bytes)
  BY <1>1, PaddedWww DEF Init
<1>4. dir \in [Entries -> Pages \cup {Missing}]
  BY DEF Init
<1>5. unsafe \subseteq Entries /\ n \in 1..(N + 1) /\ total \in 0..(W - 1) /\ key \in 0..(W - 1)
  BY DEF Init, Entries
<1> QED BY <1>1, <1>2, <1>3, <1>4, <1>5 DEF Init, TypeOK

(* A step of a restore: what goes to www, to the index and to total.       *)
LEMMA EntryStepType ==
    ASSUME TypeOK, RestoreInv, RestoreEntry
    PROVE  /\ www' \in Seq(Bytes) /\ total' \in 0..(W - 1) /\ failed' \in BOOLEAN
           /\ hdata' \in [Entries -> [size : 0..(W - 1), offset : 0..(W - 1)]]
<1>1. n \in Entries /\ n - 1 \in 0..N /\ n \in 0..N
  BY WebAssumption DEF RestoreEntry, TypeOK, Entries
<1>2. CASE n \in unsafe
  BY <1>2 DEF RestoreEntry, TypeOK
<1>3. CASE n \notin unsafe
  <2>1. Content(n) \in Seq(Bytes) /\ Len(Content(n)) \in 0..MaxPage
    BY <1>1, ContentType, WebAssumption DEF Pages
  <2>2. NewEntry(n) \in [size : 0..(W - 1), offset : 0..(W - 1)]
    <3> DEFINE x == Len(Content(n)) + key
    <3>0. x \in Int
      BY <2>1, WebAssumption DEF TypeOK
    <3> HIDE DEF x
    <3>1. x % W \in 0..(W - 1)
      BY <3>0, ModRange
    <3>2. [hdata[n] EXCEPT !.size = x % W]
            \in [size : 0..(W - 1), offset : 0..(W - 1)]
      BY <1>1, <3>1, IndexType
    <3>3. 1 * MaxPage <= N * MaxPage /\ 1 * MaxPage = MaxPage /\ N * MaxPage \in Int
      BY WebAssumption
    <3>4. Len(Content(n)) \in 0..(W - 1)
      BY <2>1, <3>3, WebAssumption
    <3>5. [size |-> Len(Content(n)), offset |-> total] \in [size : 0..(W - 1), offset : 0..(W - 1)]
      BY <3>4 DEF TypeOK
    <3> QED BY <3>2, <3>5 DEF NewEntry, x
  <2>3. hdata' = [hdata EXCEPT ![n] = NewEntry(n)]
    BY <1>3 DEF RestoreEntry
  <2>4. hdata' \in [Entries -> [size : 0..(W - 1), offset : 0..(W - 1)]]
    BY <1>1, <2>2, <2>3 DEF TypeOK
  <2>5. www' \in Seq(Bytes)
    <3>1. SubSeq(Content(n), 1, Len(Content(n)) - 1) \in Seq(Bytes)
      BY <2>1
    <3>2. www' = www \o Content(n) \/ www' = www \o SubSeq(Content(n), 1, Len(Content(n)) - 1)
      BY <1>3 DEF RestoreEntry
    <3> DEFINE c == Content(n)
               d == SubSeq(Content(n), 1, Len(Content(n)) - 1)
    <3> HIDE DEF c, d
    <3>3. c \in Seq(Bytes) /\ d \in Seq(Bytes) /\ (www' = www \o c \/ www' = www \o d)
      BY <2>1, <3>1, <3>2 DEF c, d
    <3>4. www \in Seq(Bytes)
      BY DEF TypeOK
    <3>5. www \o c \in Seq(Bytes) /\ www \o d \in Seq(Bytes)
      BY <3>3, <3>4, ConcatProperties
    <3> QED BY <3>3, <3>5
  <2>6. total' \in 0..(W - 1)
    <3> DEFINE T == Sums(Lengths(Restored))
    <3>1. T[n] \in 0..(W - 1) /\ T[n - 1] \in 0..(W - 1)
      BY <1>1, ContentType, OffsetsFit
    <3>2. T[n] = T[n - 1] + Len(Content(n))
      BY <1>1, <1>3, SumsAre DEF Lengths, Restored
    <3>3. total <= T[n - 1]
      BY DEF RestoreInv, RestoreEntry
    <3>4. total' = total \/ total' = total + Len(Content(n))
      BY <1>3 DEF RestoreEntry
    <3> HIDE DEF T
    <3> QED BY <2>1, <3>1, <3>2, <3>3, <3>4, WebAssumption DEF TypeOK
  <2>7. failed' \in BOOLEAN
    BY <1>3 DEF RestoreEntry, TypeOK
  <2> QED BY <2>4, <2>5, <2>6, <2>7
<1> QED BY <1>2, <1>3

LEMMA TypeStep ==
    ASSUME TypeOK, RestoreInv, [Next]_vars
    PROVE  TypeOK'
<1>1. CASE Extract
  <2>1. ASSUME NEW i \in Entries
        PROVE  dir'[i] \in Pages \cup {Missing}
    <3>1. CASE i \notin unsafe /\ Within(i, DetectKey)
      <4>1. PageAt(i, DetectKey) \in Seq(Bytes)
        BY KeyType, PageAtType, WebAssumption
      <4>2. Len(PageAt(i, DetectKey)) <= MaxPage /\ dir'[i] = PageAt(i, DetectKey)
        BY <1>1, <3>1 DEF Extract
      <4> QED BY <4>1, <4>2 DEF Pages
    <3>2. CASE ~(i \notin unsafe /\ Within(i, DetectKey))
      <4>1. dir'[i] = dir[i]
        BY <1>1, <3>2 DEF Extract
      <4> QED BY <4>1 DEF TypeOK
    <3> QED BY <3>1, <3>2
  <2>2. dir' \in [Entries -> Pages \cup {Missing}]
    BY <1>1, <2>1 DEF Extract
  <2>3. fresh' \in BOOLEAN
    BY <1>1 DEF Extract
  <2> QED BY <1>1, <2>2, <2>3 DEF Extract, TypeOK, fixed, program
<1>2. CASE Edit
  <2>1. dir' \in [Entries -> Pages \cup {Missing}]
    BY <1>2, WebAssumption DEF Edit, TypeOK
  <2> QED BY <1>2, <2>1 DEF Edit, TypeOK, fixed, program
<1>3. CASE RestoreBegin
  <2>1. www' \in Seq(Bytes) /\ key' \in 0..(W - 1) /\ pc' \in {"idle", "restore"} /\ broken' \in BOOLEAN
    BY <1>3, KeyType, EmptySeq DEF RestoreBegin, TypeOK
  <2> QED BY <1>3, <2>1 DEF RestoreBegin, TypeOK, fixed
<1>4. CASE RestoreEntry
  <2>1. n' \in 1..(N + 1)
    BY <1>4, WebAssumption DEF RestoreEntry, TypeOK
  <2> QED BY <1>4, <2>1, EntryStepType DEF RestoreEntry, TypeOK, fixed, history
<1>5. CASE RestoreEnd
  <2>1. www' \in Seq(Bytes)
    BY <1>5, PaddedType DEF RestoreEnd, TypeOK
  <2>2. wanted' \in [Entries -> Pages]
    BY <1>5, ContentType DEF RestoreEnd
  <2>3. n' \in 1..(N + 1) /\ total' \in 0..(W - 1) /\ key' \in 0..(W - 1)
    BY <1>5, WebAssumption DEF RestoreEnd, ProgramOver
  <2>4. {failed, fresh, keyLost, broken}' \subseteq BOOLEAN
    BY <1>5 DEF RestoreEnd, ProgramOver, TypeOK
  <2>5. index' = hdata /\ hdata' = hdata /\ pc' = "idle"
    BY <1>5 DEF RestoreEnd, ProgramOver
  <2> QED BY <1>5, <2>1, <2>2, <2>3, <2>4, <2>5 DEF RestoreEnd, TypeOK, fixed
<1>6. CASE BreakOff
  <2>1. www' \in Seq(Bytes)
    BY <1>6 DEF BreakOff, TypeOK
  <2>2. n' \in 1..(N + 1) /\ total' \in 0..(W - 1) /\ key' \in 0..(W - 1)
    BY <1>6, WebAssumption DEF BreakOff, ProgramOver
  <2>3. {failed, fresh, keyLost, broken}' \subseteq BOOLEAN
    BY <1>6 DEF BreakOff, ProgramOver, TypeOK
  <2>4. index' = index /\ hdata' = index /\ pc' = "idle"
    BY <1>6 DEF BreakOff, ProgramOver
  <2> QED BY <1>6, <2>1, <2>2, <2>3, <2>4 DEF BreakOff, TypeOK, fixed
<1>7. CASE UNCHANGED vars
  BY <1>7 DEF vars, fixed, program, history, TypeOK
<1> QED BY <1>1, <1>2, <1>3, <1>4, <1>5, <1>6, <1>7 DEF Next

-----------------------------------------------------------------------------
(* Of pages that are laid out, each is found with the key of httpd.        *)

LEMMA SizeFound ==
    ASSUME TypeOK, NEW pages \in [Entries -> Pages], LaidOut(pages), NEW i \in Entries \ unsafe
    PROVE  SizeOf(i, KEY) = Len(pages[i])
<1> DEFINE x == Len(pages[i])
<1>1. x \in 0..(W - 1) /\ KEY \in 0..(W - 1)
  <2>1. x \in Nat /\ Sums(Lengths(pages))[i - 1] \in 0..(W - 1)
         /\ Sums(Lengths(pages))[i - 1] + x < W
    BY PageInWww, LengthsType DEF Lengths
  <2> QED BY <2>1, WebAssumption DEF TypeOK
<1>2. index[i].size = (x + (IF new THEN KEY ELSE 0)) % W
  BY DEF LaidOut
<1> HIDE DEF x
<1>3. CASE new
  <2>1. SizeOf(i, KEY) = (((x + KEY) % W) - KEY) % W
    BY <1>2, <1>3 DEF SizeOf
  <2> QED BY <1>1, <2>1, ModBack DEF x
<1>4. CASE ~new
  <2>1. SizeOf(i, KEY) = x % W
    BY <1>1, <1>2, <1>4 DEF SizeOf
  <2> QED BY <1>1, <2>1, ModSame DEF x
<1> QED BY <1>3, <1>4

LEMMA OffsetFound ==
    ASSUME TypeOK, NEW pages \in [Entries -> Pages], LaidOut(pages), NEW i \in Entries, ~Lost(i)
    PROVE  OffsetOf(i, KEY) = Sums(Lengths(pages))[i - 1]
<1>1. i \in Entries \ unsafe
  BY DEF Lost
<1>2. CASE ~new
  BY <1>1, <1>2 DEF LaidOut, OffsetOf
<1>3. CASE new
  <2> DEFINE f == [j \in Entries |-> SizeOf(j, KEY)]
  <2>1. i - 1 \in 0..N
    BY WebAssumption DEF Entries
  <2>2. ASSUME NEW j \in 1..(i - 1)
        PROVE  f[j] = Lengths(pages)[j]
    <3>1. j \in Entries /\ j <= i
      BY WebAssumption DEF Entries
    <3>2. j \in Entries \ unsafe
      BY <1>3, <3>1 DEF Lost
    <3> QED BY <3>2, SizeFound DEF Lengths
  <2> HIDE DEF f
  <2>3. i - 1 \in 0..(i - 1)
    BY DEF Entries
  <2>4. Sums(f)[i - 1] = Sums(Lengths(pages))[i - 1]
    BY <2>1, <2>2, <2>3, SumsAgree
  <2>5. Sums(f)[i - 1] % W = Sums(Lengths(pages))[i - 1]
    BY <2>1, <2>4, OffsetsFit, ModSame
  <2> QED BY <1>3, <2>5 DEF OffsetOf, f
<1> QED BY <1>2, <1>3

(* The web server shows it, and an extraction does not find it too long.   *)
LEMMA PageFound ==
    ASSUME TypeOK, NEW pages \in [Entries -> Pages], LaidOut(pages), NEW i \in Entries, ~Lost(i)
    PROVE  Within(i, KEY) /\ PageAt(i, KEY) = pages[i]
<1> DEFINE a == Sums(Lengths(pages))[i - 1]
           l == Len(pages[i])
<1>1. a \in 0..(W - 1) /\ l \in Nat /\ a + l <= Len(www) /\ a + l < W
      /\ SubSeq(www, a + 1, a + l) = pages[i]
  BY PageInWww, LengthsType DEF LaidOut, Lengths
<1>2. OffsetOf(i, KEY) = a /\ SizeOf(i, KEY) = l
  BY OffsetFound, SizeFound DEF Lost
<1> HIDE DEF a, l
<1>3. (a + l) % W = a + l
  BY <1>1, ModSame, WebAssumption
<1>4. EndOf(i, KEY) = a + l
  BY <1>1, <1>2 DEF EndOf
<1> QED BY <1>1, <1>2, <1>3, <1>4 DEF Within, PageAt

(* Whichever of the two www holds, with or without the vendor's pages that *)
(* are not restored.                                                       *)
LEMMA WantedFound ==
    ASSUME TypeOK, LaidOut(wanted) \/ LaidOut(Kept), NEW i \in Entries, ~Lost(i)
    PROVE  Within(i, KEY) /\ PageAt(i, KEY) = wanted[i]
<1>1. wanted \in [Entries -> Pages] /\ Kept \in [Entries -> Pages]
  BY ContentType
<1>2. Kept[i] = wanted[i]
  BY DEF Kept, Lost
<1>3. CASE LaidOut(wanted)
  BY <1>1, <1>3, PageFound
<1>4. CASE LaidOut(Kept)
  BY <1>1, <1>2, <1>4, PageFound
<1> QED BY <1>3, <1>4

LEMMA WebInvServes ==
    ASSUME WebInv
    PROVE  ServedIsWanted
BY WantedFound DEF WebInv, IdleInv, ServedIsWanted, Served

-----------------------------------------------------------------------------
(* The invariant.                                                          *)

LEMMA WebInvInit ==
    ASSUME Init
    PROVE  WebInv
<1>1. TypeOK
  BY TypeInit
<1>2. LaidOut(wanted)
  BY DEF Init, LaidOut, VendorIndex
<1> QED BY <1>1, <1>2 DEF Init, WebInv, IdleInv, RestoreInv, FreshIsServed

(* A step that leaves www, the index and the wanted pages alone leaves     *)
(* what www serves alone.                                                  *)
LEMMA SameServed ==
    ASSUME UNCHANGED <<fixed, index, www>>
    PROVE  /\ \A i \in Entries : Served(i)' = Served(i) /\ (Lost(i)' <=> Lost(i))
           /\ \A pages : LaidOut(pages)' <=> LaidOut(pages)
<1>1. new' = new /\ KEY' = KEY /\ unsafe' = unsafe /\ index' = index /\ www' = www
  BY DEF fixed
<1>2. ASSUME NEW i \in Entries
      PROVE  Served(i)' = Served(i) /\ (Lost(i)' <=> Lost(i))
  BY <1>1 DEF Served, PageAt, EndOf, OffsetOf, SizeOf, Lost
<1>3. ASSUME NEW pages
      PROVE  LaidOut(pages)' <=> LaidOut(pages)
  BY <1>1 DEF LaidOut
<1> QED BY <1>2, <1>3

(* What an extraction writes is what the web server shows.                 *)
LEMMA ExtractFresh ==
    ASSUME WebInv, Extract
    PROVE  FreshIsServed'
<1>1. SUFFICES ASSUME fresh', ~broken, ~keyLost, NEW i \in Entries, ~Lost(i)
               PROVE  dir'[i] = Served(i)
  <2>1. UNCHANGED <<fixed, index, www, pc, broken, keyLost>>
    BY DEF Extract, program
  <2> QED BY <2>1, SameServed DEF FreshIsServed
<1>2. TypeOK /\ (LaidOut(wanted) \/ LaidOut(Kept))
  BY <1>1 DEF WebInv, IdleInv, Extract
<1>3. Within(i, KEY) /\ i \notin unsafe
  BY <1>1, <1>2, WantedFound DEF Lost
<1>4. OffsetOf(i, DetectKey) = OffsetOf(i, KEY) /\ SizeOf(i, DetectKey) = SizeOf(i, KEY)
  BY <1>1 DEF Extract, OffsetOf, SizeOf
<1>5. Within(i, DetectKey) /\ PageAt(i, DetectKey) = PageAt(i, KEY)
  BY <1>3, <1>4 DEF Within, PageAt, EndOf
<1> QED BY <1>3, <1>5 DEF Extract, Served

(* The pages that are restored, and the entries the index gets for them.   *)
LEMMA RestoreEntryInv ==
    ASSUME TypeOK, RestoreInv, RestoreEntry
    PROVE  RestoreInv'
<1> DEFINE R == Restored
           T == Sums(Lengths(R))
           l == Len(R[n])
<1>1. n \in Entries /\ n - 1 \in 0..N /\ n \in 0..N /\ n' = n + 1 /\ pc = "restore"
  BY WebAssumption DEF RestoreEntry, TypeOK, Entries
<1>2. Restored' = R /\ ~fresh' /\ key' = key /\ new' = new /\ unsafe' = unsafe
  BY <1>1 DEF RestoreEntry, Restored, Content, fixed, history, RestoreInv
<1>3. /\ R \in [Entries -> Pages] /\ R[n] \in Seq(Bytes) /\ l \in Nat
      /\ T[n - 1] \in 0..(W - 1) /\ T[n] = T[n - 1] + l
      /\ Laid(R)[n] = Laid(R)[n - 1] \o R[n]
      /\ Laid(R)[n - 1] \in Seq(Bytes) /\ Len(Laid(R)[n - 1]) = T[n - 1]
  <2>1. R \in [Entries -> Pages]
    BY ContentType
  <2>2. R[n] \in Seq(Bytes) /\ l \in Nat
    BY <1>1, <2>1 DEF Pages
  <2>3. T[n - 1] \in 0..(W - 1) /\ T[n] = T[n - 1] + l
    BY <1>1, <2>1, OffsetsFit, SumsAre DEF Lengths
  <2> QED BY <1>1, <2>1, <2>2, <2>3, LaidAre, LaidLength
<1>4. /\ total <= T[n - 1]
      /\ ~failed => www = Laid(R)[n - 1] /\ total = Len(www)
      /\ \A i \in Entries \ unsafe : i < n =>
            /\ hdata[i].size = (Len(R[i]) + (IF new THEN key ELSE 0)) % W
            /\ new \/ failed \/ hdata[i].offset = T[i - 1]
  BY <1>1 DEF RestoreInv
<1>5. total \in Nat
  BY DEF TypeOK
<1>6. total' <= T[n] /\ (~failed' => www' = Laid(R)[n] /\ total' = Len(www'))
  <2>1. CASE n \in unsafe
    <3>1. R[n] = << >> /\ l = 0
      BY <1>1, <2>1 DEF Restored
    <3>2. www' = www /\ total' = total /\ failed' = failed
      BY <2>1 DEF RestoreEntry
    <3>3. Laid(R)[n - 1] \o << >> = Laid(R)[n - 1]
      BY <1>3, ConcatEmptySeq
    <3> HIDE DEF R, T, l
    <3> QED BY <1>3, <1>4, <1>5, <3>1, <3>2, <3>3
  <2>2. CASE n \notin unsafe
    <3>1. R[n] = Content(n)
      BY <1>1, <2>2 DEF Restored
    <3>2. \/ www' = www \o R[n] /\ total' = total + l /\ failed' = failed
          \/ failed' = TRUE /\ total' = total
      BY <2>2, <3>1 DEF RestoreEntry
    <3> DEFINE before == Laid(R)[n - 1]
               page   == R[n]
    <3>3. Len(before \o page) = Len(before) + l
      BY <1>3, ConcatProperties
    <3> HIDE DEF R, T, before, page
    <3>4. CASE www' = www \o R[n] /\ total' = total + l /\ failed' = failed
      <4>1. total' <= T[n]
        BY <1>3, <1>4, <1>5, <3>4
      <4>2. ASSUME ~failed'
            PROVE  www' = before \o page /\ total' = Len(before) + l
        BY <1>4, <3>4, <4>2 DEF before, page
      <4>3. Laid(R)[n] = before \o page
        BY <1>3 DEF before, page
      <4> QED BY <3>3, <4>1, <4>2, <4>3
    <3>5. CASE failed' = TRUE /\ total' = total
      BY <1>3, <1>4, <1>5, <3>5
    <3> QED BY <3>2, <3>4, <3>5
  <2> QED BY <2>1, <2>2
<1>7. ASSUME NEW i \in Entries \ unsafe, i < n + 1
      PROVE  /\ hdata'[i].size = (Len(R[i]) + (IF new THEN key ELSE 0)) % W
             /\ new \/ failed' \/ hdata'[i].offset = T[i - 1]
  <2>1. hdata \in [Entries -> [size : 0..(W - 1), offset : 0..(W - 1)]]
    BY DEF TypeOK
  <2>2. CASE i # n
    <3>1. hdata'[i] = hdata[i] /\ (failed' = failed \/ failed' = TRUE)
      BY <2>1, <2>2 DEF RestoreEntry
    <3>2. i < n
      BY <1>1, <1>7, <2>2 DEF Entries
    <3> HIDE DEF R, T
    <3> QED BY <1>4, <3>1, <3>2
  <2>3. CASE i = n
    <3>1. hdata'[i] = NewEntry(n) /\ R[i] = Content(n) /\ (failed' = failed \/ failed' = TRUE)
      BY <1>1, <2>1, <2>3 DEF RestoreEntry, Restored
    <3>2. Len(Content(n)) \in 0..(W - 1)
      <4>1. T[n] \in 0..(W - 1)
        BY <1>1, <1>3, OffsetsFit
      <4> QED BY <1>3, <2>3, <3>1, <4>1, WebAssumption
    <3>3. NewEntry(n).size = (Len(Content(n)) + (IF new THEN key ELSE 0)) % W
      <4>1. CASE new
        BY <1>1, <2>1, <4>1 DEF NewEntry
      <4>2. CASE ~new
        <5>1. NewEntry(n).size = Len(Content(n))
          BY <4>2 DEF NewEntry
        <5>2. Len(Content(n)) % W = Len(Content(n))
          BY <3>2, ModSame
        <5> QED BY <3>2, <4>2, <5>1, <5>2
      <4> QED BY <4>1, <4>2
    <3>4. new \/ failed \/ NewEntry(n).offset = T[n - 1]
      <4>1. ~new => NewEntry(n).offset = total
        BY DEF NewEntry
      <4>2. ~failed => total = T[n - 1]
        BY <1>3, <1>4
      <4> QED BY <4>1, <4>2
    <3> HIDE DEF R, T
    <3> QED BY <2>3, <3>1, <3>3, <3>4
  <2> QED BY <2>2, <2>3
<1>8. n' - 1 = n
  BY <1>1 DEF Entries
<1> DEFINE Rp == Restored'
<1>9. /\ total' <= Sums(Lengths(Rp))[n' - 1]
      /\ ~failed' => www' = Laid(Rp)[n' - 1] /\ total' = Len(www')
  BY <1>2, <1>6, <1>8
<1>10. ASSUME NEW i \in Entries \ unsafe', i < n'
       PROVE  /\ hdata'[i].size = (Len(Rp[i]) + (IF new' THEN key' ELSE 0)) % W
              /\ new' \/ failed' \/ hdata'[i].offset = Sums(Lengths(Rp))[i - 1]
  BY <1>1, <1>2, <1>7, <1>10
<1>11. pc' = "restore" => ~fresh'
  BY <1>2
<1> HIDE DEF R, T, l
<1> QED BY <1>9, <1>10, <1>11 DEF RestoreInv

LEMMA RestoreBegins ==
    ASSUME WebInv, RestoreBegin
    PROVE  RestoreInv' /\ IdleInv'
<1>1. CASE dirThere
  <2>1. pc' = "restore" /\ ~fresh' /\ n' = 1 /\ total' = 0 /\ www' = << >>
    BY <1>1 DEF RestoreBegin, WebInv, IdleInv
  <2>2. Sums(Lengths(Restored'))[0] = 0 /\ Laid(Restored')[0] = << >>
    BY SumsAre, LaidAre
  <2>3. Len(<< >>) = 0
    BY EmptySeq
  <2>4. \A i \in Entries \ unsafe' : ~(i < 1)
    BY WebAssumption DEF Entries
  <2>5. total' <= Sums(Lengths(Restored'))[n' - 1] /\ www' = Laid(Restored')[n' - 1] /\ total' = Len(www')
    BY <2>1, <2>2, <2>3
  <2> QED BY <2>1, <2>4, <2>5 DEF RestoreInv, IdleInv
<1>2. CASE ~dirThere
  <2>1. pc' = "idle" /\ n' = 1 /\ total' = 0 /\ ~failed' /\ broken'
    BY <1>2 DEF RestoreBegin, WebInv, IdleInv
  <2> QED BY <2>1 DEF RestoreInv, IdleInv
<1> QED BY <1>1, <1>2

(* A restore that has written every page has laid out the pages it now     *)
(* calls wanted.                                                           *)
LEMMA RestoreEnds ==
    ASSUME WebInv, RestoreEnd
    PROVE  IdleInv'
<1> DEFINE R == Restored
<1>1. SUFFICES ASSUME ~broken', ~keyLost'
               PROVE  LaidOut(Kept)'
  BY DEF RestoreEnd, ProgramOver, IdleInv
<1>2. ~failed /\ (new => key = KEY)
  BY <1>1 DEF RestoreEnd
<1>3. n = N + 1 /\ n - 1 = N
  BY WebAssumption DEF RestoreEnd, WebInv, TypeOK
<1>4. /\ www = Concat(R) /\ total = Len(Concat(R))
      /\ \A i \in Entries \ unsafe :
            /\ hdata[i].size = (Len(R[i]) + (IF new THEN key ELSE 0)) % W
            /\ new \/ hdata[i].offset = Sums(Lengths(R))[i - 1]
  <2>1. pc = "restore" /\ \A i \in Entries : i < n
    BY <1>3, WebAssumption DEF RestoreEnd, Entries
  <2> QED BY <1>2, <1>3, <2>1 DEF WebInv, RestoreInv, Concat
<1>5. www' = Padded(Concat(R), Len(Concat(R))) /\ index' = hdata
      /\ new' = new /\ KEY' = KEY /\ unsafe' = unsafe
  BY <1>4 DEF RestoreEnd, fixed
<1>6. Kept' = R
  BY DEF RestoreEnd, Kept, Restored, fixed
<1> DEFINE K == Kept'
<1>7. /\ www' = Padded(Concat(K), Len(Concat(K)))
      /\ \A i \in Entries \ unsafe' :
            /\ index'[i].size = (Len(K[i]) + (IF new' THEN KEY' ELSE 0)) % W
            /\ new' \/ index'[i].offset = Sums(Lengths(K))[i - 1]
  <2> HIDE DEF R, K
  <2>1. K = R
    BY <1>6 DEF K
  <2> QED BY <1>2, <1>4, <1>5, <2>1
<1> QED BY <1>7 DEF LaidOut

LEMMA WebInvStep ==
    ASSUME WebInv, [Next]_vars
    PROVE  WebInv'
<1>1. TypeOK'
  BY TypeStep DEF WebInv
<1>2. CASE Extract
  <2>1. UNCHANGED <<fixed, index, www, pc, n, total, failed, wanted, broken, keyLost>> /\ pc = "idle"
    BY <1>2 DEF Extract, program
  <2>2. Kept' = Kept
    BY <2>1 DEF Kept, fixed
  <2>3. IdleInv'
    BY <2>1, <2>2, SameServed DEF WebInv, IdleInv
  <2> QED BY <1>1, <1>2, <2>1, <2>3, ExtractFresh DEF WebInv, RestoreInv
<1>3. CASE Edit
  <2>1. UNCHANGED <<fixed, index, www, pc, n, total, failed, wanted, broken, keyLost>> /\ pc = "idle"
        /\ ~fresh'
    BY <1>3 DEF Edit, program
  <2>2. Kept' = Kept
    BY <2>1 DEF Kept, fixed
  <2>3. IdleInv'
    BY <2>1, <2>2, SameServed DEF WebInv, IdleInv
  <2> QED BY <1>1, <2>1, <2>3 DEF WebInv, RestoreInv, FreshIsServed
<1>4. CASE RestoreBegin
  <2>1. ~fresh'
    BY <1>4 DEF RestoreBegin
  <2> QED BY <1>1, <1>4, <2>1, RestoreBegins DEF WebInv, FreshIsServed
<1>5. CASE RestoreEntry
  <2>1. pc' = "restore"
    BY <1>5 DEF RestoreEntry
  <2> QED BY <1>1, <1>5, <2>1, RestoreEntryInv DEF WebInv, IdleInv, FreshIsServed
<1>6. CASE RestoreEnd
  <2>1. pc' = "idle" /\ ~fresh'
    BY <1>6 DEF RestoreEnd, ProgramOver, WebInv, RestoreInv
  <2> QED BY <1>1, <1>6, <2>1, RestoreEnds DEF WebInv, RestoreInv, FreshIsServed
<1>7. CASE BreakOff
  <2>1. pc' = "idle" /\ n' = 1 /\ total' = 0 /\ ~failed' /\ broken'
    BY <1>7 DEF BreakOff, ProgramOver
  <2> QED BY <1>1, <2>1 DEF WebInv, IdleInv, RestoreInv, FreshIsServed
<1>8. CASE UNCHANGED vars
  <2>1. UNCHANGED <<fixed, index, www, dir, pc, n, total, key, hdata, failed, wanted, fresh, broken, keyLost>>
    BY <1>8 DEF vars, program, history
  <2>2. Kept' = Kept /\ Restored' = Restored
    BY <2>1 DEF Kept, Restored, Content, fixed
  <2>3. IdleInv'
    BY <2>1, <2>2, SameServed DEF WebInv, IdleInv
  <2>4. RestoreInv'
    BY <2>1, <2>2 DEF WebInv, RestoreInv, fixed
  <2>5. FreshIsServed'
    BY <2>1, SameServed DEF WebInv, FreshIsServed
  <2> QED BY <1>1, <2>3, <2>4, <2>5 DEF WebInv
<1> QED BY <1>2, <1>3, <1>4, <1>5, <1>6, <1>7, <1>8 DEF Next

-----------------------------------------------------------------------------
(* The key.                                                                *)

(* What the sizes in the index add up to, when none of them wraps.         *)
LEMMA SizesAddUp ==
    ASSUME TypeOK, new, unsafe = {}, NEW pages \in [Entries -> Pages], LaidOut(pages),
           N * KEY + Sums(Lengths(pages))[N] < W
    PROVE  Sums([j \in Entries |-> index[j].size])[N] = Sums(Lengths(pages))[N] + N * KEY
<1> DEFINE f == Lengths(pages)
           g == [j \in Entries |-> f[j] + KEY]
<1>1. f \in [Entries -> Nat] /\ KEY \in Nat /\ N \in 0..N
  BY LengthsType, WebAssumption DEF TypeOK
<1>2. ASSUME NEW j \in Entries
      PROVE  index[j].size = g[j]
  <2>1. j \in 0..N /\ j - 1 \in 0..N /\ N \in j..N
    BY WebAssumption DEF Entries
  <2>2. Sums(f)[j] = Sums(f)[j - 1] + f[j] /\ Sums(f)[j - 1] \in Nat
        /\ Sums(f)[j] <= Sums(f)[N] /\ Sums(f)[N] \in Nat /\ Sums(f)[j] \in Nat
    BY <1>1, <2>1, SumsAre, SumsNat, SumsGrow
  <2>3. KEY <= N * KEY /\ N * KEY \in Nat
    BY <1>1, WebAssumption
  <2>4. f[j] \in Nat /\ f[j] = Len(pages[j])
    BY <1>1 DEF Lengths
  <2> DEFINE keys == N * KEY
  <2>5. keys + Sums(f)[N] < W /\ keys \in Nat /\ KEY <= keys
    BY <2>3
  <2> HIDE DEF f, keys
  <2>6. f[j] + KEY \in 0..(W - 1)
    BY <1>1, <2>2, <2>4, <2>5, WebAssumption
  <2>7. index[j].size = (f[j] + KEY) % W
    BY <2>4 DEF LaidOut
  <2> QED BY <2>6, <2>7, ModSame
<1> DEFINE h == [j \in Entries |-> index[j].size]
<1>3. h = g
  BY <1>2
<1> HIDE DEF f, h
<1>4. Sums(g)[N] = Sums(f)[N] + N * KEY
  BY <1>1, SumsShift
<1> QED BY <1>3, <1>4 DEF f, h

(* The byte www is padded with is taken off the surplus again.             *)
LEMMA SurplusIs ==
    ASSUME WebInv, pc = "idle", ~broken, ~keyLost, new, unsafe = {},
           N * KEY + Sums(Lengths(wanted))[N] < W \div 2
    PROVE  Surplus = N * KEY - (Sums(Lengths(wanted))[N] % 2)
<1> DEFINE T    == Sums(Lengths(wanted))[N]
           keys == N * KEY
           x    == Sums([j \in Entries |-> index[j].size])[N]
<1>1. TypeOK /\ wanted \in [Entries -> Pages] /\ KEY \in 0..(W - 1) /\ N \in 0..N
  BY ContentType, WebAssumption DEF WebInv, TypeOK
<1>2. LaidOut(wanted)
  <2>1. Kept = wanted
    BY <1>1 DEF Kept
  <2> QED BY <2>1 DEF WebInv, IdleInv
<1>3. T \in Nat /\ keys \in Nat /\ keys + T < W \div 2 /\ W \div 2 <= W /\ W \div 2 \in Nat
  BY <1>1, LengthsType, SumsNat, WebAssumption
<1>4. Len(www) = T + (T % 2)
  <2>1. Concat(wanted) \in Seq(Bytes) /\ Len(Concat(wanted)) = T
    BY <1>1, LaidLength DEF Concat
  <2>2. www = IF T % 2 # 0 THEN Concat(wanted) \o <<NUL>> ELSE Concat(wanted)
    BY <1>2, <2>1 DEF LaidOut, Padded
  <2> DEFINE c == Concat(wanted)
  <2> HIDE DEF T, c
  <2>3. c \in Seq(Bytes) /\ Len(c) = T /\ www = IF T % 2 # 0 THEN c \o <<NUL>> ELSE c
    BY <2>1, <2>2 DEF c
  <2>4. Len(c \o <<NUL>>) = T + 1
    BY <2>3, WebAssumption
  <2>5. T % 2 = 0 \/ T % 2 = 1
    BY <1>3
  <2> QED BY <1>3, <2>3, <2>4, <2>5
<1>5. x = T + keys
  <2>1. keys + T < W
    BY <1>3, WebAssumption
  <2> QED BY <1>1, <1>2, <2>1, SizesAddUp
<1> HIDE DEF T, keys, x
<1>6. Signed(x) = x
  <2>1. x \in 0..(W - 1) /\ x < W \div 2
    BY <1>3, <1>5, WebAssumption
  <2> QED BY <2>1, ModSame DEF Signed
<1>7. Surplus = x - Len(www)
  BY <1>6 DEF Surplus, x
<1>8. Surplus = keys - (T % 2)
  BY <1>3, <1>4, <1>5, <1>7
<1> QED BY <1>8 DEF T, keys

(* In 64 bits, which hold it, it is what it was.                           *)
LEMMA WideEnough ==
    ASSUME NEW x \in 0..(W - 1)
    PROVE  x % (W * W) = x
<1> DEFINE b == W * W
<1>1. b \in Nat /\ W <= b
  BY WebAssumption
<1> HIDE DEF b
<1>2. x % b = x
  BY <1>1, WebAssumption
<1> QED BY <1>2 DEF b

LEMMA KeyFound ==
    ASSUME WebInv
    PROVE  EvenKeyFound
<1> DEFINE T    == Sums(Lengths(wanted))[N]
           keys == N * KEY
<1>1. SUFFICES ASSUME pc = "idle", ~broken, ~keyLost, new, unsafe = {}, www # << >>,
                      T % 2 = 0, keys + T < W \div 2
               PROVE  DetectKey = KEY
  BY DEF EvenKeyFound
<1>2. wanted \in [Entries -> Pages] /\ KEY \in 0..(W - 1)
  BY ContentType, WebAssumption DEF WebInv, TypeOK
<1>3. T \in Nat /\ keys \in Nat
  BY <1>2, LengthsType, SumsNat, WebAssumption
<1>4. Surplus = keys
  BY <1>1, <1>3, SurplusIs
<1>5. keys % N = 0 /\ keys \div N = KEY
  BY <1>2, WebAssumption
<1>6. KEY % W = KEY
  BY <1>2, ModSame
<1> HIDE DEF T, keys
<1>7. keys \in 0..(W - 1)
  BY <1>1, <1>3, WebAssumption
<1>8. keys % (W * W) = keys
  BY <1>7, WideEnough
<1> QED BY <1>1, <1>4, <1>5, <1>6, <1>8 DEF DetectKey

(* From pages of an odd length together no key is found at all, when there *)
(* is more than one entry: the finding of EvenlyDivisible for every www.   *)
OddKeyLost ==
    LET length == Sums(Lengths(wanted))[N] IN
    pc = "idle" /\ ~broken /\ ~keyLost /\ new /\ unsafe = {} /\ N > 1 /\ KEY # 0
    /\ length % 2 # 0 /\ N * KEY + length < W \div 2
        => DetectKey = 0

LEMMA OneLess ==
    ASSUME NEW m \in Nat, m > 1, NEW x \in Nat, x >= m, x % m = 0
    PROVE  (x - 1) % m # 0
OBVIOUS

LEMMA KeyNotFound ==
    ASSUME WebInv
    PROVE  OddKeyLost
<1> DEFINE T    == Sums(Lengths(wanted))[N]
           keys == N * KEY
<1>1. SUFFICES ASSUME pc = "idle", ~broken, ~keyLost, new, unsafe = {}, N > 1, KEY # 0,
                      T % 2 # 0, keys + T < W \div 2
               PROVE  DetectKey = 0
  BY DEF OddKeyLost
<1>2. wanted \in [Entries -> Pages] /\ KEY \in 1..(W - 1)
  BY <1>1, ContentType, WebAssumption DEF WebInv, TypeOK
<1>3. T \in Nat /\ keys \in Nat /\ N <= keys
  BY <1>2, LengthsType, SumsNat, WebAssumption
<1>4. Surplus = keys - 1
  <2>1. T % 2 = 1
    BY <1>1, <1>3
  <2> QED BY <1>1, <2>1, SurplusIs
<1>5. (keys - 1) % N # 0
  <2>1. keys % N = 0
    BY <1>2, WebAssumption
  <2> QED BY <1>1, <1>3, <2>1, OneLess, WebAssumption
<1> HIDE DEF T, keys
<1>6. keys - 1 \in 0..(W - 1)
  BY <1>1, <1>3, WebAssumption
<1>7. (keys - 1) % (W * W) = keys - 1
  BY <1>6, WideEnough
<1> QED BY <1>4, <1>5, <1>7 DEF DetectKey

-----------------------------------------------------------------------------
(* The theorems.                                                           *)

(* The inductive invariant holds after any number of runs of webdecomp,    *)
(* some of them broken off, and of edits between them.                     *)
THEOREM WebInvariant == Spec => []WebInv
<1>1. Init => WebInv
  BY WebInvInit
<1>2. WebInv /\ [Next]_vars => WebInv'
  BY WebInvStep
<1> QED BY <1>1, <1>2, PTL DEF Spec

(* Every variable of webdecomp holds a value of its kind: no size, offset  *)
(* or total that is stored leaves its 32 bits (common.h, webdecomp.c).     *)
THEOREM TypeCorrect == Spec => []TypeOK
<1>1. WebInv => TypeOK
  BY DEF WebInv
<1> QED BY <1>1, WebInvariant, PTL

(* restore (webdecomp.c:287): the web server finds every page, as it was   *)
(* last restored, where the index says.                                    *)
THEOREM ServedIsWantedHolds == Spec => []ServedIsWanted
<1>1. WebInv => ServedIsWanted
  BY WebInvServes
<1> QED BY <1>1, WebInvariant, PTL

(* extract (webdecomp.c:209): the directory holds what the web server      *)
(* shows.                                                                  *)
THEOREM FreshIsServedHolds == Spec => []FreshIsServed
<1>1. WebInv => FreshIsServed
  BY DEF WebInv
<1> QED BY <1>1, WebInvariant, PTL

(* detect_key (webdecomp.c:162): the key of httpd is worked out from pages *)
(* of an even length together, if the sizes with the key fit an int.       *)
THEOREM EvenKeyFoundHolds == Spec => []EvenKeyFound
<1>1. WebInv => EvenKeyFound
  BY KeyFound
<1> QED BY <1>1, WebInvariant, PTL

(* restore pads an odd www (webdecomp.c:372), and detect_key finds no key  *)
(* in it, although it "should always be evenly divisble" (line 194).       *)
THEOREM OddKeyLostHolds == Spec => []OddKeyLost
<1>1. WebInv => OddKeyLost
  BY KeyNotFound
<1> QED BY <1>1, WebInvariant, PTL
=============================================================================
