-------------------------- MODULE CardColumn_proofs --------------------------
(***************************************************************************)
(* Proofs about CardColumn, for every set of cards and columns, every      *)
(* assignment of columns to boards, every capacity and version bound.      *)
(***************************************************************************)
EXTENDS CardColumn, FiniteSetTheorems, FunctionTheorems, SequenceTheorems, TLAPS

-----------------------------------------------------------------------------
(* Orders of a column. *)

\* s lists every element of S once.
Lists(s, S) ==
  /\ s \in Seq(S) /\ DOMAIN s = 1 .. Len(s) /\ Len(s) \in Nat
  /\ \A i, j \in 1 .. Len(s) : s[i] = s[j] => i = j
  /\ \A x \in S : \E i \in 1 .. Len(s) : s[i] = x

\* The elements of new outside T are elements of old, in the same order.
KeepsOrder(new, old, T) ==
  \A i, j \in 1 .. Len(new) : i < j /\ new[i] \notin T /\ new[j] \notin T
    => \E p, q \in 1 .. Len(old) : p < q /\ old[p] = new[i] /\ old[q] = new[j]

LEMMA FunctionIsSeq ==
  ASSUME NEW S, NEW n \in Nat, NEW s \in [1 .. n -> S]
  PROVE  s \in Seq(S) /\ Len(s) = n /\ DOMAIN s = 1 .. n
  OBVIOUS

LEMMA ListsMembers ==
  ASSUME NEW S, NEW s, Lists(s, S)
  PROVE  /\ \A i \in 1 .. Len(s) : s[i] \in S
         /\ Members(s) = S
<1>1. \A i \in 1 .. Len(s) : s[i] \in S
  BY ElementOfSeq DEF Lists
<1>2. QED
  BY <1>1 DEF Lists, Members

\* Strictly increasing keys list every element of a finite set exactly once.
LEMMA SortedLists ==
  ASSUME NEW S, IsFiniteSet(S), NEW key \in [S -> Int], NEW s \in Sorted(S, key)
  PROVE  Lists(s, S) /\ Increasing(s, key)
<1> DEFINE n == Cardinality(S)
<1>1. n \in Nat
  BY FS_CardinalityType
<1>2. s \in [1 .. n -> S] /\ Increasing(s, key)
  BY DEF Sorted
<1>3. s \in Seq(S) /\ Len(s) = n /\ DOMAIN s = 1 .. n
  BY <1>1, <1>2, FunctionIsSeq
<1>4. ASSUME NEW i \in 1 .. n, NEW j \in 1 .. n, s[i] = s[j] PROVE i = j
  <2>1. key[s[i]] \in Int
    BY <1>2
  <2>2. ~(i < j) /\ ~(j < i)
    BY <1>2, <1>3, <1>4, <2>1 DEF Increasing
  <2>3. QED
    BY <2>2, <1>1
<1>5. s \in Injection(1 .. n, S)
  BY <1>2, <1>4, Fun_IsInj
<1>6. IsFiniteSet(1 .. n) /\ Cardinality(1 .. n) = n
  BY <1>1, FS_Interval
<1>7. s \in Surjection(1 .. n, S)
  BY <1>5, <1>6, FS_Injection
<1>8. \A x \in S : \E i \in 1 .. n : s[i] = x
  BY <1>7 DEF Surjection
<1>9. QED
  BY <1>1, <1>2, <1>3, <1>4, <1>8 DEF Lists

LEMMA CardsInFinite ==
  ASSUME NEW rows, NEW k
  PROVE  IsFiniteSet(CardsIn(rows, k))
  BY CardColumnAssumption, FS_Subset DEF CardsIn

LEMMA StoredRow ==
  ASSUME NEW rows \in [Cards -> Rows \cup {NoRow}], NEW c \in Cards, Stored(rows[c])
  PROVE  /\ rows[c] \in Rows /\ rows[c].pos \in Nat /\ rows[c].column \in Columns
         /\ rows[c].version \in 1 .. MutateMax + 1 /\ rows[c].archived \in BOOLEAN
  BY DEF Stored, NoRow, Rows

\* Reading a column lists its cards, archived ones included, with increasing
\* positions, and the last of them has the largest position.
LEMMA OrderRead ==
  ASSUME NEW rows \in [Cards -> Rows \cup {NoRow}], NEW k, NEW old \in Orders(rows, k)
  PROVE  /\ Lists(old, CardsIn(rows, k))
         /\ \A i, j \in 1 .. Len(old) : i < j => rows[old[i]].pos < rows[old[j]].pos
         /\ LastOf(rows, old) \in Int /\ LastOf(rows, old) >= -1
         /\ \A c \in CardsIn(rows, k) : rows[c].pos <= LastOf(rows, old)
<1> DEFINE S == CardsIn(rows, k)
           key == [c \in S |-> rows[c].pos]
<1>1. \A c \in S : c \in Cards /\ rows[c].pos \in Nat
  BY StoredRow DEF CardsIn
<1>2. key \in [S -> Int]
  BY <1>1
<1>3. old \in Sorted(S, key)
  BY DEF Orders
<1>4. Lists(old, S) /\ Increasing(old, key)
  BY <1>2, <1>3, CardsInFinite, SortedLists
<1>5. \A i \in 1 .. Len(old) : old[i] \in S
  BY <1>4, ListsMembers
<1>6. \A i, j \in 1 .. Len(old) : i < j => rows[old[i]].pos < rows[old[j]].pos
  BY <1>4, <1>5 DEF Lists, Increasing
<1>7. CASE old = <<>>
  <2>1. S = {}
    BY <1>4, <1>7 DEF Lists
  <2>2. QED
    BY <1>4, <1>6, <1>7, <2>1 DEF LastOf
<1>8. CASE old # <<>>
  <2>1. Len(old) \in Nat \ {0}
    BY <1>4, <1>8, EmptySeq DEF Lists
  <2>2. LastOf(rows, old) = rows[old[Len(old)]].pos
    BY <1>8 DEF LastOf
  <2>3. LastOf(rows, old) \in Nat
    BY <1>1, <1>5, <2>1, <2>2
  <2>4. ASSUME NEW c \in S PROVE rows[c].pos <= LastOf(rows, old)
    <3>1. PICK i \in 1 .. Len(old) : old[i] = c
      BY <1>4 DEF Lists
    <3>2. i = Len(old) \/ i < Len(old)
      BY <2>1
    <3>3. QED
      BY <1>1, <1>5, <1>6, <2>1, <2>2, <3>1, <3>2
  <2>5. QED
    BY <1>4, <1>6, <2>3, <2>4
<1>9. QED
  BY <1>7, <1>8
-----------------------------------------------------------------------------
(* The final order of a rewrite lists the column and the arrivals. *)

LEMMA ReorderedLists ==
  ASSUME NEW S, NEW old, Lists(old, S),
         NEW from \in DOMAIN old, NEW to \in DOMAIN old
  PROVE  /\ Lists(Reordered(old, from, to), S)
         /\ KeepsOrder(Reordered(old, from, to), old, {old[from]})
<1> DEFINE n == Len(old)
           new == Reordered(old, from, to)
           Source(i) == CASE i = to -> from
                          [] from <= i /\ i < to -> i + 1
                          [] to < i /\ i <= from -> i - 1
                          [] OTHER -> i
<1>1. n \in Nat /\ DOMAIN old = 1 .. n /\ from \in 1 .. n /\ to \in 1 .. n
  BY DEF Lists
<1>2. \A i \in 1 .. n : Source(i) \in 1 .. n /\ new[i] = old[Source(i)]
  BY <1>1 DEF Reordered
<1>3. \A i, j \in 1 .. n : Source(i) = Source(j) => i = j
  BY <1>1
<1>4. \A i, j \in 1 .. n : i < j /\ Source(i) # from /\ Source(j) # from => Source(i) < Source(j)
  BY <1>1
<1>5. \A p \in 1 .. n : \E i \in 1 .. n : Source(i) = p
  <2> TAKE p \in 1 .. n
  <2>1. CASE p = from
    BY <1>1, <2>1
  <2>2. CASE from < p /\ p <= to
    <3>1. p - 1 \in 1 .. n /\ Source(p - 1) = p
      BY <1>1, <2>2
    <3>2. QED
      BY <3>1
  <2>3. CASE to <= p /\ p < from
    <3>1. p + 1 \in 1 .. n /\ Source(p + 1) = p
      BY <1>1, <2>3
    <3>2. QED
      BY <3>1
  <2>4. CASE (p < from /\ p < to) \/ (p > from /\ p > to)
    <3>1. Source(p) = p
      BY <1>1, <2>4
    <3>2. QED
      BY <3>1
  <2>5. QED
    BY <1>1, <2>1, <2>2, <2>3, <2>4
<1> HIDE DEF Source
<1>6. \A i \in 1 .. n : old[i] \in S
  BY ListsMembers
<1>7. new \in [1 .. n -> S]
  <2>1. new = [i \in 1 .. n |-> new[i]]
    BY <1>1 DEF Reordered
  <2>2. QED
    BY <1>2, <1>6, <2>1
<1>8. new \in Seq(S) /\ Len(new) = n /\ DOMAIN new = 1 .. n
  BY <1>1, <1>7, FunctionIsSeq
<1>9. \A i, j \in 1 .. n : new[i] = new[j] => i = j
  BY <1>2, <1>3 DEF Lists
<1>10. \A x \in S : \E i \in 1 .. n : new[i] = x
  <2> TAKE x \in S
  <2>1. PICK p \in 1 .. n : old[p] = x
    BY DEF Lists
  <2>2. PICK i \in 1 .. n : Source(i) = p
    BY <1>5
  <2>3. QED
    BY <1>2, <2>1, <2>2
<1>11. Lists(new, S)
  BY <1>1, <1>8, <1>9, <1>10 DEF Lists
<1>12. ASSUME NEW i \in 1 .. n, NEW j \in 1 .. n, i < j, new[i] # old[from], new[j] # old[from]
       PROVE  \E p, q \in 1 .. n : p < q /\ old[p] = new[i] /\ old[q] = new[j]
  <2>1. Source(i) \in 1 .. n /\ Source(j) \in 1 .. n /\ Source(i) < Source(j)
    BY <1>2, <1>4, <1>12
  <2>2. QED
    BY <1>2, <2>1
<1>13. QED
  BY <1>8, <1>11, <1>12 DEF KeepsOrder

LEMMA InsertedLists ==
  ASSUME NEW S, NEW old, Lists(old, S), NEW c, c \notin S,
         NEW t \in Nat, t <= Len(old)
  PROVE  /\ Lists(InsertedAt(old, c, t), S \cup {c})
         /\ KeepsOrder(InsertedAt(old, c, t), old, {c})
<1> DEFINE n == Len(old)
           new == InsertedAt(old, c, t)
           Source(i) == IF i <= t THEN i ELSE i - 1
<1>1. n \in Nat /\ DOMAIN old = 1 .. n
  BY DEF Lists
<1>2. \A i \in 1 .. n + 1 : i # t + 1 => Source(i) \in 1 .. n /\ new[i] = old[Source(i)]
  BY <1>1 DEF InsertedAt
<1>3. t + 1 \in 1 .. n + 1 /\ new[t + 1] = c
  BY <1>1 DEF InsertedAt
<1>4. \A i, j \in 1 .. n + 1 : i # t + 1 /\ j # t + 1 /\ Source(i) = Source(j) => i = j
  BY <1>1
<1>5. \A i, j \in 1 .. n + 1 : i < j /\ i # t + 1 /\ j # t + 1 => Source(i) < Source(j)
  BY <1>1
<1>6. \A p \in 1 .. n : \E i \in 1 .. n + 1 : i # t + 1 /\ Source(i) = p
  <2> TAKE p \in 1 .. n
  <2>1. CASE p <= t
    BY <1>1, <2>1
  <2>2. CASE p > t
    <3>1. p + 1 \in 1 .. n + 1 /\ p + 1 # t + 1 /\ Source(p + 1) = p
      BY <1>1, <2>2
    <3>2. QED
      BY <3>1
  <2>3. QED
    BY <1>1, <2>1, <2>2
<1> HIDE DEF Source
<1>7. \A i \in 1 .. n : old[i] \in S
  BY ListsMembers
<1>8. \A i \in 1 .. n + 1 : new[i] = c <=> i = t + 1
  BY <1>2, <1>3, <1>7
<1>9. new \in [1 .. n + 1 -> S \cup {c}]
  <2>1. new = [i \in 1 .. n + 1 |-> new[i]]
    BY <1>1 DEF InsertedAt
  <2>2. QED
    BY <1>2, <1>3, <1>7, <2>1
<1>10. new \in Seq(S \cup {c}) /\ Len(new) = n + 1 /\ DOMAIN new = 1 .. n + 1
  BY <1>1, <1>9, FunctionIsSeq
<1>11. \A i, j \in 1 .. n + 1 : new[i] = new[j] => i = j
  BY <1>2, <1>4, <1>8 DEF Lists
<1>12. \A x \in S \cup {c} : \E i \in 1 .. n + 1 : new[i] = x
  <2> TAKE x \in S \cup {c}
  <2>1. CASE x = c
    BY <1>3, <2>1
  <2>2. CASE x \in S
    <3>1. PICK p \in 1 .. n : old[p] = x
      BY <2>2 DEF Lists
    <3>2. PICK i \in 1 .. n + 1 : i # t + 1 /\ Source(i) = p
      BY <1>6
    <3>3. QED
      BY <1>2, <3>1, <3>2
  <2>3. QED
    BY <2>1, <2>2
<1>13. Lists(new, S \cup {c})
  BY <1>1, <1>10, <1>11, <1>12 DEF Lists
<1>14. ASSUME NEW i \in 1 .. n + 1, NEW j \in 1 .. n + 1, i < j, new[i] # c, new[j] # c
       PROVE  \E p, q \in 1 .. n : p < q /\ old[p] = new[i] /\ old[q] = new[j]
  <2>1. Source(i) \in 1 .. n /\ Source(j) \in 1 .. n /\ Source(i) < Source(j)
    BY <1>2, <1>5, <1>8, <1>14
  <2>2. QED
    BY <1>2, <1>8, <1>14, <2>1
<1>15. QED
  BY <1>10, <1>13, <1>14 DEF KeepsOrder

LEMMA SlotOrder ==
  ASSUME NEW n \in Nat \ {0}, NEW i \in Nat, NEW j \in Nat, i * n < j * n
  PROVE  i < j
<1>1. CASE i >= j
  <2>1. PICK d \in Nat : i = j + d
    BY <1>1
  <2>2. i * n = j * n + d * n
    BY <2>1
  <2>3. d * n >= 0
    OBVIOUS
  <2>4. QED
    BY <2>2, <2>3
<1>2. QED
  BY <1>1

LEMMA SelectionLists ==
  ASSUME NEW S, IsFiniteSet(S), NEW old, Lists(old, S),
         NEW T, IsFiniteSet(T), NEW sel, Lists(sel, T), NEW before \in Nat,
         NEW new \in WithSelection(old, sel, before)
  PROVE  /\ Lists(new, S \cup T)
         /\ KeepsOrder(new, old, T)
         /\ Promise!Together(new, sel)
<1> DEFINE U == S \cup T
           n == Len(sel) + 1
           key == [c \in U |-> SlotKey(old, sel, before, c)]
           Slot(c) == CHOOSE i \in DOMAIN old : old[i] = c
           Rank(c) == CHOOSE i \in DOMAIN sel : sel[i] = c
<1>1. Members(old) = S /\ Members(sel) = T
  BY ListsMembers
<1>2. n \in Nat \ {0} /\ DOMAIN old = 1 .. Len(old) /\ DOMAIN sel = 1 .. Len(sel)
      /\ Len(old) \in Nat /\ Len(sel) \in Nat
  BY DEF Lists
<1>3. \A c \in S : Slot(c) \in 1 .. Len(old) /\ old[Slot(c)] = c
  BY <1>2 DEF Lists
<1>4. \A c \in T : Rank(c) \in 1 .. Len(sel) /\ sel[Rank(c)] = c
  BY <1>2 DEF Lists
<1>5. \A c \in U : SlotKey(old, sel, before, c) =
                    IF c \in T THEN before * n + Rank(c) ELSE Slot(c) * n
  BY <1>1 DEF SlotKey
<1> HIDE DEF Slot, Rank
<1>6. ASSUME NEW c \in U PROVE SlotKey(old, sel, before, c) \in Int
  <2>1. CASE c \in T
    <3>1. Rank(c) \in Int /\ before * n \in Int
      BY <1>2, <1>4, <2>1
    <3>2. QED
      BY <1>5, <2>1, <3>1
  <2>2. CASE c \notin T
    <3>1. Slot(c) \in Int
      BY <1>2, <1>3, <2>2
    <3>2. Slot(c) * n \in Int
      BY <1>2, <3>1
    <3>3. QED
      BY <1>5, <2>2, <3>2
  <2>3. QED
    BY <2>1, <2>2
<1>7. key \in [U -> Int]
  BY <1>6
<1>8. IsFiniteSet(U)
  BY FS_Union
<1>9. new \in Sorted(U, key)
  BY <1>1 DEF WithSelection
<1>10. Lists(new, U) /\ Increasing(new, key)
  BY <1>7, <1>8, <1>9, SortedLists
<1>11. ASSUME NEW i \in 1 .. Len(new), NEW j \in 1 .. Len(new), i < j,
              new[i] \notin T, new[j] \notin T
       PROVE  \E p, q \in 1 .. Len(old) : p < q /\ old[p] = new[i] /\ old[q] = new[j]
  <2>1. new[i] \in U /\ new[j] \in U
    BY <1>10, ListsMembers
  <2>2. new[i] \in S /\ new[j] \in S
    BY <1>11, <2>1
  <2>3. key[new[i]] < key[new[j]]
    BY <1>10, <1>11 DEF Increasing, Lists
  <2>4. Slot(new[i]) * n < Slot(new[j]) * n
    BY <1>5, <1>11, <2>1, <2>3
  <2>5. Slot(new[i]) \in Nat /\ Slot(new[j]) \in Nat
    BY <1>2, <1>3, <2>2
  <2>6. Slot(new[i]) < Slot(new[j])
    BY <1>2, <2>4, <2>5, SlotOrder
  <2>7. QED
    BY <1>3, <2>2, <2>6
<1>12. ASSUME NEW i \in 1 .. Len(sel) - 1
       PROVE  Promise!Adjoins(new, sel[i], sel[i + 1])
  <2>1. /\ i \in 1 .. Len(sel) /\ i + 1 \in 1 .. Len(sel)
        /\ sel[i] \in T /\ sel[i + 1] \in T
    BY <1>2, ListsMembers
  <2>2. Rank(sel[i]) = i /\ Rank(sel[i + 1]) = i + 1
    BY <1>4, <2>1 DEF Lists
  <2>3. key[sel[i]] = before * n + i /\ key[sel[i + 1]] = before * n + (i + 1)
    BY <1>5, <2>1, <2>2
  <2>4. before * n \in Int
    BY <1>2
  <2>5. key[sel[i + 1]] = key[sel[i]] + 1 /\ key[sel[i]] \in Int
    BY <1>7, <2>1, <2>3, <2>4
  <2>6. PICK x \in 1 .. Len(new), y \in 1 .. Len(new) :
          new[x] = sel[i] /\ new[y] = sel[i + 1]
    BY <1>10, <2>1 DEF Lists
  <2>7. Len(new) \in Nat /\ DOMAIN new = 1 .. Len(new)
    BY <1>10 DEF Lists
  <2>8. \A p, q \in 1 .. Len(new) : p < q => key[new[p]] < key[new[q]]
    BY <1>10, <2>7 DEF Increasing
  <2>9. \A p \in 1 .. Len(new) : key[new[p]] \in Int
    BY <1>7, <1>10, ListsMembers
  <2> HIDE DEF key, n
  <2>10. x # y /\ ~(y < x)
    <3>1. key[new[y]] = key[new[x]] + 1 /\ key[new[x]] \in Int
      BY <2>5, <2>6
    <3>2. ~(key[new[y]] < key[new[x]]) /\ key[new[y]] # key[new[x]]
      BY <3>1
    <3>3. QED
      BY <2>8, <3>2
  <2>11. ~(x + 1 < y)
    <3>1. ASSUME x + 1 < y PROVE FALSE
      <4>1. x + 1 \in 1 .. Len(new) /\ x < x + 1
        BY <2>7, <3>1
      <4>2. key[new[x]] < key[new[x + 1]] /\ key[new[x + 1]] < key[new[y]]
        BY <2>8, <3>1, <4>1
      <4>3. key[new[x + 1]] \in Int
        BY <2>9, <4>1
      <4>4. QED
        BY <2>5, <2>6, <4>2, <4>3
    <3>2. QED
      BY <3>1
  <2>12. y = x + 1
    BY <2>7, <2>10, <2>11
  <2>13. QED
    BY <2>6, <2>7, <2>12 DEF Promise!Adjoins
<1>13. Promise!Together(new, sel)
  BY <1>12 DEF Promise!Together
<1>14. QED
  BY <1>10, <1>11, <1>13 DEF KeepsOrder
-----------------------------------------------------------------------------
(* What the checks of every rewrite establish before its first statement.  *)

\* The cards that are asked to move stand together, in the order asked for.
Selects(sel, arrive, order, advance) ==
  /\ Lists(sel, Members(sel)) /\ sel # <<>>
  /\ Members(sel) = Members(arrive) \cup advance
  /\ Promise!Together(order, sel)

Plan(k, arrive, order, last, advance) ==
  /\ \E sel : Selects(sel, arrive, order, advance)
  /\ k \in Columns /\ last \in Int /\ last >= -1
  /\ Lists(arrive, Members(arrive)) /\ Lists(order, CardsIn(row, k) \cup Members(arrive))
  /\ \A c \in Members(arrive) \cup advance :
       c \in Cards /\ Stored(row[c]) /\ row[c].version <= MutateMax
  /\ advance \subseteq CardsIn(row, k) \ Members(arrive)
  /\ \A c \in CardsIn(row, k) : row[c].pos <= last
  /\ \A i, j \in 1 .. Len(order) :
       i < j /\ order[i] \notin Members(arrive) \cup advance
             /\ order[j] \notin Members(arrive) \cup advance
       => row[order[i]].pos < row[order[j]].pos

LEMMA EmptyLists == Members(<<>>) = {} /\ Lists(<<>>, {})
  BY EmptySeq DEF Members, Lists

LEMMA SingleLists ==
  ASSUME NEW c
  PROVE  Members(<<c>>) = {c} /\ Lists(<<c>>, {c})
<1>1. <<c>> \in [1 .. 1 -> {c}] /\ <<c>>[1] = c
  OBVIOUS
<1>2. <<c>> \in Seq({c}) /\ Len(<<c>>) = 1 /\ DOMAIN <<c>> = 1 .. 1
  BY <1>1, FunctionIsSeq
<1>3. QED
  BY <1>1, <1>2 DEF Members, Lists

\* A single card is a selection that stands together anywhere.
LEMMA SingleSelects ==
  ASSUME NEW c, NEW order
  PROVE  Selects(<<c>>, <<>>, order, {c}) /\ Selects(<<c>>, <<c>>, order, {})
<1>1. Lists(<<c>>, {c}) /\ Members(<<c>>) = {c} /\ Members(<<>>) = {}
  BY SingleLists, EmptyLists
<1>2. Promise!Together(order, <<c>>) /\ <<c>> # <<>>
  <2>1. Len(<<c>>) = 1 /\ 1 .. 1 - 1 = {}
    OBVIOUS
  <2>2. QED
    BY <2>1 DEF Promise!Together
<1>3. QED
  BY <1>1, <1>2 DEF Selects

LEMMA SelectionIsList ==
  ASSUME NEW sel \in Selections
  PROVE  /\ Lists(sel, Members(sel)) /\ IsFiniteSet(Members(sel)) /\ sel # <<>>
         /\ \A c \in Members(sel) : c \in Cards /\ Movable(c)
<1> DEFINE M == {c \in Cards : Movable(c)}
<1>1. Cardinality(Cards) \in Nat
  BY CardColumnAssumption, FS_CardinalityType
<1>2. PICK n \in 1 .. Cardinality(Cards) : sel \in [1 .. n -> M]
  BY DEF Selections
<1>3. n \in Nat
  BY <1>1
<1>4. sel \in Seq(M) /\ Len(sel) = n /\ DOMAIN sel = 1 .. n
  BY <1>2, <1>3, FunctionIsSeq
<1>5. \A i, j \in 1 .. n : sel[i] = sel[j] => i = j
  BY <1>4 DEF Selections
<1>6. Members(sel) \subseteq M
  BY <1>2, <1>4 DEF Members
<1>7. sel \in [1 .. n -> Members(sel)]
  BY <1>2, <1>4 DEF Members
<1>8. sel \in Seq(Members(sel))
  BY <1>3, <1>7, FunctionIsSeq
<1>9. Lists(sel, Members(sel))
  BY <1>3, <1>4, <1>5, <1>8 DEF Lists, Members
<1>10. IsFiniteSet(Members(sel))
  BY <1>6, CardColumnAssumption, FS_Subset
<1>11. sel # <<>>
  BY <1>2, <1>4
<1>12. QED
  BY <1>6, <1>9, <1>10, <1>11

\* The last part of a plan, from the order read and the order made of it.
LEMMA PlanOrder ==
  ASSUME NEW old, NEW new, NEW T, KeepsOrder(new, old, T),
         \A i, j \in 1 .. Len(old) : i < j => row[old[i]].pos < row[old[j]].pos
  PROVE  \A i, j \in 1 .. Len(new) : i < j /\ new[i] \notin T /\ new[j] \notin T
           => row[new[i]].pos < row[new[j]].pos
  BY DEF KeepsOrder

LEMMA ReorderPlan ==
  ASSUME TypeOK, NEW c \in Cards, Movable(c), NEW old \in Orders(row, row[c].column),
         NEW from \in DOMAIN old, NEW to \in DOMAIN old, old[from] = c
  PROVE  Plan(row[c].column, <<>>, Reordered(old, from, to), LastOf(row, old), {c})
<1> DEFINE k == row[c].column
           new == Reordered(old, from, to)
           S == CardsIn(row, k)
<1>1. c \in S /\ k \in Columns
  BY StoredRow DEF TypeOK, Movable, CardsIn
<1>2. /\ Lists(old, S)
      /\ \A i, j \in 1 .. Len(old) : i < j => row[old[i]].pos < row[old[j]].pos
      /\ LastOf(row, old) \in Int /\ LastOf(row, old) >= -1
      /\ \A d \in S : row[d].pos <= LastOf(row, old)
  BY OrderRead DEF TypeOK
<1> HIDE DEF S
<1>3. Lists(new, S) /\ KeepsOrder(new, old, {c})
  BY <1>2, ReorderedLists
<1> HIDE DEF new
<1>4. \A i, j \in 1 .. Len(new) : i < j /\ new[i] \notin {c} /\ new[j] \notin {c}
        => row[new[i]].pos < row[new[j]].pos
  BY <1>2, <1>3, PlanOrder
<1>5. S \cup {} = S /\ {} \cup {c} = {c}
  OBVIOUS
<1>6. Plan(k, <<>>, new, LastOf(row, old), {c})
  <2>1. \E sel : Selects(sel, <<>>, new, {c})
    BY SingleSelects
  <2>2. QED
    BY <1>1, <1>2, <1>3, <1>4, <1>5, <2>1, EmptyLists DEF Plan, Movable, S
<1>7. QED
  BY <1>6 DEF new

LEMMA InsertPlan ==
  ASSUME TypeOK, NEW c \in Cards, Movable(c), NEW k \in Columns, k # row[c].column,
         NEW old \in Orders(row, k), NEW t \in Nat, t <= Len(old)
  PROVE  Plan(k, <<c>>, InsertedAt(old, c, t), LastOf(row, old), {})
<1> DEFINE S == CardsIn(row, k)
           new == InsertedAt(old, c, t)
           one == <<c>>
<1>1. c \notin S
  BY DEF CardsIn
<1>2. /\ Lists(old, S)
      /\ \A i, j \in 1 .. Len(old) : i < j => row[old[i]].pos < row[old[j]].pos
      /\ LastOf(row, old) \in Int /\ LastOf(row, old) >= -1
      /\ \A d \in S : row[d].pos <= LastOf(row, old)
  BY OrderRead DEF TypeOK
<1>3. Members(one) = {c} /\ Lists(one, {c})
      /\ \A order : \E sel : Selects(sel, one, order, {})
  BY SingleLists, SingleSelects
<1> HIDE DEF S, one
<1>4. Lists(new, S \cup {c}) /\ KeepsOrder(new, old, {c})
  BY <1>1, <1>2, InsertedLists
<1> HIDE DEF new
<1>5. \A i, j \in 1 .. Len(new) : i < j /\ new[i] \notin {c} /\ new[j] \notin {c}
        => row[new[i]].pos < row[new[j]].pos
  BY <1>2, <1>4, PlanOrder
<1>6. {c} \cup {} = {c}
  OBVIOUS
<1>7. Plan(k, one, new, LastOf(row, old), {})
  BY <1>1, <1>2, <1>3, <1>4, <1>5, <1>6 DEF Plan, Movable, S
<1>8. QED
  BY <1>7 DEF new, one

LEMMA SelectionPlan ==
  ASSUME TypeOK, NEW sel \in Selections, NEW k \in Columns,
         NEW old \in Orders(row, k), NEW before \in Nat,
         NEW new \in WithSelection(old, sel, before)
  PROVE  Plan(k, sel, new, LastOf(row, old), {})
<1> DEFINE S == CardsIn(row, k)
           T == Members(sel)
<1>1. /\ Lists(sel, T) /\ IsFiniteSet(T) /\ sel # <<>>
      /\ \A c \in T : c \in Cards /\ Movable(c)
  BY SelectionIsList
<1>2. /\ Lists(old, S) /\ IsFiniteSet(S)
      /\ \A i, j \in 1 .. Len(old) : i < j => row[old[i]].pos < row[old[j]].pos
      /\ LastOf(row, old) \in Int /\ LastOf(row, old) >= -1
      /\ \A d \in S : row[d].pos <= LastOf(row, old)
  BY OrderRead, CardsInFinite DEF TypeOK
<1> HIDE DEF S, T
<1>3. /\ Lists(new, S \cup T) /\ KeepsOrder(new, old, T)
      /\ Promise!Together(new, sel)
  BY <1>1, <1>2, SelectionLists
<1>4. \A i, j \in 1 .. Len(new) : i < j /\ new[i] \notin T /\ new[j] \notin T
        => row[new[i]].pos < row[new[j]].pos
  BY <1>2, <1>3, PlanOrder
<1>5. T \cup {} = T
  OBVIOUS
<1>6. Selects(sel, sel, new, {})
  BY <1>1, <1>3, <1>5 DEF Selects, T
<1>7. QED
  BY <1>1, <1>2, <1>3, <1>4, <1>5, <1>6 DEF Plan, Movable, S, T
-----------------------------------------------------------------------------
(* The inductive invariant: how far a rewrite has come.                    *)

ArriveInv ==
  /\ tx.at <= Len(tx.arrive)
  /\ \A c \in Cards : (\A i \in 1 .. tx.at : tx.arrive[i] # c) => work[c] = row[c]
  /\ \A i \in 1 .. tx.at :
       /\ work[tx.arrive[i]].column = tx.column
       /\ work[tx.arrive[i]].version = row[tx.arrive[i]].version + 1
       /\ work[tx.arrive[i]].pos <= tx.last + tx.at

SpreadInv ==
  /\ tx.at <= Len(tx.order)
  /\ \A c \in Cards : c \notin Members(tx.order) => work[c] = row[c]
  /\ \A i \in 1 .. Len(tx.order) :
       /\ work[tx.order[i]].column = tx.column
       /\ tx.order[i] \notin Members(tx.arrive) =>
            work[tx.order[i]].archived = row[tx.order[i]].archived
       /\ work[tx.order[i]].version =
            IF tx.order[i] \in Members(tx.arrive)
            THEN row[tx.order[i]].version + 1 ELSE row[tx.order[i]].version
       /\ IF i <= tx.at THEN work[tx.order[i]].pos = Base + i - 1
                        ELSE work[tx.order[i]].pos < Base

SettleInv ==
  /\ tx.at <= Len(tx.order)
  /\ \A c \in Cards : c \notin Members(tx.order) => work[c] = row[c]
  /\ \A i \in 1 .. Len(tx.order) :
       /\ work[tx.order[i]].column = tx.column
       /\ tx.order[i] \notin Members(tx.arrive) =>
            work[tx.order[i]].archived = row[tx.order[i]].archived
       /\ work[tx.order[i]].version =
            IF tx.order[i] \in Members(tx.arrive) \/ (i <= tx.at /\ tx.order[i] \in tx.advance)
            THEN row[tx.order[i]].version + 1 ELSE row[tx.order[i]].version
       /\ work[tx.order[i]].pos = IF i <= tx.at THEN i - 1 ELSE Base + i - 1

Planned == Plan(tx.column, tx.arrive, tx.order, tx.last, tx.advance)

IInv ==
  /\ TypeOK /\ PositionsDistinct
  /\ tx = NoTx => work = row
  /\ tx # NoTx => Planned
  /\ tx.stage = "arrive" => ArriveInv
  /\ tx.stage = "spread" => SpreadInv
  /\ tx.stage = "settle" => SettleInv

\* A card given a position no other card of its column has.
LEMMA PlacedDistinct ==
  ASSUME NEW rows, Distinct(rows), NEW c \in Cards, NEW r, NEW after,
         after = [d \in Cards |-> IF d = c THEN r ELSE rows[d]],
         \A d \in CardsIn(rows, r.column) : d # c => rows[d].pos # r.pos
  PROVE  Distinct(after)
  BY DEF Distinct, CardsIn

LEMMA NewRow ==
  ASSUME NEW r \in Rows, r.version <= MutateMax, NEW k \in Columns, NEW p \in Nat,
         NEW flag \in BOOLEAN
  PROVE  /\ [r EXCEPT !.column = k, !.pos = p, !.version = @ + 1] \in Rows
         /\ [r EXCEPT !.archived = flag, !.version = @ + 1] \in Rows
         /\ [r EXCEPT !.pos = p, !.version = @ + 1] \in Rows
<1>1. r.version + 1 \in 1 .. MutateMax + 1
  BY CardColumnAssumption DEF Rows
<1>2. QED
  BY <1>1 DEF Rows

LEMMA NextIsFree ==
  ASSUME NEW rows \in [Cards -> Rows \cup {NoRow}], NEW k,
         NEW p \in NextPositions(rows, k), IsNext(rows, k, p)
  PROVE  p \in Nat /\ \A d \in CardsIn(rows, k) : rows[d].pos < p
<1>1. \A d \in CardsIn(rows, k) : rows[d].pos \in Nat
  BY StoredRow DEF CardsIn
<1>2. QED
  BY <1>1 DEF NextPositions, IsNext
-----------------------------------------------------------------------------
(* Transactions of one statement keep the invariant. *)

LEMMA Atomic ==
  ASSUME IInv, tx = NoTx, NEW rows \in [Cards -> Rows \cup {NoRow}], Distinct(rows),
         Atomically(rows)
  PROVE  IInv'
  BY DEF Atomically, IInv, TypeOK, PositionsDistinct, NoTx, Distinct, Stored

LEMMA CreateStep ==
  ASSUME IInv, NEW c \in Cards, NEW k \in Columns, Create(c, k)
  PROVE  IInv'
<1>1. PICK p \in NextPositions(row, k) :
        /\ IsNext(row, k, p)
        /\ Atomically([row EXCEPT ![c] = [column |-> k, pos |-> p,
                                          archived |-> FALSE, version |-> 1]])
  BY DEF Create
<1> DEFINE r == [column |-> k, pos |-> p, archived |-> FALSE, version |-> 1]
           rows == [row EXCEPT ![c] = r]
<1>2. row \in [Cards -> Rows \cup {NoRow}] /\ Distinct(row) /\ tx = NoTx
  BY DEF IInv, TypeOK, PositionsDistinct, Create
<1>3. p \in Nat /\ \A d \in CardsIn(row, k) : row[d].pos < p
  BY <1>1, <1>2, NextIsFree
<1>4. r \in Rows /\ r.column = k /\ r.pos = p
  BY <1>3, CardColumnAssumption DEF Rows
<1>5. rows \in [Cards -> Rows \cup {NoRow}]
  BY <1>2, <1>4
<1>6. rows = [d \in Cards |-> IF d = c THEN r ELSE row[d]]
  BY <1>2
<1>7. \A d \in CardsIn(row, k) : row[d].pos # p
  BY <1>2, <1>3, StoredRow DEF CardsIn
<1> HIDE DEF rows, r
<1>8. Distinct(rows)
  BY <1>2, <1>4, <1>6, <1>7, PlacedDistinct
<1>9. Atomically(rows)
  BY <1>1 DEF rows, r
<1>10. QED
  BY <1>2, <1>5, <1>8, <1>9, Atomic

LEMMA MoveToEndStep ==
  ASSUME IInv, NEW c \in Cards, NEW k \in Columns, MoveToEnd(c, k)
  PROVE  IInv'
<1>1. PICK p \in NextPositions(row, k) :
        /\ IsNext(row, k, p)
        /\ Atomically([row EXCEPT ![c] = [row[c] EXCEPT !.column = k, !.pos = p,
                                                       !.version = @ + 1]])
  BY DEF MoveToEnd
<1> DEFINE r == [row[c] EXCEPT !.column = k, !.pos = p, !.version = @ + 1]
           rows == [row EXCEPT ![c] = r]
<1>2. row \in [Cards -> Rows \cup {NoRow}] /\ Distinct(row) /\ tx = NoTx
  BY DEF IInv, TypeOK, PositionsDistinct, MoveToEnd
<1>3. p \in Nat /\ \A d \in CardsIn(row, k) : row[d].pos < p
  BY <1>1, <1>2, NextIsFree
<1>4. row[c] \in Rows /\ row[c].version <= MutateMax
  BY <1>2, StoredRow DEF MoveToEnd, Movable
<1>5. r \in Rows
  BY <1>3, <1>4, NewRow
<1>6. r.column = k /\ r.pos = p
  BY <1>4 DEF Rows
<1>7. rows \in [Cards -> Rows \cup {NoRow}]
  BY <1>2, <1>5
<1>8. rows = [d \in Cards |-> IF d = c THEN r ELSE row[d]]
  BY <1>2
<1>9. \A d \in CardsIn(row, k) : row[d].pos # p
  BY <1>2, <1>3, StoredRow DEF CardsIn
<1> HIDE DEF rows, r
<1>10. Distinct(rows)
  BY <1>2, <1>6, <1>8, <1>9, PlacedDistinct
<1>11. Atomically(rows)
  BY <1>1 DEF rows, r
<1>12. QED
  BY <1>2, <1>7, <1>10, <1>11, Atomic

LEMMA SetArchivedStep ==
  ASSUME IInv, NEW c \in Cards, NEW flag \in BOOLEAN, SetArchived(c, flag)
  PROVE  IInv'
<1> DEFINE r == [row[c] EXCEPT !.archived = flag, !.version = @ + 1]
           rows == [row EXCEPT ![c] = r]
<1>1. row \in [Cards -> Rows \cup {NoRow}] /\ Distinct(row) /\ tx = NoTx /\ Stored(row[c])
  BY DEF IInv, TypeOK, PositionsDistinct, SetArchived
<1>2. row[c] \in Rows /\ row[c].version <= MutateMax
  BY <1>1, StoredRow DEF SetArchived
<1>3. r \in Rows
  <2>1. 0 \in Nat /\ row[c].column \in Columns
    BY <1>2 DEF Rows
  <2>2. QED
    BY <1>2, <2>1, NewRow
<1>4. r.column = row[c].column /\ r.pos = row[c].pos
  BY <1>2 DEF Rows
<1>5. rows \in [Cards -> Rows \cup {NoRow}]
  BY <1>1, <1>3
<1>6. rows = [d \in Cards |-> IF d = c THEN r ELSE row[d]]
  BY <1>1
<1>7. \A d \in CardsIn(row, r.column) : d # c => row[d].pos # r.pos
  BY <1>1, <1>4 DEF CardsIn, Distinct
<1>8. Atomically(rows)
  BY DEF SetArchived
<1> HIDE DEF rows, r
<1>9. Distinct(rows)
  BY <1>1, <1>6, <1>7, PlacedDistinct
<1>10. QED
  BY <1>1, <1>5, <1>8, <1>9, Atomic
-----------------------------------------------------------------------------
(* The checks of a rewrite, followed by BEGIN's first state. *)

LEMMA RewriteStep ==
  ASSUME IInv, tx = NoTx, NEW k, NEW arrive, NEW explicit \in BOOLEAN, NEW order,
         NEW last, NEW advance, Plan(k, arrive, order, last, advance),
         Rewrite(k, arrive, explicit, order, last, advance)
  PROVE  IInv'
<1>1. row' = row /\ work' = work /\ work = row
  BY DEF Rewrite, IInv
<1>2. Members(arrive) \subseteq Cards /\ CardsIn(row, k) \subseteq Cards
  BY DEF Plan, CardsIn
<1>3. arrive \in Seq(Cards)
  BY <1>2, SeqMonotonic DEF Plan, Lists
<1>4. order \in Seq(Cards)
  <2>1. CardsIn(row, k) \cup Members(arrive) \subseteq Cards
    BY <1>2
  <2>2. order \in Seq(CardsIn(row, k) \cup Members(arrive))
    BY DEF Plan, Lists
  <2>3. QED
    BY <2>1, <2>2, SeqMonotonic
<1>5. tx' = [stage |-> "arrive", at |-> 0, column |-> k, arrive |-> arrive,
             explicit |-> explicit, order |-> order, last |-> last, advance |-> advance]
  BY DEF Rewrite
<1>6. tx' \in Txs
  BY <1>3, <1>4, <1>5 DEF Plan, Txs
<1>7. Planned'
  BY <1>1, <1>5 DEF Planned, Plan, CardsIn
<1>8. Len(arrive) \in Nat
  BY DEF Plan, Lists
<1>9. ArriveInv'
  BY <1>1, <1>5, <1>8 DEF ArriveInv
<1>10. TypeOK' /\ PositionsDistinct'
  BY <1>1, <1>6 DEF IInv, TypeOK, PositionsDistinct, Distinct
<1>11. tx' # NoTx /\ tx'.stage = "arrive"
  BY <1>5 DEF NoTx
<1>12. QED
  BY <1>7, <1>9, <1>10, <1>11 DEF IInv

LEMMA BeginStep ==
  ASSUME IInv
  PROVE  /\ \A c \in Cards, to \in Nat : Reorder(c, to) => IInv'
         /\ \A c \in Cards, k \in Columns, t \in Nat : Insert(c, k, t) => IInv'
         /\ \A sel \in Selections, k \in Columns, before \in Nat :
              MoveSelected(sel, k, before) => IInv'
         /\ \A sel \in Selections, b \in Boards, k \in Columns, before \in Nat :
              TransferSelected(sel, b, k, before) => IInv'
<1> USE DEF IInv
<1>1. ASSUME NEW c \in Cards, NEW to \in Nat, Reorder(c, to) PROVE IInv'
  <2> DEFINE k == row[c].column
  <2>1. PICK old \in Orders(row, k) : \E from \in DOMAIN old :
          /\ old[from] = c /\ to \in DOMAIN old
          /\ Rewrite(k, <<>>, FALSE, Reordered(old, from, to), LastOf(row, old), Advance(c))
    BY <1>1 DEF Reorder
  <2>2. PICK from \in DOMAIN old :
          /\ old[from] = c /\ to \in DOMAIN old
          /\ Rewrite(k, <<>>, FALSE, Reordered(old, from, to), LastOf(row, old), {c})
    BY <2>1 DEF Advance
  <2>3. Movable(c) /\ tx = NoTx
    BY <1>1 DEF Reorder
  <2>4. Plan(k, <<>>, Reordered(old, from, to), LastOf(row, old), {c})
    BY <2>2, <2>3, ReorderPlan
  <2> HIDE DEF IInv
  <2>5. QED
    BY <2>2, <2>3, <2>4, RewriteStep
<1>2. ASSUME NEW c \in Cards, NEW k \in Columns, NEW t \in Nat, Insert(c, k, t) PROVE IInv'
  <2>1. PICK old \in Orders(row, k) :
          /\ t <= Len(old)
          /\ Rewrite(k, <<c>>, FALSE, InsertedAt(old, c, t), LastOf(row, old), {})
    BY <1>2 DEF Insert
  <2>2. Movable(c) /\ tx = NoTx /\ k # row[c].column
    BY <1>2 DEF Insert
  <2>3. Plan(k, <<c>>, InsertedAt(old, c, t), LastOf(row, old), {})
    BY <2>1, <2>2, InsertPlan
  <2> HIDE DEF IInv
  <2>4. QED
    BY <2>1, <2>2, <2>3, RewriteStep
<1>3. ASSUME NEW sel \in Selections, NEW k \in Columns, NEW before \in Nat,
             MoveSelected(sel, k, before)
      PROVE  IInv'
  <2>1. PICK old \in Orders(row, k) : \E new \in WithSelection(old, sel, before) :
          Rewrite(k, sel, FALSE, new, LastOf(row, old), {})
    BY <1>3 DEF MoveSelected
  <2>2. PICK new \in WithSelection(old, sel, before) :
          Rewrite(k, sel, FALSE, new, LastOf(row, old), {})
    BY <2>1
  <2>3. Plan(k, sel, new, LastOf(row, old), {}) /\ tx = NoTx
    BY <1>3, SelectionPlan DEF MoveSelected
  <2> HIDE DEF IInv
  <2>4. QED
    BY <2>2, <2>3, RewriteStep
<1>4. ASSUME NEW sel \in Selections, NEW b \in Boards, NEW k \in Columns, NEW before \in Nat,
             TransferSelected(sel, b, k, before)
      PROVE  IInv'
  <2>1. PICK old \in Orders(row, k) : \E new \in WithSelection(old, sel, before) :
          Rewrite(k, sel, TRUE, new, LastOf(row, old), {})
    BY <1>4 DEF TransferSelected
  <2>2. PICK new \in WithSelection(old, sel, before) :
          Rewrite(k, sel, TRUE, new, LastOf(row, old), {})
    BY <2>1
  <2>3. Plan(k, sel, new, LastOf(row, old), {}) /\ tx = NoTx
    BY <1>4, SelectionPlan DEF TransferSelected
  <2> HIDE DEF IInv
  <2>4. QED
    BY <2>2, <2>3, RewriteStep
<1>5. QED
  BY <1>1, <1>2, <1>3, <1>4
-----------------------------------------------------------------------------
(* The statements of a rewrite keep the invariant. *)

\* A statement changes neither the committed rows nor the plan.
LEMMA PlanStands ==
  ASSUME Planned, row' = row, NEW at, NEW stage,
         tx' = [tx EXCEPT !.at = at] \/ tx' = [tx EXCEPT !.stage = stage, !.at = 0],
         tx \in Txs
  PROVE  /\ Planned' /\ Base' = Base
         /\ tx'.arrive = tx.arrive /\ tx'.order = tx.order /\ tx'.column = tx.column
         /\ tx'.last = tx.last /\ tx'.advance = tx.advance /\ tx'.explicit = tx.explicit
<1>1. /\ tx'.arrive = tx.arrive /\ tx'.order = tx.order /\ tx'.column = tx.column
      /\ tx'.last = tx.last /\ tx'.advance = tx.advance /\ tx'.explicit = tx.explicit
  BY DEF Txs
<1>2. QED
  BY <1>1 DEF Planned, Plan, Base, CardsIn

\* What the plan says of the numbers and cards of a transaction.
LEMMA PlanFacts ==
  ASSUME tx \in Txs, Planned
  PROVE  /\ Len(tx.arrive) \in Nat /\ Len(tx.order) \in Nat /\ tx.at \in Nat
         /\ Base \in Nat /\ tx.last + 1 \in Nat
         /\ \A i \in 1 .. Len(tx.arrive) :
              tx.arrive[i] \in Members(tx.arrive) /\ tx.arrive[i] \in Cards
                /\ Stored(row[tx.arrive[i]]) /\ row[tx.arrive[i]].version <= MutateMax
         /\ \A i, j \in 1 .. Len(tx.arrive) : tx.arrive[i] = tx.arrive[j] => i = j
         /\ \A c \in Members(tx.arrive) : \E i \in 1 .. Len(tx.arrive) : tx.arrive[i] = c
         /\ \A i, j \in 1 .. Len(tx.order) : tx.order[i] = tx.order[j] => i = j
         /\ \A i \in 1 .. Len(tx.order) :
              /\ tx.order[i] \in Members(tx.order) /\ tx.order[i] \in Cards
              /\ Stored(row[tx.order[i]])
              /\ tx.order[i] \notin Members(tx.arrive) => tx.order[i] \in CardsIn(row, tx.column)
         /\ \A c \in Members(tx.order) : \E i \in 1 .. Len(tx.order) : tx.order[i] = c
         /\ CardsIn(row, tx.column) \cup Members(tx.arrive) = Members(tx.order)
<1> DEFINE A == Members(tx.arrive)
           S == CardsIn(row, tx.column)
<1>1. Lists(tx.arrive, A) /\ Lists(tx.order, S \cup A) /\ tx.last \in Int /\ tx.last >= -1
  BY DEF Planned, Plan
<1>2. \A c \in A : c \in Cards /\ Stored(row[c]) /\ row[c].version <= MutateMax
  BY DEF Planned, Plan
<1>3. \A c \in S : c \in Cards /\ Stored(row[c])
  BY DEF CardsIn
<1>4. tx.at \in Nat
  BY DEF Txs
<1> HIDE DEF A, S
<1>5. \A i \in 1 .. Len(tx.arrive) : tx.arrive[i] \in A
  BY <1>1, ListsMembers
<1>6. (\A i \in 1 .. Len(tx.order) : tx.order[i] \in S \cup A) /\ Members(tx.order) = S \cup A
  BY <1>1, ListsMembers
<1>7. Len(tx.arrive) \in Nat /\ Len(tx.order) \in Nat
  BY <1>1 DEF Lists
<1>8. Base \in Nat /\ tx.last + 1 \in Nat
  BY <1>1, <1>7 DEF Base
<1>9. QED
  BY <1>1, <1>2, <1>3, <1>4, <1>5, <1>6, <1>7, <1>8 DEF Lists, A, S

LEMMA TxTyped ==
  ASSUME tx \in Txs, NEW at \in Nat, NEW stage \in {"arrive", "spread", "settle"}
  PROVE  /\ [tx EXCEPT !.at = at] \in Txs /\ [tx EXCEPT !.at = at].at = at
         /\ [tx EXCEPT !.at = at].stage = tx.stage
         /\ [tx EXCEPT !.stage = stage, !.at = 0] \in Txs
         /\ [tx EXCEPT !.stage = stage, !.at = 0].stage = stage
         /\ [tx EXCEPT !.stage = stage, !.at = 0].at = 0
  BY DEF Txs

LEMMA OpenTx ==
  ASSUME IInv, tx.stage \in {"arrive", "spread", "settle"}
  PROVE  /\ tx \in Txs /\ tx # NoTx /\ Planned
         /\ work \in [Cards -> Rows \cup {NoRow}] /\ row \in [Cards -> Rows \cup {NoRow}]
         /\ Distinct(work) /\ Distinct(row)
  BY DEF IInv, TypeOK, NoTx, PositionsDistinct

\* The rows the open transaction sees after one UPDATE of card c to row r.
LEMMA Updated ==
  ASSUME IInv, tx.stage \in {"arrive", "spread", "settle"}, tx' \in Txs, row' = row,
         NEW c \in Cards, NEW r \in Rows, work' = [work EXCEPT ![c] = r],
         \A d \in CardsIn(work, r.column) : d # c => work[d].pos # r.pos
  PROVE  TypeOK' /\ PositionsDistinct'
<1>1. /\ work \in [Cards -> Rows \cup {NoRow}] /\ row \in [Cards -> Rows \cup {NoRow}]
      /\ Distinct(work) /\ Distinct(row)
  BY OpenTx
<1>2. work' = [d \in Cards |-> IF d = c THEN r ELSE work[d]]
  BY <1>1
<1> DEFINE after == [d \in Cards |-> IF d = c THEN r ELSE work[d]]
<1>3. Distinct(after)
  <2>1. after = [d \in Cards |-> IF d = c THEN r ELSE work[d]]
    OBVIOUS
  <2> HIDE DEF after
  <2>2. QED
    BY <1>1, <2>1, PlacedDistinct
<1>4. Distinct(row)'
  BY <1>1 DEF Distinct
<1>5. Distinct(work)'
  <2>1. work' = after
    BY <1>2
  <2>2. QED
    BY <1>3, <2>1 DEF Distinct
<1>6. TypeOK'
  BY <1>1 DEF TypeOK
<1>7. QED
  BY <1>4, <1>5, <1>6 DEF PositionsDistinct

LEMMA ArriveStep ==
  ASSUME IInv, Arrive
  PROVE  IInv'
<1> DEFINE n == tx.at + 1
           c == tx.arrive[n]
           k == tx.column
<1>1. /\ tx \in Txs /\ tx # NoTx /\ Planned /\ ArriveInv
      /\ work \in [Cards -> Rows \cup {NoRow}] /\ row \in [Cards -> Rows \cup {NoRow}]
  BY OpenTx DEF IInv, Arrive
<1>2. n \in 1 .. Len(tx.arrive) /\ tx.at \in Nat
  BY <1>1, PlanFacts DEF Arrive
<1>3. c \in Cards /\ c \in Members(tx.arrive) /\ Stored(row[c]) /\ row[c].version <= MutateMax
  BY <1>1, <1>2, PlanFacts
<1>4. \A i \in 1 .. tx.at : i \in 1 .. Len(tx.arrive) /\ tx.arrive[i] # c
  <2> TAKE i \in 1 .. tx.at
  <2>1. i \in 1 .. Len(tx.arrive) /\ i # n
    <3>1. Len(tx.arrive) \in Nat
      BY <1>1, PlanFacts
    <3>2. QED
      BY <1>2, <3>1
  <2>2. QED
    BY <1>1, <1>2, <2>1, PlanFacts
<1>5. work[c] = row[c] /\ row[c] \in Rows
  BY <1>1, <1>3, <1>4, StoredRow DEF ArriveInv
\* No card of the column is behind the arrivals of before.
<1>6. \A d \in CardsIn(work, k) : work[d].pos <= tx.last + tx.at
  <2> TAKE d \in CardsIn(work, k)
  <2>1. d \in Cards /\ Stored(work[d]) /\ work[d].column = k
    BY DEF CardsIn
  <2>2. CASE \E i \in 1 .. tx.at : tx.arrive[i] = d
    BY <1>1, <2>2 DEF ArriveInv
  <2>3. CASE \A i \in 1 .. tx.at : tx.arrive[i] # d
    <3>1. work[d] = row[d]
      BY <1>1, <2>1, <2>3 DEF ArriveInv
    <3>2. d \in CardsIn(row, k)
      BY <2>1, <3>1 DEF CardsIn
    <3>3. row[d].pos <= tx.last /\ row[d].pos \in Nat /\ tx.last \in Int
      BY <1>1, <2>1, <3>1, <3>2, StoredRow DEF Planned, Plan
    <3>4. QED
      BY <1>2, <3>1, <3>3
  <2>4. QED
    BY <2>2, <2>3
<1>7. PICK p \in {tx.last + 1 + tx.at} \cup NextPositions(work, k) :
        /\ IF tx.explicit THEN p = tx.last + 1 + tx.at ELSE IsNext(work, k, p)
        /\ work' = [work EXCEPT ![c] = [work[c] EXCEPT !.column = k, !.pos = p,
                                                      !.version = @ + 1]]
  BY DEF Arrive
<1>8. \A d \in CardsIn(work, k) : work[d].pos \in Nat
  BY <1>1, StoredRow DEF CardsIn
<1>9. tx.last + 1 \in Nat /\ tx.last \in Int
  BY <1>1, PlanFacts DEF Planned, Plan
<1>10. p \in Nat /\ p <= tx.last + tx.at + 1 /\ \A d \in CardsIn(work, k) : work[d].pos < p
  <2>1. CASE p = tx.last + 1 + tx.at
    BY <1>2, <1>6, <1>8, <1>9, <2>1
  <2>2. CASE IsNext(work, k, p) /\ p # tx.last + 1 + tx.at
    <3>1. p \in NextPositions(work, k)
      BY <2>2
    <3>2. p \in Nat /\ \A d \in CardsIn(work, k) : work[d].pos < p
      BY <1>1, <2>2, <3>1, NextIsFree
    <3>3. CASE p = 0
      BY <1>2, <1>9, <3>2, <3>3
    <3>4. CASE p # 0
      <4>1. PICK d \in CardsIn(work, k) : work[d].pos = p - 1
        BY <2>2, <3>4 DEF IsNext
      <4>2. p - 1 <= tx.last + tx.at
        BY <1>6, <4>1
      <4>3. QED
        BY <1>2, <1>9, <3>2, <4>2
    <3>5. QED
      BY <3>3, <3>4
  <2>3. QED
    BY <1>7, <2>1, <2>2
<1> DEFINE r == [work[c] EXCEPT !.column = k, !.pos = p, !.version = @ + 1]
<1>11. k \in Columns
  BY <1>1 DEF Planned, Plan
<1>12. r \in Rows
  BY <1>3, <1>5, <1>10, <1>11, NewRow
<1>13. r.column = k /\ r.pos = p /\ r.version = row[c].version + 1
  BY <1>5 DEF Rows
<1>14. work' = [work EXCEPT ![c] = r]
  BY <1>7
<1>15. row' = row /\ tx' = [tx EXCEPT !.at = n] /\ n \in Nat /\ tx.stage = "arrive"
  BY <1>2 DEF Arrive, Done
<1>16. tx' \in Txs /\ tx'.at = n /\ tx'.stage = "arrive"
  BY <1>1, <1>15, TxTyped
<1>17. /\ Planned' /\ tx'.arrive = tx.arrive /\ tx'.column = tx.column /\ tx'.last = tx.last
  BY <1>1, <1>15, PlanStands
<1> HIDE DEF r, n, c, k
<1>18. \A d \in CardsIn(work, r.column) : work[d].pos # r.pos
  BY <1>8, <1>10, <1>13
<1>19. TypeOK' /\ PositionsDistinct'
  BY <1>3, <1>12, <1>14, <1>15, <1>16, <1>18, Updated
<1>20. ArriveInv'
  <2>1. n <= Len(tx.arrive)
    BY <1>2, <1>1, PlanFacts
  <2>2. ASSUME NEW d \in Cards, \A i \in 1 .. n : tx.arrive[i] # d PROVE work'[d] = row'[d]
    <3>1. n \in 1 .. n /\ \A i \in 1 .. tx.at : i \in 1 .. n
      BY <1>2 DEF n
    <3>2. d # c /\ \A i \in 1 .. tx.at : tx.arrive[i] # d
      BY <2>2, <3>1 DEF c
    <3>3. QED
      BY <1>1, <1>14, <1>15, <3>2 DEF ArriveInv
  <2>3. ASSUME NEW i \in 1 .. n
        PROVE  /\ work'[tx.arrive[i]].column = k
               /\ work'[tx.arrive[i]].version = row'[tx.arrive[i]].version + 1
               /\ work'[tx.arrive[i]].pos <= tx.last + n
    <3>1. CASE i = n
      <4>1. tx.arrive[i] = c /\ work'[c] = r
        BY <1>1, <1>3, <1>14, <3>1 DEF c
      <4>2. QED
        BY <1>2, <1>9, <1>10, <1>13, <1>15, <4>1 DEF n
    <3>2. CASE i # n
      <4>1. i \in 1 .. tx.at
        BY <1>2, <3>2 DEF n
      <4>2. tx.arrive[i] # c /\ tx.arrive[i] \in Cards
        BY <1>1, <1>4, <4>1, PlanFacts
      <4>3. work'[tx.arrive[i]] = work[tx.arrive[i]]
        BY <1>1, <1>14, <4>2
      <4>4. work[tx.arrive[i]].column = k
        BY <1>1, <4>1 DEF ArriveInv, k
      <4>5. work[tx.arrive[i]].pos \in Nat
        <5>1. Stored(row[tx.arrive[i]])
          BY <1>1, <1>4, <4>1, PlanFacts
        <5>2. row[tx.arrive[i]].version \in Nat
          BY <1>1, <4>2, <5>1, StoredRow DEF Rows
        <5>3. work[tx.arrive[i]].version = row[tx.arrive[i]].version + 1
          BY <1>1, <4>1 DEF ArriveInv
        <5>4. Stored(work[tx.arrive[i]])
          BY <5>2, <5>3 DEF Stored
        <5>5. QED
          BY <1>1, <4>2, <5>4, StoredRow
      <4>6. work'[tx.arrive[i]].column = k
        BY <4>3, <4>4
      <4>7. work'[tx.arrive[i]].version = row'[tx.arrive[i]].version + 1
        BY <1>1, <1>15, <4>1, <4>3 DEF ArriveInv
      <4>8. work[tx.arrive[i]].pos <= tx.last + tx.at
        BY <1>1, <4>1 DEF ArriveInv
      <4>9. work'[tx.arrive[i]].pos <= tx.last + n
        BY <1>2, <1>9, <4>3, <4>5, <4>8 DEF n
      <4>10. QED
        BY <4>6, <4>7, <4>9
    <3>3. QED
      BY <3>1, <3>2
  <2>4. QED
    BY <1>16, <1>17, <2>1, <2>2, <2>3 DEF ArriveInv, k
<1>21. QED
  BY <1>16, <1>17, <1>19, <1>20 DEF IInv, NoTx

\* In the second and third stage the cards of the column are those of order.
LEMMA OrderCards ==
  ASSUME IInv, tx.stage \in {"spread", "settle"}
  PROVE  /\ \A d \in CardsIn(work, tx.column) : \E i \in 1 .. Len(tx.order) : tx.order[i] = d
         /\ \A i \in 1 .. Len(tx.order) :
              Stored(work[tx.order[i]]) /\ work[tx.order[i]] \in Rows
<1>1. /\ tx \in Txs /\ Planned
      /\ work \in [Cards -> Rows \cup {NoRow}] /\ row \in [Cards -> Rows \cup {NoRow}]
  BY OpenTx
<1>2. /\ \A c \in Cards : c \notin Members(tx.order) => work[c] = row[c]
      /\ \A i \in 1 .. Len(tx.order) :
           \/ work[tx.order[i]].version = row[tx.order[i]].version
           \/ work[tx.order[i]].version = row[tx.order[i]].version + 1
  BY DEF IInv, SpreadInv, SettleInv
<1>3. ASSUME NEW d \in CardsIn(work, tx.column)
      PROVE  \E i \in 1 .. Len(tx.order) : tx.order[i] = d
  <2>1. d \in Members(tx.order)
    <3>1. SUFFICES ASSUME d \notin Members(tx.order) PROVE FALSE
      OBVIOUS
    <3>2. d \in CardsIn(row, tx.column)
      BY <1>2, <3>1 DEF CardsIn
    <3>3. QED
      BY <1>1, <3>1, <3>2, PlanFacts
  <2>2. QED
    BY <1>1, <2>1, PlanFacts
<1>4. ASSUME NEW i \in 1 .. Len(tx.order)
      PROVE  Stored(work[tx.order[i]]) /\ work[tx.order[i]] \in Rows
  <2>1. tx.order[i] \in Cards /\ Stored(row[tx.order[i]])
    BY <1>1, PlanFacts
  <2>2. row[tx.order[i]].version \in Nat /\ row[tx.order[i]].version > 0
    BY <1>1, <2>1, StoredRow DEF Stored, Rows
  <2>3. Stored(work[tx.order[i]])
    BY <1>2, <2>2 DEF Stored
  <2>4. QED
    BY <1>1, <2>1, <2>3, StoredRow
<1>5. QED
  BY <1>3, <1>4

LEMMA ArrivedStep ==
  ASSUME IInv, Arrived
  PROVE  IInv'
<1>1. /\ tx \in Txs /\ tx # NoTx /\ Planned /\ ArriveInv
      /\ work \in [Cards -> Rows \cup {NoRow}] /\ row \in [Cards -> Rows \cup {NoRow}]
      /\ Distinct(work) /\ Distinct(row)
  BY OpenTx DEF IInv, Arrived
<1>2. /\ tx.at = Len(tx.arrive) /\ row' = row /\ work' = work
      /\ tx' = [tx EXCEPT !.stage = "spread", !.at = 0]
  BY DEF Arrived, StageDone
<1>3. tx' \in Txs /\ tx'.at = 0 /\ tx'.stage = "spread"
  <2>1. 0 \in Nat /\ "spread" \in {"arrive", "spread", "settle"}
    OBVIOUS
  <2>2. QED
    BY <1>1, <1>2, <2>1, TxTyped
<1>4. /\ Planned' /\ Base' = Base /\ tx'.arrive = tx.arrive /\ tx'.order = tx.order
      /\ tx'.column = tx.column
  BY <1>1, <1>2, PlanStands
<1>5. Members(tx.arrive) \subseteq Members(tx.order) /\ Len(tx.order) \in Nat /\ Len(tx.arrive) \in Nat
  BY <1>1, PlanFacts
<1>6. ASSUME NEW c \in Cards, c \notin Members(tx.order) PROVE work[c] = row[c]
  <2>1. \A j \in 1 .. tx.at : tx.arrive[j] # c
    BY <1>1, <1>2, <1>5, <1>6, PlanFacts
  <2>2. QED
    BY <1>1, <2>1 DEF ArriveInv
<1>7. ASSUME NEW i \in 1 .. Len(tx.order)
      PROVE  /\ work[tx.order[i]].column = tx.column
             /\ tx.order[i] \notin Members(tx.arrive) =>
                  work[tx.order[i]].archived = row[tx.order[i]].archived
             /\ work[tx.order[i]].version =
                  IF tx.order[i] \in Members(tx.arrive)
                  THEN row[tx.order[i]].version + 1 ELSE row[tx.order[i]].version
             /\ work[tx.order[i]].pos < Base
  <2> DEFINE c == tx.order[i]
  <2>1. c \in Cards /\ Stored(row[c]) /\ row[c] \in Rows
    BY <1>1, PlanFacts, StoredRow
  <2>2. Base = tx.last + 1 + Len(tx.arrive) /\ tx.last \in Int /\ Len(tx.arrive) \in Nat
    BY <1>1, <1>5 DEF Base, Planned, Plan
  <2> HIDE DEF c
  <2>3. CASE c \in Members(tx.arrive)
    <3>1. PICK j \in 1 .. Len(tx.arrive) : tx.arrive[j] = c
      BY <1>1, <2>3, PlanFacts
    <3>2. /\ work[c].column = tx.column /\ work[c].version = row[c].version + 1
          /\ work[c].pos <= tx.last + Len(tx.arrive)
      BY <1>1, <1>2, <3>1 DEF ArriveInv
    <3>3. Stored(work[c])
      BY <2>1, <3>2 DEF Stored, Rows
    <3>4. work[c].pos \in Nat
      BY <1>1, <2>1, <3>3, StoredRow
    <3>5. work[c].pos < Base
      BY <2>2, <3>2, <3>4
    <3>6. QED
      BY <2>3, <3>2, <3>5 DEF c
  <2>4. CASE c \notin Members(tx.arrive)
    <3>1. \A j \in 1 .. tx.at : tx.arrive[j] # c
      <4>1. \A j \in 1 .. tx.at : tx.arrive[j] \in Members(tx.arrive)
        BY <1>1, <1>2, PlanFacts
      <4>2. QED
        BY <2>4, <4>1
    <3>2. work[c] = row[c]
      BY <1>1, <2>1, <3>1 DEF ArriveInv
    <3>3. c \in CardsIn(row, tx.column)
      BY <1>1, <2>4, PlanFacts DEF c
    <3>4. row[c].column = tx.column /\ row[c].pos <= tx.last /\ row[c].pos \in Nat
      BY <1>1, <2>1, <3>3, StoredRow DEF CardsIn, Planned, Plan
    <3>5. row[c].pos < Base
      BY <2>2, <3>4
    <3>6. QED
      BY <2>4, <3>2, <3>4, <3>5 DEF c
  <2>5. QED
    BY <2>3, <2>4
<1>8. SpreadInv'
  BY <1>2, <1>3, <1>4, <1>5, <1>6, <1>7 DEF SpreadInv
<1>9. TypeOK' /\ PositionsDistinct'
  BY <1>1, <1>2, <1>3 DEF TypeOK, PositionsDistinct, Distinct
<1>10. QED
  BY <1>3, <1>4, <1>8, <1>9 DEF IInv, NoTx

LEMMA SpreadStep ==
  ASSUME IInv, Spread
  PROVE  IInv'
<1> DEFINE n == tx.at + 1
           c == tx.order[n]
           p == Base + tx.at
           r == [work[c] EXCEPT !.pos = p]
<1>1. /\ tx \in Txs /\ tx # NoTx /\ Planned /\ SpreadInv
      /\ work \in [Cards -> Rows \cup {NoRow}] /\ row \in [Cards -> Rows \cup {NoRow}]
  BY OpenTx DEF IInv, Spread
<1>2. Len(tx.order) \in Nat /\ tx.at \in Nat /\ Base \in Nat
  BY <1>1, PlanFacts
<1>3. n \in 1 .. Len(tx.order) /\ n \in Nat /\ p \in Nat
  BY <1>2 DEF Spread
<1>4. c \in Cards /\ work[c] \in Rows /\ work[c].column = tx.column
  BY <1>1, <1>3, PlanFacts, OrderCards DEF Spread, SpreadInv
<1>5. r \in Rows /\ r.column = tx.column /\ r.pos = p /\ r.version = work[c].version
      /\ r.archived = work[c].archived
  BY <1>3, <1>4 DEF Rows
<1>6. row' = row /\ work' = [work EXCEPT ![c] = r] /\ tx' = [tx EXCEPT !.at = n]
      /\ tx.stage = "spread"
  BY DEF Spread, Done
<1>7. tx' \in Txs /\ tx'.at = n /\ tx'.stage = "spread"
  BY <1>1, <1>3, <1>6, TxTyped
<1>8. /\ Planned' /\ Base' = Base /\ tx'.arrive = tx.arrive /\ tx'.order = tx.order
      /\ tx'.column = tx.column
  BY <1>1, <1>6, PlanStands
<1> HIDE DEF r, p
<1>9. ASSUME NEW d \in CardsIn(work, r.column), d # c PROVE work[d].pos # r.pos
  <2>1. PICK i \in 1 .. Len(tx.order) : tx.order[i] = d
    BY <1>5, <1>6, <1>9, OrderCards
  <2>2. work[d].pos \in Nat
    BY <1>1, <1>6, <2>1, OrderCards DEF Rows
  <2>3. i # n
    BY <1>9, <2>1
  <2>4. CASE i <= tx.at
    BY <1>1, <1>2, <1>5, <2>1, <2>4 DEF SpreadInv, p
  <2>5. CASE ~(i <= tx.at)
    BY <1>1, <1>2, <1>5, <2>1, <2>2, <2>5 DEF SpreadInv, p
  <2>6. QED
    BY <2>4, <2>5
<1>10. TypeOK' /\ PositionsDistinct'
  BY <1>4, <1>5, <1>6, <1>7, <1>9, Updated
<1>11. ASSUME NEW i \in 1 .. Len(tx.order), i # n
       PROVE  work'[tx.order[i]] = work[tx.order[i]]
  BY <1>1, <1>3, <1>6, <1>11, PlanFacts
<1>12. work'[c] = r
  BY <1>1, <1>4, <1>6
<1>13. ASSUME NEW i \in 1 .. Len(tx.order)
       PROVE  /\ work'[tx.order[i]].column = tx.column
              /\ tx.order[i] \notin Members(tx.arrive) =>
                   work'[tx.order[i]].archived = row[tx.order[i]].archived
              /\ work'[tx.order[i]].version =
                   IF tx.order[i] \in Members(tx.arrive)
                   THEN row[tx.order[i]].version + 1 ELSE row[tx.order[i]].version
  <2>1. CASE i = n
    BY <1>1, <1>3, <1>5, <1>12, <2>1 DEF SpreadInv
  <2>2. CASE i # n
    BY <1>1, <1>11, <2>2 DEF SpreadInv
  <2>3. QED
    BY <2>1, <2>2
<1>14. ASSUME NEW i \in 1 .. Len(tx.order)
       PROVE  IF i <= n THEN work'[tx.order[i]].pos = Base + i - 1
                        ELSE work'[tx.order[i]].pos < Base
  <2>1. CASE i = n
    BY <1>2, <1>5, <1>12, <2>1 DEF p
  <2>2. CASE i # n
    <3>1. (i <= n) <=> (i <= tx.at)
      BY <1>2, <2>2
    <3>2. QED
      BY <1>1, <1>11, <2>2, <3>1 DEF SpreadInv
  <2>3. QED
    BY <2>1, <2>2
<1>15. ASSUME NEW d \in Cards, d \notin Members(tx.order) PROVE work'[d] = row[d]
  <2>1. c \in Members(tx.order)
    BY <1>1, <1>3, PlanFacts
  <2>2. QED
    BY <1>1, <1>6, <1>15, <2>1 DEF SpreadInv
<1> HIDE DEF n, c
<1>16. n <= Len(tx.order)
  BY <1>2, <1>3
<1>17. SpreadInv'
  BY <1>6, <1>7, <1>8, <1>13, <1>14, <1>15, <1>16 DEF SpreadInv
<1>18. QED
  BY <1>7, <1>8, <1>10, <1>17 DEF IInv, NoTx

LEMMA HasSpreadStep ==
  ASSUME IInv, HasSpread
  PROVE  IInv'
<1>1. /\ tx \in Txs /\ tx # NoTx /\ Planned /\ SpreadInv
      /\ work \in [Cards -> Rows \cup {NoRow}] /\ row \in [Cards -> Rows \cup {NoRow}]
      /\ Distinct(work) /\ Distinct(row)
  BY OpenTx DEF IInv, HasSpread
<1>2. /\ tx.at = Len(tx.order) /\ row' = row /\ work' = work
      /\ tx' = [tx EXCEPT !.stage = "settle", !.at = 0]
  BY DEF HasSpread, StageDone
<1>3. tx' \in Txs /\ tx'.at = 0 /\ tx'.stage = "settle"
  <2>1. 0 \in Nat /\ "settle" \in {"arrive", "spread", "settle"}
    OBVIOUS
  <2>2. QED
    BY <1>1, <1>2, <2>1, TxTyped
<1>4. /\ Planned' /\ Base' = Base /\ tx'.arrive = tx.arrive /\ tx'.order = tx.order
      /\ tx'.column = tx.column /\ tx'.advance = tx.advance
  BY <1>1, <1>2, PlanStands
<1>5. Len(tx.order) \in Nat
  BY <1>1, PlanFacts
<1>6. SettleInv'
  BY <1>1, <1>2, <1>3, <1>4, <1>5 DEF SpreadInv, SettleInv
<1>7. TypeOK' /\ PositionsDistinct'
  BY <1>1, <1>2, <1>3 DEF TypeOK, PositionsDistinct, Distinct
<1>8. QED
  BY <1>3, <1>4, <1>6, <1>7 DEF IInv, NoTx

LEMMA SettleStep ==
  ASSUME IInv, Settle
  PROVE  IInv'
<1> DEFINE n == tx.at + 1
           c == tx.order[n]
           one == IF c \in tx.advance THEN 1 ELSE 0
           r == [work[c] EXCEPT !.pos = tx.at, !.version = @ + one]
<1>1. /\ tx \in Txs /\ tx # NoTx /\ Planned /\ SettleInv
      /\ work \in [Cards -> Rows \cup {NoRow}] /\ row \in [Cards -> Rows \cup {NoRow}]
  BY OpenTx DEF IInv, Settle
<1>2. Len(tx.order) \in Nat /\ tx.at \in Nat /\ Base \in Nat
  BY <1>1, PlanFacts
<1>3. n \in 1 .. Len(tx.order) /\ n \in Nat
  BY <1>2 DEF Settle
<1>4. c \in Cards /\ work[c] \in Rows /\ work[c].column = tx.column
  BY <1>1, <1>3, PlanFacts, OrderCards DEF Settle, SettleInv
\* Only a card of the column whose version can still advance is advanced.
<1>5. c \in tx.advance =>
        /\ c \notin Members(tx.arrive) /\ row[c].version <= MutateMax
        /\ work[c].version = row[c].version
  <2>1. c \in tx.advance => c \notin Members(tx.arrive) /\ row[c].version <= MutateMax
    BY <1>1 DEF Planned, Plan
  <2>2. ~(n <= tx.at)
    BY <1>2
  <2> HIDE DEF n
  <2>3. QED
    BY <1>1, <1>3, <2>1, <2>2 DEF SettleInv
<1>6. /\ r.column = tx.column /\ r.pos = tx.at /\ r.version = work[c].version + one
      /\ r.archived = work[c].archived
  BY <1>4 DEF Rows
<1>7. r \in Rows
  <2>1. CASE c \in tx.advance
    <3>1. one = 1 /\ work[c].version <= MutateMax
      BY <1>5, <2>1
    <3>2. tx.column \in Columns /\ TRUE \in BOOLEAN
      BY <1>1 DEF Txs
    <3>3. [work[c] EXCEPT !.pos = tx.at, !.version = @ + 1] \in Rows
      BY <1>2, <1>4, <3>1, <3>2, NewRow
    <3>4. QED
      BY <3>1, <3>3
  <2>2. CASE c \notin tx.advance
    <3>1. one = 0 /\ work[c].version \in 1 .. MutateMax + 1 /\ MutateMax \in Nat
      BY <1>4, <2>2, CardColumnAssumption DEF Rows
    <3>2. work[c].version + one \in 1 .. MutateMax + 1
      BY <3>1
    <3> HIDE DEF one
    <3>3. QED
      BY <1>2, <1>4, <3>2 DEF Rows
  <2>3. QED
    BY <2>1, <2>2
<1>8. row' = row /\ work' = [work EXCEPT ![c] = r] /\ tx' = [tx EXCEPT !.at = n]
      /\ tx.stage = "settle"
  BY DEF Settle, Done
<1>9. tx' \in Txs /\ tx'.at = n /\ tx'.stage = "settle"
  BY <1>1, <1>3, <1>8, TxTyped
<1>10. /\ Planned' /\ Base' = Base /\ tx'.arrive = tx.arrive /\ tx'.order = tx.order
       /\ tx'.column = tx.column /\ tx'.advance = tx.advance
  BY <1>1, <1>8, PlanStands
<1> HIDE DEF r
<1>11. ASSUME NEW d \in CardsIn(work, r.column), d # c PROVE work[d].pos # r.pos
  <2>1. PICK i \in 1 .. Len(tx.order) : tx.order[i] = d
    BY <1>6, <1>8, <1>11, OrderCards
  <2>2. i # n
    BY <1>11, <2>1
  <2>3. CASE i <= tx.at
    BY <1>1, <1>2, <1>6, <2>1, <2>3 DEF SettleInv
  <2>4. CASE ~(i <= tx.at)
    <3>1. work[d].pos = Base + i - 1
      BY <1>1, <2>1, <2>4 DEF SettleInv
    <3>2. QED
      BY <1>2, <1>6, <2>2, <2>4, <3>1
  <2>5. QED
    BY <2>3, <2>4
<1>12. TypeOK' /\ PositionsDistinct'
  BY <1>4, <1>7, <1>8, <1>9, <1>11, Updated
<1>13. ASSUME NEW i \in 1 .. Len(tx.order), i # n
       PROVE  work'[tx.order[i]] = work[tx.order[i]]
  BY <1>1, <1>3, <1>8, <1>13, PlanFacts
<1>14. work'[c] = r
  BY <1>1, <1>4, <1>8
<1>15. ASSUME NEW i \in 1 .. Len(tx.order)
       PROVE  /\ work'[tx.order[i]].column = tx.column
              /\ tx.order[i] \notin Members(tx.arrive) =>
                   work'[tx.order[i]].archived = row[tx.order[i]].archived
              /\ work'[tx.order[i]].version =
                   IF tx.order[i] \in Members(tx.arrive) \/ (i <= n /\ tx.order[i] \in tx.advance)
                   THEN row[tx.order[i]].version + 1 ELSE row[tx.order[i]].version
              /\ work'[tx.order[i]].pos = IF i <= n THEN i - 1 ELSE Base + i - 1
  <2>1. CASE i = n
    <3>1. ~(n <= tx.at) /\ n <= n
      BY <1>2
    <3>2. c \notin Members(tx.arrive) => work[c].archived = row[c].archived
      BY <1>1, <1>3 DEF SettleInv
    <3>3. work[c].version =
            IF c \in Members(tx.arrive) THEN row[c].version + 1 ELSE row[c].version
      BY <1>1, <1>3, <3>1 DEF SettleInv
    <3>4. work[c].version \in Int
      BY <1>4 DEF Rows
    <3>5. r.version =
            IF c \in Members(tx.arrive) \/ c \in tx.advance
            THEN row[c].version + 1 ELSE row[c].version
      <4>1. CASE c \in tx.advance
        BY <1>5, <1>6, <4>1
      <4>2. CASE c \notin tx.advance
        BY <1>6, <3>3, <3>4, <4>2
      <4>3. QED
        BY <4>1, <4>2
    <3>6. tx.at = n - 1
      BY <1>2
    <3> HIDE DEF n
    <3>7. QED
      BY <1>6, <1>14, <2>1, <3>1, <3>2, <3>5, <3>6
  <2>2. CASE i # n
    <3>1. (i <= n) <=> (i <= tx.at)
      BY <1>2, <2>2
    <3>2. QED
      BY <1>1, <1>13, <2>2, <3>1 DEF SettleInv
  <2>3. QED
    BY <2>1, <2>2
<1>16. ASSUME NEW d \in Cards, d \notin Members(tx.order) PROVE work'[d] = row[d]
  <2>1. c \in Members(tx.order)
    BY <1>1, <1>3, PlanFacts
  <2>2. QED
    BY <1>1, <1>8, <1>16, <2>1 DEF SettleInv
<1>17. n <= Len(tx.order)
  BY <1>2, <1>3
<1> HIDE DEF n, c, one
<1>18. SettleInv'
  BY <1>8, <1>9, <1>10, <1>15, <1>16, <1>17 DEF SettleInv
<1>19. QED
  BY <1>9, <1>10, <1>12, <1>18 DEF IInv, NoTx

\* At the end of a transaction nothing is left over of it.
LEMMA EndStep ==
  ASSUME IInv, Commit \/ Rollback
  PROVE  IInv'
<1>1. tx' = NoTx /\ work' = row' /\ (row' = row \/ row' = work)
  BY DEF Commit, Rollback
<1>2. TypeOK' /\ PositionsDistinct'
  BY <1>1 DEF IInv, TypeOK, PositionsDistinct, Distinct
<1>3. QED
  BY <1>1, <1>2 DEF IInv, NoTx
-----------------------------------------------------------------------------
LEMMA InitInv == Init => IInv
<1> SUFFICES ASSUME Init PROVE IInv
  OBVIOUS
<1>1. TypeOK /\ work = row /\ tx = NoTx
  BY DEF Init, TypeOK
<1>2. \A c \in Cards : ~Stored(row[c]) /\ ~Stored(work[c])
  BY <1>1 DEF Init, NoRow, Stored
<1>3. PositionsDistinct
  BY <1>2 DEF PositionsDistinct, Distinct
<1>4. QED
  BY <1>1, <1>3 DEF IInv, NoTx

LEMMA NextInv == IInv /\ [Next]_vars => IInv'
<1> SUFFICES ASSUME IInv, [Next]_vars PROVE IInv'
  OBVIOUS
<1>1. 1 .. Cardinality(Cards) \subseteq Nat /\ 0 .. Cardinality(Cards) \subseteq Nat
  BY CardColumnAssumption, FS_CardinalityType
<1>2. CASE \E c \in Cards, k \in Columns : Create(c, k) \/ MoveToEnd(c, k)
  BY <1>2, CreateStep, MoveToEndStep
<1>3. CASE \E c \in Cards : ArchiveCard(c) \/ RestoreCard(c)
  BY <1>3, SetArchivedStep DEF ArchiveCard, RestoreCard
<1>4. CASE \E c \in Cards, to \in 1 .. Cardinality(Cards) : Reorder(c, to)
  BY <1>1, <1>4, BeginStep
<1>5. CASE \E k \in Columns, before \in 0 .. Cardinality(Cards) :
             \/ \E c \in Cards : Insert(c, k, before)
             \/ \E sel \in Selections :
                  \/ MoveSelected(sel, k, before)
                  \/ \E b \in Boards : TransferSelected(sel, b, k, before)
  BY <1>1, <1>5, BeginStep
<1>6. CASE Arrive \/ Arrived \/ Spread \/ HasSpread \/ Settle \/ Commit \/ Rollback
  BY <1>6, ArriveStep, ArrivedStep, SpreadStep, HasSpreadStep, SettleStep, EndStep
<1>7. CASE UNCHANGED vars
  <2>1. row' = row /\ work' = work /\ tx' = tx
    BY <1>7 DEF vars
  <2>2. TypeOK' /\ PositionsDistinct' /\ (tx # NoTx => Planned') /\ Base' = Base
    BY <2>1 DEF IInv, TypeOK, PositionsDistinct, Distinct, Planned, Plan, CardsIn, Base
  <2>3. QED
    BY <2>1, <2>2 DEF IInv, ArriveInv, SpreadInv, SettleInv
<1>8. QED
  BY <1>2, <1>3, <1>4, <1>5, <1>6, <1>7 DEF Next

\* In every reachable state the rows and the open transaction have their types.
THEOREM TypeCorrect == Spec => []TypeOK
<1>1. IInv => TypeOK
  BY DEF IInv
<1>2. QED
  BY <1>1, InitInv, NextInv, PTL DEF Spec

\* However many cards and columns there are, and between any two statements of
\* a rewrite, no two cards of a column have the same position: the constraint
\* UNIQUE(list_id, swimlane_id, position) never makes a statement fail.
THEOREM PositionsStayDistinct == Spec => []PositionsDistinct
<1>1. IInv => PositionsDistinct
  BY DEF IInv
<1>2. QED
  BY <1>1, InitInv, NextInv, PTL DEF Spec
-----------------------------------------------------------------------------
(* What a committed rewrite means to the holder of an old version. *)

KeepsUnversioned == \A c \in Cards : Unversioned(c) => SameToItsHolder(c)

\* No step but the transactions of one statement and Commit touches a row.
LEMMA RowUntouched ==
  ASSUME row' = row
  PROVE  KeepsUnversioned
  BY DEF KeepsUnversioned, SameToItsHolder

\* One card gets a row of another version.
LEMMA OneRowVersioned ==
  ASSUME NEW c \in Cards, row \in [Cards -> Rows \cup {NoRow}], NEW r,
         row' = [row EXCEPT ![c] = r], Stored(row[c]) => r.version # row[c].version
  PROVE  KeepsUnversioned
<1>1. \A d \in Cards : Unversioned(d) => row'[d] = row[d]
  BY DEF Unversioned
<1>2. QED
  BY <1>1 DEF KeepsUnversioned, SameToItsHolder

\* The cards of the rewritten column whose version stands are neither arrivals
\* nor advanced ones, and the plan keeps these in their order.
LEMMA CommitKeeps ==
  ASSUME IInv, Commit
  PROVE  KeepsUnversioned
<1> DEFINE k == tx.column
           Fixed(i) == tx.order[i] \notin Members(tx.arrive) \cup tx.advance
<1>1. /\ tx \in Txs /\ Planned /\ SettleInv
      /\ work \in [Cards -> Rows \cup {NoRow}] /\ row \in [Cards -> Rows \cup {NoRow}]
  BY OpenTx DEF IInv, Commit
<1>2. row' = work /\ tx.at = Len(tx.order) /\ Len(tx.order) \in Nat
  BY <1>1, PlanFacts DEF Commit
<1>3. ASSUME NEW i \in 1 .. Len(tx.order)
      PROVE  /\ work[tx.order[i]].column = k /\ work[tx.order[i]].pos = i - 1
             /\ Fixed(i) => work[tx.order[i]].archived = row[tx.order[i]].archived
             /\ ~Fixed(i) => work[tx.order[i]].version = row[tx.order[i]].version + 1
  BY <1>1, <1>2 DEF SettleInv
<1>4. \A i \in 1 .. Len(tx.order) :
        /\ tx.order[i] \in Cards /\ Stored(row[tx.order[i]])
        /\ row[tx.order[i]].version \in Nat /\ row[tx.order[i]].pos \in Nat
        /\ Fixed(i) => tx.order[i] \in CardsIn(row, k)
  <2> TAKE i \in 1 .. Len(tx.order)
  <2>1. tx.order[i] \in Cards /\ Stored(row[tx.order[i]])
    BY <1>1, PlanFacts
  <2>2. row[tx.order[i]].version \in Nat /\ row[tx.order[i]].pos \in Nat
    BY <1>1, <2>1, StoredRow DEF Rows
  <2>3. Fixed(i) => tx.order[i] \in CardsIn(row, k)
    BY <1>1, PlanFacts
  <2>4. QED
    BY <2>1, <2>2, <2>3
<1>5. \A i, j \in 1 .. Len(tx.order) : i < j /\ Fixed(i) /\ Fixed(j)
        => row[tx.order[i]].pos < row[tx.order[j]].pos
  BY <1>1 DEF Planned, Plan
<1>6. \A d \in Cards : d \notin Members(tx.order) => work[d] = row[d] /\ d \notin CardsIn(row, k)
  BY <1>1, PlanFacts DEF SettleInv
<1>7. \A d \in Members(tx.order) : \E i \in 1 .. Len(tx.order) : tx.order[i] = d
  BY <1>1, PlanFacts
<1>8. \A i \in 1 .. Len(tx.order) : Unversioned(tx.order[i]) => Fixed(i)
  BY <1>2, <1>3, <1>4 DEF Unversioned
<1>9. \A d \in Members(tx.order) : Unversioned(d) => d \in CardsIn(row, k)
  BY <1>4, <1>7, <1>8
<1> HIDE DEF Fixed, k
<1>10. ASSUME NEW c \in Cards, Unversioned(c) PROVE SameToItsHolder(c)
  <2>1. CASE c \notin Members(tx.order)
    <3>1. work[c] = row[c] /\ row[c].column # k
      BY <1>6, <1>10, <2>1 DEF CardsIn, Unversioned
    <3>2. ASSUME NEW d \in Cards, Unversioned(d), row[d].column = row[c].column
          PROVE  work[d] = row[d]
      <4>1. d \notin CardsIn(row, k)
        BY <3>1, <3>2 DEF CardsIn
      <4>2. d \notin Members(tx.order)
        BY <1>9, <3>2, <4>1
      <4>3. QED
        BY <1>6, <4>2
    <3>3. QED
      BY <1>2, <3>1, <3>2 DEF SameToItsHolder
  <2>2. CASE c \in Members(tx.order)
    <3>1. PICK i \in 1 .. Len(tx.order) : tx.order[i] = c
      BY <1>7, <2>2
    <3>2. Fixed(i) /\ row[c].column = k
      BY <1>8, <1>9, <1>10, <2>2, <3>1 DEF CardsIn
    <3>3. work[c].column = k /\ work[c].archived = row[c].archived /\ work[c].pos = i - 1
      BY <1>3, <3>1, <3>2
    <3>4. ASSUME NEW d \in Cards, Unversioned(d), row[d].column = row[c].column
          PROVE  row[c].pos < row[d].pos <=> work[c].pos < work[d].pos
      <4>1. d \in CardsIn(row, k)
        BY <3>2, <3>4 DEF CardsIn, Unversioned
      <4>2. d \in Members(tx.order)
        BY <1>6, <4>1
      <4>3. PICK j \in 1 .. Len(tx.order) : tx.order[j] = d
        BY <1>7, <4>2
      <4>4. Fixed(j) /\ work[d].pos = j - 1
        BY <1>3, <1>8, <3>4, <4>3
      <4>5. row[c].pos \in Nat /\ row[d].pos \in Nat
        BY <1>4, <3>1, <4>3
      <4>6. CASE i < j
        BY <1>5, <3>1, <3>2, <3>3, <4>3, <4>4, <4>6
      <4>7. CASE j < i
        BY <1>5, <3>1, <3>2, <3>3, <4>3, <4>4, <4>5, <4>7
      <4>8. CASE i = j
        BY <3>1, <4>3, <4>4, <3>3, <4>5, <4>8
      <4>9. QED
        BY <1>2, <4>6, <4>7, <4>8
    <3>5. QED
      BY <1>2, <3>2, <3>3, <3>4 DEF SameToItsHolder
  <2>3. QED
    BY <2>1, <2>2
<1>11. QED
  BY <1>10 DEF KeepsUnversioned

LEMMA NextKeeps == IInv /\ [Next]_vars => KeepsUnversioned
<1> SUFFICES ASSUME IInv, [Next]_vars PROVE KeepsUnversioned
  OBVIOUS
<1>1. row \in [Cards -> Rows \cup {NoRow}]
  BY DEF IInv, TypeOK
<1>2. ASSUME NEW c \in Cards, NEW k \in Columns, Create(c, k) PROVE KeepsUnversioned
  <2>1. ~Stored(row[c]) /\ \E r : row' = [row EXCEPT ![c] = r]
    BY <1>2 DEF Create, Atomically
  <2>2. QED
    BY <1>1, <2>1, OneRowVersioned
<1>3. ASSUME NEW c \in Cards, NEW k \in Columns, MoveToEnd(c, k) PROVE KeepsUnversioned
  <2>1. PICK p : row' = [row EXCEPT ![c] = [row[c] EXCEPT !.column = k, !.pos = p,
                                                         !.version = @ + 1]]
    BY <1>3 DEF MoveToEnd, Atomically
  <2> DEFINE r == [row[c] EXCEPT !.column = k, !.pos = p, !.version = @ + 1]
  <2>2. row[c] \in Rows /\ row[c].version \in Int
    BY <1>1, <1>3, StoredRow DEF MoveToEnd, Movable, Rows
  <2>3. r.version # row[c].version /\ row' = [row EXCEPT ![c] = r]
    BY <2>1, <2>2 DEF Rows
  <2> HIDE DEF r
  <2>4. QED
    BY <1>1, <2>3, OneRowVersioned
<1>4. ASSUME NEW c \in Cards, NEW flag, SetArchived(c, flag) PROVE KeepsUnversioned
  <2> DEFINE r == [row[c] EXCEPT !.archived = flag, !.version = @ + 1]
  <2>1. row' = [row EXCEPT ![c] = r]
    BY <1>4 DEF SetArchived, Atomically
  <2>2. row[c] \in Rows /\ row[c].version \in Int
    BY <1>1, <1>4, StoredRow DEF SetArchived, Rows
  <2>3. r.version # row[c].version
    BY <2>2 DEF Rows
  <2> HIDE DEF r
  <2>4. QED
    BY <1>1, <2>1, <2>3, OneRowVersioned
<1>5. CASE \E c \in Cards, to \in 1 .. Cardinality(Cards) : Reorder(c, to)
  BY <1>5, RowUntouched DEF Reorder, Rewrite
<1>6. CASE \E k \in Columns, before \in 0 .. Cardinality(Cards) :
             \/ \E c \in Cards : Insert(c, k, before)
             \/ \E sel \in Selections :
                  \/ MoveSelected(sel, k, before)
                  \/ \E b \in Boards : TransferSelected(sel, b, k, before)
  BY <1>6, RowUntouched DEF Insert, MoveSelected, TransferSelected, Rewrite
<1>7. CASE Arrive \/ Arrived \/ Spread \/ HasSpread \/ Settle \/ Rollback
  BY <1>7, RowUntouched DEF Arrive, Arrived, Spread, HasSpread, Settle, Rollback
<1>8. CASE UNCHANGED vars
  BY <1>8, RowUntouched DEF vars
<1>9. QED
  BY <1>2, <1>3, <1>4, <1>5, <1>6, <1>7, <1>8, CommitKeeps DEF Next, ArchiveCard, RestoreCard

\* A committed transaction that leaves a card's version as it was leaves the
\* card's column, its archival and its order among all such cards as they were,
\* in every column and for every plan: who holds the version holds the truth.
THEOREM UnversionedCardsKeepOrder == Spec => UnversionedKeepOrder
<1>1. IInv /\ [Next]_vars => [\A c \in Cards : Unversioned(c) => SameToItsHolder(c)]_vars
  BY NextKeeps DEF KeepsUnversioned
<1>2. QED
  BY <1>1, InitInv, NextInv, PTL DEF Spec, UnversionedKeepOrder
-----------------------------------------------------------------------------
(* The order of a column is the only listing of its cards with ascending   *)
(* positions.                                                              *)

Typed(rows) == rows \in [Cards -> Rows \cup {NoRow}]

Reads(s, rows, k) ==
  /\ Lists(s, CardsIn(rows, k))
  /\ \A i, j \in 1 .. Len(s) : i < j => rows[s[i]].pos < rows[s[j]].pos

LEMMA CardsTyped ==
  ASSUME NEW rows, Typed(rows), NEW k
  PROVE  \A c \in CardsIn(rows, k) :
           /\ c \in Cards /\ rows[c].column = k /\ rows[c].pos \in Nat
           /\ Before(rows, c) = {d \in CardsIn(rows, k) : rows[d].pos < rows[c].pos}
<1> SUFFICES ASSUME NEW c \in CardsIn(rows, k)
             PROVE  /\ c \in Cards /\ rows[c].column = k /\ rows[c].pos \in Nat
                    /\ Before(rows, c) =
                         {d \in CardsIn(rows, k) : rows[d].pos < rows[c].pos}
  OBVIOUS
<1>1. c \in Cards /\ rows[c].column = k /\ Stored(rows[c])
  BY DEF CardsIn
<1>2. rows[c].pos \in Nat
  BY <1>1, StoredRow DEF Typed
<1>3. QED
  BY <1>1, <1>2 DEF Before

\* A list of a set is as long as the set is large.
LEMMA ListLength ==
  ASSUME NEW S, NEW s, Lists(s, S)
  PROVE  IsFiniteSet(S) /\ Cardinality(S) = Len(s) /\ s \in [1 .. Len(s) -> S]
<1>1. s \in [1 .. Len(s) -> S] /\ Len(s) \in Nat
  BY ListsMembers DEF Lists
<1>2. s \in Bijection(1 .. Len(s), S)
  BY <1>1 DEF Lists, Bijection, Injection, Surjection, IsInjective
<1>3. ExistsBijection(1 .. Len(s), S)
  BY <1>2 DEF ExistsBijection
<1>4. QED
  BY <1>1, <1>3, FS_CountingElements, FS_NatBijection

\* The card at place i has exactly i - 1 cards of its column before it.
LEMMA PlaceIsRank ==
  ASSUME NEW rows, Typed(rows), NEW k, NEW s, Reads(s, rows, k),
         NEW i \in 1 .. Len(s)
  PROVE  Cardinality(Before(rows, s[i])) = i - 1
<1> DEFINE f == [j \in 1 .. i - 1 |-> s[j]]
           T == Before(rows, s[i])
           S == CardsIn(rows, k)
<1>1. /\ Len(s) \in Nat /\ \A j \in 1 .. Len(s) : s[j] \in S
      /\ \A j, m \in 1 .. Len(s) : s[j] = s[m] => j = m
      /\ \A c \in S : \E j \in 1 .. Len(s) : s[j] = c
      /\ \A j, m \in 1 .. Len(s) : j < m => rows[s[j]].pos < rows[s[m]].pos
  BY ListsMembers DEF Reads, Lists
<1>2. T = {d \in S : rows[d].pos < rows[s[i]].pos}
  BY <1>1, CardsTyped
<1>3. \A c \in S : rows[c].pos \in Nat
  BY CardsTyped
<1> HIDE DEF T, S
<1>4. i \in Nat /\ i - 1 \in Nat /\ \A j \in 1 .. i - 1 : j \in 1 .. Len(s) /\ j < i
  BY <1>1
<1>5. \A j \in 1 .. i - 1 : s[j] \in T
  BY <1>1, <1>2, <1>4
<1>6. ASSUME NEW c \in T PROVE \E j \in 1 .. i - 1 : s[j] = c
  <2>1. c \in S /\ rows[c].pos < rows[s[i]].pos
    BY <1>2
  <2>2. PICK j \in 1 .. Len(s) : s[j] = c
    BY <1>1, <2>1
  <2>3. rows[c].pos \in Nat /\ rows[s[i]].pos \in Nat
    BY <1>1, <1>3, <2>1
  <2>4. j # i /\ ~(i < j)
    BY <1>1, <2>1, <2>2, <2>3
  <2>5. QED
    BY <1>1, <1>4, <2>2, <2>4
<1>7. \A j, m \in 1 .. i - 1 : s[j] = s[m] => j = m
  BY <1>1, <1>4
<1>8. f \in Bijection(1 .. i - 1, T)
  BY <1>5, <1>6, <1>7 DEF Bijection, Injection, Surjection, IsInjective
<1> HIDE DEF f
<1>9. ExistsBijection(1 .. i - 1, T)
  BY <1>8 DEF ExistsBijection
<1>10. Cardinality(T) = i - 1
  BY <1>4, <1>9, FS_CountingElements
<1>11. QED
  BY <1>10 DEF T

LEMMA OnlyReading ==
  ASSUME NEW rows, Typed(rows), NEW k, NEW s, Reads(s, rows, k)
  PROVE  s = OrderOf(rows, k)
<1> DEFINE n == Len(s)
           S == CardsIn(rows, k)
           At(i) == CHOOSE c \in S : Cardinality(Before(rows, c)) = i - 1
<1>1. n \in Nat /\ Cardinality(S) = n /\ s \in [1 .. n -> S]
      /\ \A c \in S : \E j \in 1 .. n : s[j] = c
  BY ListLength DEF Reads, Lists
<1>2. \A i \in 1 .. n : Cardinality(Before(rows, s[i])) = i - 1
  BY PlaceIsRank
<1> HIDE DEF n, S
<1>3. ASSUME NEW i \in 1 .. n PROVE s[i] = At(i)
  <2>1. s[i] \in S /\ Cardinality(Before(rows, s[i])) = i - 1
    BY <1>1, <1>2
  <2>2. ASSUME NEW c \in S, Cardinality(Before(rows, c)) = i - 1 PROVE c = s[i]
    <3>1. PICK j \in 1 .. n : s[j] = c
      BY <1>1
    <3>2. j - 1 = i - 1
      BY <1>2, <2>2, <3>1
    <3>3. QED
      BY <1>1, <3>1, <3>2
  <2>3. QED
    BY <2>1, <2>2
<1> HIDE DEF At
<1>4. s = [i \in 1 .. n |-> At(i)]
  BY <1>1, <1>3
<1>5. OrderOf(rows, k) = [i \in 1 .. n |-> At(i)]
  BY <1>1 DEF OrderOf, Count, At, S
<1>6. QED
  BY <1>4, <1>5

LEMMA OrderReads ==
  ASSUME NEW rows, Typed(rows), Distinct(rows), NEW k
  PROVE  Reads(OrderOf(rows, k), rows, k)
<1> DEFINE S == CardsIn(rows, k)
           n == Cardinality(S)
           Rank(c) == Cardinality(Before(rows, c))
           f == [c \in S |-> Rank(c) + 1]
           s == OrderOf(rows, k)
<1>1. /\ IsFiniteSet(S) /\ n \in Nat
      /\ s = [i \in 1 .. n |-> CHOOSE c \in S : Rank(c) = i - 1]
  BY CardsInFinite, FS_CardinalityType DEF OrderOf, Count
<1>2. \A c \in S : /\ rows[c].pos \in Nat
                   /\ Before(rows, c) = {d \in S : rows[d].pos < rows[c].pos}
  BY CardsTyped
<1>3. \A c, d \in S : rows[c].pos = rows[d].pos => c = d
  BY DEF CardsIn, Distinct
<1> HIDE DEF S, s
<1>4. ASSUME NEW c \in S
      PROVE  IsFiniteSet(Before(rows, c)) /\ Rank(c) \in Nat /\ Rank(c) + 1 \in 1 .. n
  <2>1. Before(rows, c) \in SUBSET (S \ {c})
    BY <1>2
  <2>2. IsFiniteSet(S \ {c}) /\ Cardinality(S \ {c}) = n - 1
    BY <1>1, FS_RemoveElement
  <2>3. IsFiniteSet(Before(rows, c)) /\ Rank(c) <= n - 1
    BY <2>1, <2>2, FS_Subset
  <2>4. Rank(c) \in Nat
    BY <2>3, FS_CardinalityType
  <2>5. QED
    BY <1>1, <2>3, <2>4
<1>5. ASSUME NEW c \in S, NEW d \in S, rows[c].pos < rows[d].pos
      PROVE  Rank(c) < Rank(d)
  <2>1. /\ Before(rows, c) \cup {c} \in SUBSET Before(rows, d)
        /\ c \notin Before(rows, c)
    BY <1>2, <1>5
  <2>2. Cardinality(Before(rows, c) \cup {c}) = Rank(c) + 1
    BY <1>4, <2>1, FS_AddElement
  <2>3. Rank(c) + 1 <= Rank(d)
    BY <1>4, <2>1, <2>2, FS_Subset
  <2>4. Rank(c) \in Nat /\ Rank(d) \in Nat
    BY <1>4
  <2> HIDE DEF Rank
  <2>5. QED
    BY <2>3, <2>4
<1>6. ASSUME NEW c \in S, NEW d \in S, Rank(c) = Rank(d) PROVE c = d
  <2>1. ~(rows[c].pos < rows[d].pos) /\ ~(rows[d].pos < rows[c].pos)
    BY <1>4, <1>5, <1>6
  <2>2. QED
    BY <1>2, <1>3, <2>1
<1>7. f \in Surjection(S, 1 .. n)
  <2>1. \A c \in S : Rank(c) + 1 \in 1 .. n /\ Rank(c) \in Nat
    BY <1>4
  <2>2. IsFiniteSet(1 .. n) /\ Cardinality(1 .. n) = n
    BY <1>1, FS_Interval
  <2> HIDE DEF Rank
  <2>3. \A c, d \in S : Rank(c) + 1 = Rank(d) + 1 => c = d
    BY <1>6, <2>1
  <2>4. f \in Injection(S, 1 .. n)
    BY <2>1, <2>3 DEF Injection, IsInjective
  <2> HIDE DEF f, n
  <2>5. QED
    BY <1>1, <2>2, <2>4, FS_Injection DEF n
<1>8. ASSUME NEW i \in 1 .. n PROVE \E c \in S : Rank(c) = i - 1
  <2>1. PICK c \in S : f[c] = i
    BY <1>7 DEF Surjection
  <2>2. Rank(c) + 1 = i /\ Rank(c) \in Nat
    BY <1>4, <2>1
  <2> HIDE DEF Rank
  <2>3. QED
    BY <2>2
<1> HIDE DEF n, f
<1>9. \A i \in 1 .. n : s[i] \in S /\ Rank(s[i]) = i - 1
  BY <1>1, <1>8
<1>10. s \in Seq(S) /\ Len(s) = n /\ DOMAIN s = 1 .. n
  <2>1. s \in [1 .. n -> S]
    BY <1>1, <1>9
  <2>2. QED
    BY <1>1, <2>1, FunctionIsSeq
<1>11. ASSUME NEW i \in 1 .. n, NEW j \in 1 .. n, i < j
       PROVE  rows[s[i]].pos < rows[s[j]].pos
  <2>1. s[i] \in S /\ s[j] \in S /\ Rank(s[i]) = i - 1 /\ Rank(s[j]) = j - 1
    BY <1>9
  <2>2. s[i] # s[j]
    BY <1>1, <1>11, <2>1
  <2>3. ~(rows[s[j]].pos < rows[s[i]].pos)
    BY <1>1, <1>5, <1>11, <2>1
  <2>4. rows[s[i]].pos \in Nat /\ rows[s[j]].pos \in Nat
        /\ rows[s[i]].pos # rows[s[j]].pos
    BY <1>2, <1>3, <2>1, <2>2
  <2>5. QED
    BY <2>3, <2>4
<1>12. ASSUME NEW c \in S PROVE \E i \in 1 .. n : s[i] = c
  <2>1. Rank(c) + 1 \in 1 .. n /\ Rank(c) \in Nat
    BY <1>1, <1>4 DEF n
  <2> HIDE DEF Rank
  <2>2. s[Rank(c) + 1] \in S /\ Rank(s[Rank(c) + 1]) = Rank(c) + 1 - 1
    BY <1>9, <2>1
  <2>3. QED
    BY <1>6, <2>1, <2>2
<1>13. \A i, j \in 1 .. n : s[i] = s[j] => i = j
  <2> SUFFICES ASSUME NEW i \in 1 .. n, NEW j \in 1 .. n, s[i] = s[j] PROVE i = j
    OBVIOUS
  <2>1. i - 1 = j - 1
    BY <1>9
  <2>2. QED
    BY <1>1, <2>1 DEF n
<1>14. Reads(s, rows, k)
  BY <1>1, <1>10, <1>11, <1>12, <1>13 DEF Reads, Lists, S, n
<1>15. QED
  BY <1>14 DEF s
-----------------------------------------------------------------------------
(* Every step is a step of ColumnOrder, or leaves the committed rows alone. *)

\* Both sides of a step, as far as the committed rows go.
RowsGood == Typed(row) /\ Distinct(row) /\ Typed(row') /\ Distinct(row')

LEMMA InvGood == IInv /\ IInv' => RowsGood
  BY DEF IInv, TypeOK, PositionsDistinct, RowsGood, Typed, Distinct

LEMMA VersionIsNat ==
  ASSUME NEW rows, Typed(rows), NEW c \in Cards
  PROVE  rows[c].version \in Nat /\ (Stored(rows[c]) <=> rows[c].version > 0)
<1>1. CASE rows[c] \in Rows
  BY <1>1 DEF Rows, Stored
<1>2. CASE rows[c] = NoRow
  BY <1>2 DEF NoRow, Stored
<1>3. QED
  BY <1>1, <1>2 DEF Typed

LEMMA CreatedAre == Promise!Created = {c \in Cards : Stored(row[c])}
  BY DEF Promise!Created, Stored

\* The cards of M get their next version, and no other card another.
Turned(M) ==
  \A c \in Cards :
    row'[c].version = row[c].version + (IF c \in M THEN 1 ELSE 0)

LEMMA NextVersionsAre ==
  ASSUME RowsGood, NEW M, Turned(M)
  PROVE  [c \in Cards |-> row[c].version]' = Promise!NextVersions(M)
<1>1. \A c \in Cards : row[c].version \in Nat
  BY VersionIsNat DEF RowsGood
<1>2. \A c \in Cards : row'[c].version = IF c \in M THEN row[c].version + 1
                                                   ELSE row[c].version
  BY <1>1 DEF Turned
<1>3. QED
  BY <1>2 DEF Promise!NextVersions

\* Where the cards of every column are after the cards of M went to column k.
LEMMA MovedCards ==
  ASSUME RowsGood, KeepsUnversioned, NEW M, M \subseteq Cards, Turned(M),
         \A c \in M : Stored(row[c]), NEW k \in Columns,
         \A c \in M : row'[c].column = k, NEW j \in Columns
  PROVE  CardsIn(row', j) = (CardsIn(row, j) \ M) \cup (IF j = k THEN M ELSE {})
<1>1. ASSUME NEW c \in Cards \ M
      PROVE  /\ Stored(row'[c]) <=> Stored(row[c])
             /\ Stored(row[c]) => row'[c].column = row[c].column
  <2>1. row'[c].version = row[c].version
    BY VersionIsNat DEF Turned, RowsGood
  <2>2. Stored(row[c]) => SameToItsHolder(c)
    BY <2>1 DEF KeepsUnversioned, Unversioned
  <2>3. QED
    BY <2>1, <2>2 DEF Stored, SameToItsHolder
<1>2. ASSUME NEW c \in M PROVE Stored(row'[c])
  <2>1. row'[c].version = row[c].version + 1 /\ row[c].version \in Nat
    BY VersionIsNat DEF Turned, RowsGood
  <2>2. QED
    BY <2>1 DEF Stored
<1>3. QED
  BY <1>1, <1>2 DEF CardsIn

\* The cards that stay are in the order they were in.
LEMMA StayingCards ==
  ASSUME RowsGood, KeepsUnversioned, NEW M, M \subseteq Cards, Turned(M),
         NEW j, NEW new, Reads(new, row', j), NEW old, Reads(old, row, j),
         CardsIn(row', j) \ M \subseteq CardsIn(row, j)
  PROVE  Promise!SameOrder(new, old, M)
<1>1. /\ Len(new) \in Nat /\ DOMAIN new = 1 .. Len(new)
      /\ \A i \in 1 .. Len(new) : new[i] \in CardsIn(row', j)
      /\ \A p, q \in 1 .. Len(new) : p < q => row'[new[p]].pos < row'[new[q]].pos
  BY ListsMembers DEF Reads, Lists
<1>2. /\ Len(old) \in Nat /\ DOMAIN old = 1 .. Len(old)
      /\ \A c \in CardsIn(row, j) : \E i \in 1 .. Len(old) : old[i] = c
      /\ \A p, q \in 1 .. Len(old) : p < q => row[old[p]].pos < row[old[q]].pos
  BY DEF Reads, Lists
<1>3. SUFFICES ASSUME NEW c, NEW d, c \notin M, d \notin M,
                      Promise!Precedes(new, c, d)
               PROVE  Promise!Precedes(old, c, d)
  BY DEF Promise!SameOrder
<1>4. PICK p \in DOMAIN new, q \in DOMAIN new : p < q /\ new[p] = c /\ new[q] = d
  BY <1>3 DEF Promise!Precedes
<1>5. row'[c].pos < row'[d].pos /\ c \in CardsIn(row', j) /\ d \in CardsIn(row', j)
  BY <1>1, <1>4
<1>6. c \in CardsIn(row, j) /\ d \in CardsIn(row, j)
  BY <1>3, <1>5
<1>7. c \in Cards /\ d \in Cards /\ Unversioned(c) /\ Unversioned(d)
      /\ row[c].column = row[d].column
  <2>1. c \in Cards /\ d \in Cards /\ Stored(row[c]) /\ Stored(row[d])
        /\ row[c].column = row[d].column
    BY <1>6 DEF CardsIn
  <2>2. row'[c].version = row[c].version /\ row'[d].version = row[d].version
    BY <1>3, <2>1, VersionIsNat DEF Turned, RowsGood
  <2>3. QED
    BY <2>1, <2>2 DEF Unversioned
<1>8. row[c].pos < row[d].pos
  BY <1>5, <1>7 DEF KeepsUnversioned, SameToItsHolder
<1>9. PICK i \in 1 .. Len(old), m \in 1 .. Len(old) : old[i] = c /\ old[m] = d
  BY <1>2, <1>6
<1>10. row[c].pos \in Nat /\ row[d].pos \in Nat
  BY <1>6, CardsTyped DEF RowsGood
<1>11. i # m /\ ~(m < i)
  BY <1>2, <1>8, <1>9, <1>10
<1>12. i < m
  BY <1>2, <1>11
<1>13. QED
  BY <1>2, <1>9, <1>12 DEF Promise!Precedes

LEMMA SameCardinality ==
  ASSUME NEW S
  PROVE  Promise!Cardinality(S) = Cardinality(S)
  BY DEF Cardinality, Promise!Cardinality

\* A selection of created cards is one that the promise lets move.
LEMMA SelectionPromised ==
  ASSUME RowsGood, NEW sel, Lists(sel, Members(sel)), sel # <<>>,
         Members(sel) \subseteq Cards, \A c \in Members(sel) : Stored(row[c])
  PROVE  sel \in Promise!Selections
<1> DEFINE M == Members(sel)
           C == Promise!Created
<1>1. M \in SUBSET C /\ IsFiniteSet(C)
  BY CreatedAre, CardColumnAssumption, FS_Subset
<1>2. Cardinality(M) = Len(sel) /\ sel \in [1 .. Len(sel) -> M]
  BY ListLength
<1>3. Cardinality(M) <= Cardinality(C) /\ Cardinality(C) \in Nat
  BY <1>1, FS_Subset, FS_CardinalityType
<1>4. Len(sel) \in Nat \ {0} /\ DOMAIN sel = 1 .. Len(sel)
      /\ \A i, j \in DOMAIN sel : sel[i] = sel[j] => i = j
  BY EmptySeq DEF Lists
<1> HIDE DEF M, C
<1>5. Len(sel) \in 1 .. Cardinality(C) /\ sel \in [1 .. Len(sel) -> C]
  BY <1>1, <1>2, <1>3, <1>4
<1>6. Cardinality(C) = Promise!Cardinality(C)
  BY SameCardinality
<1>7. QED
  BY <1>4, <1>5, <1>6 DEF Promise!Selections, C

\* The cards of M went to column k, where they stand together as sel.
LEMMA MoveRefines ==
  ASSUME RowsGood, KeepsUnversioned, NEW sel, Lists(sel, Members(sel)), sel # <<>>,
         Members(sel) \subseteq Cards, \A c \in Members(sel) : Stored(row[c]),
         Turned(Members(sel)), NEW k \in Columns,
         \A c \in Members(sel) : row'[c].column = k,
         Promise!Together(OrderOf(row', k), sel)
  PROVE  Promise!Next
<1> DEFINE M == Members(sel)
           old == [j \in Columns |-> OrderOf(row, j)]
           new == [j \in Columns |-> OrderOf(row', j)]
<1>1. ASSUME NEW j \in Columns
      PROVE  /\ Reads(OrderOf(row, j), row, j) /\ Reads(OrderOf(row', j), row', j)
             /\ CardsIn(row', j) =
                  (CardsIn(row, j) \ M) \cup (IF j = k THEN M ELSE {})
  BY MovedCards, OrderReads DEF RowsGood
<1>2. ASSUME NEW j \in Columns
      PROVE  /\ Promise!Lists(new[j], (Promise!Members(old[j]) \ M)
                                        \cup (IF j = k THEN M ELSE {}))
             /\ Promise!SameOrder(new[j], old[j], M)
             /\ new[j] \in Seq(Promise!Created)
  <2>1. Promise!Members(old[j]) = CardsIn(row, j)
    BY <1>1, ListsMembers DEF Reads, Members, Promise!Members
  <2>2. Promise!Members(new[j]) = CardsIn(row', j)
    BY <1>1, ListsMembers DEF Reads, Members, Promise!Members
  <2>3. Len(new[j]) = Promise!Cardinality(CardsIn(row', j))
    BY <1>1, ListLength, SameCardinality DEF Reads
  <2>4. CardsIn(row', j) \ M \subseteq CardsIn(row, j)
    <3>1. CASE j = k
      BY <1>1, <3>1
    <3>2. CASE j # k
      BY <1>1, <3>2
    <3>3. QED
      BY <3>1, <3>2
  <2>5. Promise!SameOrder(OrderOf(row', j), OrderOf(row, j), M)
    BY <1>1, <2>4, StayingCards
  <2>6. CardsIn(row', j) \subseteq Promise!Created
    BY <1>1, CreatedAre DEF CardsIn
  <2>7. OrderOf(row', j) \in Seq(Promise!Created)
    <3>1. OrderOf(row', j) \in Seq(CardsIn(row', j))
      BY <1>1 DEF Reads, Lists
    <3>2. QED
      BY <2>6, <3>1, SeqMonotonic
  <2>8. Promise!Lists(new[j], CardsIn(row', j))
    BY <2>2, <2>3 DEF Promise!Lists
  <2>9. QED
    BY <1>1, <2>1, <2>5, <2>7, <2>8
<1>3. new \in [Columns -> Seq(Promise!Created)]
  BY <1>2
<1>4. Promise!Together(new[k], sel)
  OBVIOUS
<1>5. [c \in Cards |-> row[c].version]' = Promise!NextVersions(M)
  BY NextVersionsAre
<1>6. Promise!Members(sel) = M
  BY DEF Members, Promise!Members
<1>7. [j \in Columns |-> OrderOf(row, j)]' = new
  BY DEF OrderOf, Count, CardsIn, Before
<1>8. Promise!Move(sel)
  <2> HIDE DEF new, old, M
  <2>1. QED
    BY <1>2, <1>3, <1>4, <1>5, <1>6, <1>7 DEF Promise!Move, old
<1>9. sel \in Promise!Selections
  BY SelectionPromised
<1>10. QED
  BY <1>8, <1>9 DEF Promise!Next

\* A column whose cards and positions stand is read as before.
LEMMA SameReading ==
  ASSUME RowsGood, NEW j, CardsIn(row', j) = CardsIn(row, j),
         \A c \in CardsIn(row, j) : row'[c].pos = row[c].pos
  PROVE  OrderOf(row', j) = OrderOf(row, j)
<1> DEFINE s == OrderOf(row, j)
<1>1. Reads(s, row, j)
  BY OrderReads DEF RowsGood
<1>2. \A i \in 1 .. Len(s) : s[i] \in CardsIn(row, j)
  BY <1>1, ListsMembers DEF Reads
<1>3. Reads(s, row', j)
  BY <1>1, <1>2 DEF Reads
<1> HIDE DEF s
<1>4. s = OrderOf(row', j)
  BY <1>3, OnlyReading DEF RowsGood
<1>5. QED
  BY <1>4 DEF s

\* A new card behind the last of its column is read behind it.
LEMMA ReadAtEnd ==
  ASSUME RowsGood, NEW k, NEW c \in Cards, c \notin CardsIn(row, k),
         CardsIn(row', k) = CardsIn(row, k) \cup {c},
         \A d \in CardsIn(row, k) : /\ row'[d].pos = row[d].pos
                                    /\ row[d].pos < row'[c].pos
  PROVE  OrderOf(row', k) = Append(OrderOf(row, k), c)
<1> DEFINE old == OrderOf(row, k)
           n == Len(old)
           s == Append(old, c)
           S == CardsIn(row, k)
<1>1. Reads(old, row, k)
  BY OrderReads DEF RowsGood
<1>2. /\ old \in Seq(S) /\ n \in Nat /\ DOMAIN old = 1 .. n
      /\ \A i \in 1 .. n : old[i] \in S
      /\ \A i, j \in 1 .. n : old[i] = old[j] => i = j
      /\ \A d \in S : \E i \in 1 .. n : old[i] = d
      /\ \A i, j \in 1 .. n : i < j => row[old[i]].pos < row[old[j]].pos
  BY <1>1, ListsMembers DEF Reads, Lists
<1> HIDE DEF old, S
<1>3. /\ s \in Seq(S \cup {c}) /\ Len(s) = n + 1 /\ DOMAIN s = 1 .. n + 1
      /\ \A i \in 1 .. n : s[i] = old[i]
      /\ s[n + 1] = c
  <2>1. old \in Seq(S \cup {c}) /\ c \in S \cup {c}
    BY <1>2, SeqMonotonic
  <2>2. QED
    BY <1>2, <2>1, AppendProperties
<1> HIDE DEF s, n
<1>4. \A i \in 1 .. n + 1 : i \in 1 .. n \/ i = n + 1
  BY <1>2
<1>5. c \notin S
  BY DEF S
<1>6. \A i, j \in 1 .. n + 1 : s[i] = s[j] => i = j
  BY <1>2, <1>3, <1>4, <1>5
<1>7. \A d \in S \cup {c} : \E i \in 1 .. n + 1 : s[i] = d
  <2>1. 1 .. n \subseteq 1 .. n + 1 /\ n + 1 \in 1 .. n + 1
    BY <1>2
  <2>2. QED
    BY <1>2, <1>3, <2>1
<1>8. ASSUME NEW i \in 1 .. n + 1, NEW j \in 1 .. n + 1, i < j
      PROVE  row'[s[i]].pos < row'[s[j]].pos
  <2>1. i \in 1 .. n
    BY <1>2, <1>4, <1>8
  <2>2. s[i] = old[i] /\ old[i] \in S /\ row'[old[i]].pos = row[old[i]].pos
    BY <1>2, <1>3, <2>1 DEF S
  <2>3. CASE j \in 1 .. n
    <3>1. s[j] = old[j] /\ old[j] \in S /\ row'[old[j]].pos = row[old[j]].pos
      BY <1>2, <1>3, <2>3 DEF S
    <3>2. QED
      BY <1>2, <1>8, <2>1, <2>2, <2>3, <3>1
  <2>4. CASE j = n + 1
    BY <1>3, <2>2, <2>4 DEF S
  <2>5. QED
    BY <1>4, <2>3, <2>4
<1>9. Reads(s, row', k)
  BY <1>2, <1>3, <1>6, <1>7, <1>8 DEF Reads, Lists, S
<1>10. s = OrderOf(row', k)
  BY <1>9, OnlyReading DEF RowsGood
<1>11. QED
  BY <1>10 DEF s, old

\* What is written of the order of every column after a step.
LEMMA OrderPrimed ==
  [j \in Columns |-> OrderOf(row, j)]' = [j \in Columns |-> OrderOf(row', j)]
  BY DEF OrderOf, Count, CardsIn, Before

LEMMA CreateRefines ==
  ASSUME RowsGood, NEW c \in Cards, NEW k \in Columns, Create(c, k)
  PROVE  Promise!Next
<1> DEFINE old == [j \in Columns |-> OrderOf(row, j)]
           new == [j \in Columns |-> OrderOf(row', j)]
<1>1. PICK p \in NextPositions(row, k) :
        /\ IsNext(row, k, p)
        /\ row' = [row EXCEPT ![c] = [column |-> k, pos |-> p,
                                      archived |-> FALSE, version |-> 1]]
  BY DEF Create, Atomically
<1>2. /\ row \in [Cards -> Rows \cup {NoRow}] /\ ~Stored(row[c])
      /\ row'[c].column = k /\ row'[c].pos = p /\ row'[c].version = 1
      /\ \A d \in Cards : d # c => row'[d] = row[d]
  BY <1>1 DEF RowsGood, Typed, Create
<1>3. row[c].version = 0 /\ \A d \in Cards : row[d].version \in Nat
  BY <1>2, VersionIsNat DEF RowsGood
<1>4. Turned({c})
  BY <1>2, <1>3 DEF Turned
<1>5. p \in Nat /\ \A d \in CardsIn(row, k) : row[d].pos < p
  BY <1>1, <1>2, NextIsFree
<1>6. \A j : c \notin CardsIn(row, j)
  BY <1>2 DEF CardsIn
<1>7. CardsIn(row', k) = CardsIn(row, k) \cup {c}
  BY <1>2 DEF CardsIn, Stored
<1>8. OrderOf(row', k) = Append(OrderOf(row, k), c)
  <2>1. \A d \in CardsIn(row, k) : row'[d].pos = row[d].pos /\ row[d].pos < row'[c].pos
    BY <1>2, <1>5, <1>6 DEF CardsIn
  <2>2. QED
    BY <1>6, <1>7, <2>1, ReadAtEnd
<1>9. ASSUME NEW j \in Columns, j # k PROVE OrderOf(row', j) = OrderOf(row, j)
  <2>1. CardsIn(row', j) = CardsIn(row, j)
    BY <1>2, <1>9 DEF CardsIn
  <2>2. \A d \in CardsIn(row, j) : row'[d].pos = row[d].pos
    BY <1>2, <1>6 DEF CardsIn
  <2>3. QED
    BY <2>1, <2>2, SameReading
<1>10. new = [old EXCEPT ![k] = Append(@, c)]
  BY <1>8, <1>9
<1>11. c \notin Promise!Created
  BY <1>2, CreatedAre
<1>12. [d \in Cards |-> row[d].version]' = Promise!NextVersions({c})
  BY <1>4, NextVersionsAre
<1>13. [j \in Columns |-> OrderOf(row, j)]' = new
  BY OrderPrimed
<1>14. Promise!Create(c)
  <2> HIDE DEF new
  <2>1. QED
    BY <1>10, <1>11, <1>12, <1>13 DEF Promise!Create
<1>15. QED
  BY <1>14 DEF Promise!Next

LEMMA SetArchivedRefines ==
  ASSUME RowsGood, NEW c \in Cards, NEW flag, SetArchived(c, flag)
  PROVE  Promise!Next
<1>1. /\ row \in [Cards -> Rows \cup {NoRow}] /\ Stored(row[c])
      /\ row' = [row EXCEPT ![c] = [row[c] EXCEPT !.archived = flag,
                                                 !.version = @ + 1]]
  BY DEF RowsGood, Typed, SetArchived, Atomically
<1>2. row[c] \in Rows
  BY <1>1, StoredRow
<1>3. /\ row'[c].column = row[c].column /\ row'[c].pos = row[c].pos
      /\ row'[c].version = row[c].version + 1
      /\ \A d \in Cards : d # c => row'[d] = row[d]
  BY <1>1, <1>2 DEF Rows
<1>4. \A d \in Cards : row[d].version \in Nat
  BY VersionIsNat DEF RowsGood
<1>5. Turned({c})
  BY <1>3, <1>4 DEF Turned
<1>6. \A d \in Cards : /\ Stored(row'[d]) <=> Stored(row[d])
                       /\ row'[d].column = row[d].column /\ row'[d].pos = row[d].pos
  BY <1>1, <1>3, <1>4 DEF Stored
<1>7. ASSUME NEW j \in Columns PROVE OrderOf(row', j) = OrderOf(row, j)
  <2>1. CardsIn(row', j) = CardsIn(row, j)
    BY <1>6 DEF CardsIn
  <2>2. \A d \in CardsIn(row, j) : row'[d].pos = row[d].pos
    BY <1>6 DEF CardsIn
  <2>3. QED
    BY <2>1, <2>2, SameReading
<1>8. [j \in Columns |-> OrderOf(row, j)]' = [j \in Columns |-> OrderOf(row, j)]
  <2>1. [j \in Columns |-> OrderOf(row', j)] = [j \in Columns |-> OrderOf(row, j)]
    BY <1>7
  <2>2. QED
    BY <2>1, OrderPrimed
<1>9. c \in Promise!Created
  BY <1>1, CreatedAre
<1>10. [d \in Cards |-> row[d].version]' = Promise!NextVersions({c})
  BY <1>5, NextVersionsAre
<1>11. Promise!Touch(c)
  BY <1>8, <1>9, <1>10 DEF Promise!Touch
<1>12. QED
  BY <1>11 DEF Promise!Next

LEMMA MoveToEndRefines ==
  ASSUME RowsGood, KeepsUnversioned, NEW c \in Cards, NEW k \in Columns,
         MoveToEnd(c, k)
  PROVE  Promise!Next
<1> DEFINE sel == <<c>>
<1>1. PICK p \in NextPositions(row, k) :
        /\ IsNext(row, k, p)
        /\ row' = [row EXCEPT ![c] = [row[c] EXCEPT !.column = k, !.pos = p,
                                                   !.version = @ + 1]]
  BY DEF MoveToEnd, Atomically
<1>2. row \in [Cards -> Rows \cup {NoRow}] /\ Stored(row[c])
  BY DEF RowsGood, Typed, MoveToEnd, Movable
<1>3. row[c] \in Rows
  BY <1>2, StoredRow
<1>4. /\ row'[c].column = k /\ row'[c].version = row[c].version + 1
      /\ \A d \in Cards : d # c => row'[d] = row[d]
  BY <1>1, <1>2, <1>3 DEF Rows
<1>5. \A d \in Cards : row[d].version \in Nat
  BY VersionIsNat DEF RowsGood
<1>6. Turned({c})
  BY <1>4, <1>5 DEF Turned
<1>7. /\ Members(sel) = {c} /\ Lists(sel, {c}) /\ sel # <<>>
      /\ Promise!Together(OrderOf(row', k), sel)
  BY SingleLists, SingleSelects DEF Selects
<1> HIDE DEF sel
<1>8. QED
  BY <1>2, <1>4, <1>6, <1>7, MoveRefines

\* The statements of the second pass have put the column in the planned order.
LEMMA CommitRefines ==
  ASSUME IInv, RowsGood, KeepsUnversioned, Commit
  PROVE  Promise!Next
<1> DEFINE k == tx.column
           A == Members(tx.arrive) \cup tx.advance
<1>1. tx \in Txs /\ Planned /\ SettleInv
  BY OpenTx DEF IInv, Commit
<1>2. row' = work /\ tx.at = Len(tx.order) /\ Len(tx.order) \in Nat
  BY <1>1, PlanFacts DEF Commit
<1>3. PICK sel : Selects(sel, tx.arrive, tx.order, tx.advance)
  BY <1>1 DEF Planned, Plan
<1>4. /\ Members(sel) = A /\ Lists(sel, Members(sel)) /\ sel # <<>>
      /\ Promise!Together(tx.order, sel)
  BY <1>3 DEF Selects
<1>5. /\ k \in Columns /\ Lists(tx.order, Members(tx.order))
      /\ \A c \in A : c \in Cards /\ Stored(row[c]) /\ c \in Members(tx.order)
      /\ CardsIn(row, k) \subseteq Members(tx.order)
  <2>1. CardsIn(row, k) \cup Members(tx.arrive) = Members(tx.order)
    BY <1>1, PlanFacts
  <2>2. QED
    BY <1>1, <2>1 DEF Planned, Plan
<1>6. /\ \A c \in Members(tx.order) : \E i \in 1 .. Len(tx.order) : tx.order[i] = c
      /\ \A i \in 1 .. Len(tx.order) :
           tx.order[i] \in Cards /\ Stored(row[tx.order[i]])
             /\ tx.order[i] \in Members(tx.order)
  BY <1>1, PlanFacts
<1>7. ASSUME NEW i \in 1 .. Len(tx.order)
      PROVE  /\ row'[tx.order[i]].column = k /\ row'[tx.order[i]].pos = i - 1
             /\ row'[tx.order[i]].version =
                  IF tx.order[i] \in A THEN row[tx.order[i]].version + 1
                                       ELSE row[tx.order[i]].version
  <2>1. i <= tx.at
    BY <1>2
  <2>2. QED
    BY <1>1, <1>2, <2>1 DEF SettleInv
<1>8. \A c \in Cards : c \notin Members(tx.order) => row'[c] = row[c]
  BY <1>1, <1>2 DEF SettleInv
<1>9. \A c \in Cards : row[c].version \in Nat
  BY VersionIsNat DEF RowsGood
<1> HIDE DEF k, A
<1>10. Turned(Members(sel))
  <2> SUFFICES ASSUME NEW c \in Cards
               PROVE  row'[c].version = row[c].version + (IF c \in A THEN 1 ELSE 0)
    BY <1>4 DEF Turned
  <2>1. CASE c \in Members(tx.order)
    <3>1. PICK i \in 1 .. Len(tx.order) : tx.order[i] = c
      BY <1>6, <2>1
    <3>2. QED
      BY <1>7, <1>9, <3>1
  <2>2. CASE c \notin Members(tx.order)
    <3>1. c \notin A /\ row'[c] = row[c]
      BY <1>5, <1>8, <2>2
    <3>2. QED
      BY <1>9, <3>1
  <2>3. QED
    BY <2>1, <2>2
<1>11. CardsIn(row', k) = Members(tx.order)
  <2>1. ASSUME NEW c \in Members(tx.order) PROVE c \in CardsIn(row', k)
    <3>1. PICK i \in 1 .. Len(tx.order) : tx.order[i] = c
      BY <1>6
    <3>2. c \in Cards /\ row[c].version > 0 /\ row[c].version \in Nat
      BY <1>6, <1>9, <3>1 DEF Stored
    <3>3. row'[c].version > 0 /\ row'[c].column = k
      BY <1>7, <3>1, <3>2
    <3>4. QED
      BY <3>2, <3>3 DEF CardsIn, Stored
  <2>2. ASSUME NEW c \in CardsIn(row', k) PROVE c \in Members(tx.order)
    <3>1. CASE c \notin Members(tx.order)
      <4>1. c \in CardsIn(row, k)
        BY <1>8, <2>2, <3>1 DEF CardsIn
      <4>2. QED
        BY <1>5, <3>1, <4>1
    <3>2. QED
      BY <3>1
  <2>3. QED
    BY <2>1, <2>2
<1>12. Reads(tx.order, row', k)
  <2>1. \A i, j \in 1 .. Len(tx.order) :
          i < j => row'[tx.order[i]].pos < row'[tx.order[j]].pos
    BY <1>2, <1>7
  <2>2. QED
    BY <1>5, <1>11, <2>1 DEF Reads
<1>13. tx.order = OrderOf(row', k)
  BY <1>12, OnlyReading DEF RowsGood
<1>14. \A c \in A : row'[c].column = k
  BY <1>5, <1>6, <1>7
<1>15. Members(sel) \subseteq Cards /\ \A c \in Members(sel) : Stored(row[c])
  BY <1>4, <1>5
<1>16. Promise!Together(OrderOf(row', k), sel)
  BY <1>4, <1>13
<1>17. QED
  BY <1>4, <1>5, <1>10, <1>14, <1>15, <1>16, MoveRefines

LEMMA InitRefines == Init => Promise!Init
<1> SUFFICES ASSUME Init PROVE Promise!Init
  OBVIOUS
<1>1. Typed(row) /\ \A c \in Cards : row[c].version = 0
  BY DEF Init, Typed, NoRow
<1>2. \A j : CardsIn(row, j) = {}
  BY <1>1 DEF CardsIn, Stored
<1>3. ASSUME NEW j PROVE OrderOf(row, j) = <<>>
  <2>1. Lists(<<>>, CardsIn(row, j)) /\ Len(<<>>) = 0
    BY <1>2, EmptyLists
  <2>2. Reads(<<>>, row, j)
    BY <2>1 DEF Reads
  <2>3. QED
    BY <1>1, <2>2, OnlyReading
<1>4. QED
  BY <1>1, <1>3 DEF Promise!Init

LEMMA RowUnread ==
  ASSUME row' = row
  PROVE  UNCHANGED Promise!vars
  BY DEF Promise!vars, OrderOf, Count, CardsIn, Before

LEMMA NextRefines == IInv /\ IInv' /\ [Next]_vars => [Promise!Next]_(Promise!vars)
<1> SUFFICES ASSUME IInv, IInv', [Next]_vars
             PROVE  Promise!Next \/ UNCHANGED Promise!vars
  OBVIOUS
<1>1. RowsGood /\ KeepsUnversioned
  BY InvGood, NextKeeps
<1>2. CASE \E c \in Cards, k \in Columns : Create(c, k) \/ MoveToEnd(c, k)
  BY <1>1, <1>2, CreateRefines, MoveToEndRefines
<1>3. CASE \E c \in Cards : ArchiveCard(c) \/ RestoreCard(c)
  BY <1>1, <1>3, SetArchivedRefines DEF ArchiveCard, RestoreCard
<1>4. CASE \E c \in Cards, to \in 1 .. Cardinality(Cards) : Reorder(c, to)
  <2>1. row' = row
    BY <1>4 DEF Reorder, Rewrite
  <2>2. QED
    BY <2>1, RowUnread
<1>5. CASE \E k \in Columns, before \in 0 .. Cardinality(Cards) :
             \/ \E c \in Cards : Insert(c, k, before)
             \/ \E sel \in Selections :
                  \/ MoveSelected(sel, k, before)
                  \/ \E b \in Boards : TransferSelected(sel, b, k, before)
  <2>1. row' = row
    BY <1>5 DEF Insert, MoveSelected, TransferSelected, Rewrite
  <2>2. QED
    BY <2>1, RowUnread
<1>6. CASE Arrive \/ Arrived \/ Spread \/ HasSpread \/ Settle \/ Rollback
  <2>1. row' = row
    BY <1>6 DEF Arrive, Arrived, Spread, HasSpread, Settle, Rollback
  <2>2. QED
    BY <2>1, RowUnread
<1>7. CASE Commit
  BY <1>1, <1>7, CommitRefines
<1>8. CASE UNCHANGED vars
  BY <1>8, RowUnread DEF vars
<1>9. QED
  BY <1>2, <1>3, <1>4, <1>5, <1>6, <1>7, <1>8 DEF Next

\* The transactions implement the sequences of ColumnOrder: whatever statements
\* a rewrite is made of and wherever it is rolled back, a reader of the
\* committed rows only ever sees a card added at the end of a column, a card
\* edited in its place, or one selection put together at one place, with the
\* next version for the cards meant and for no others.
THEOREM OrderPromised == Spec => KeepsPromise
<1>1. IInv /\ [Next]_vars => [Promise!Next]_(Promise!vars)
  BY NextInv, NextRefines
<1>2. QED
  BY <1>1, InitRefines, InitInv, NextInv, PTL DEF Spec, KeepsPromise, Promise!Spec
=============================================================================
