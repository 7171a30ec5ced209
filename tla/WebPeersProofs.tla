--------------------------- MODULE WebPeersProofs ---------------------------
(***************************************************************************)
(* Proofs about WebPeers for every number of interfaces, peers, page sizes *)
(* and calls in flight: what the page lists, pages and shows belongs to    *)
(* what is selected.                                                       *)
(***************************************************************************)
EXTENDS WebPeers, FiniteSetTheorems, TLAPS

-----------------------------------------------------------------------------
(* Pages *)

\* Whole pages and what is left over.
LEMMA DivNat ==
    ASSUME NEW a \in Nat, NEW s \in Nat \ {0}
    PROVE  a \div s \in Nat
  OBVIOUS

LEMMA Whole ==
    ASSUME NEW d \in Int, NEW s \in Nat \ {0}
    PROVE  (d * s) % s = 0
  <1> DEFINE x == d * s
             q == x \div s
             r == x % s
  <1>1. x \in Int /\ q \in Int /\ r \in Int /\ 0 <= r /\ r < s /\ x = s * q + r
    OBVIOUS
  <1>2. r = (d - q) * s
    BY <1>1
  <1> HIDE DEF x, q, r
  <1>3. d - q >= 1 => (d - q) * s >= s
    BY <1>1
  <1>4. d - q <= -1 => (d - q) * s <= -s
    BY <1>1
  <1> QED
    BY <1>1, <1>2, <1>3, <1>4 DEF r, x

LEMMA NextStart ==
    ASSUME NEW o \in Int, NEW s \in Nat \ {0}, o % s = 0
    PROVE  (o + s) % s = 0 /\ (o - s) % s = 0
  <1> DEFINE q == o \div s
  <1>1. q \in Int /\ o = q * s
    OBVIOUS
  <1> HIDE DEF q
  <1>2. o + s = (q + 1) * s /\ o - s = (q - 1) * s
    BY <1>1
  <1>3. ((q + 1) * s) % s = 0 /\ ((q - 1) * s) % s = 0
    BY <1>1, Whole
  <1> QED
    BY <1>2, <1>3

LEMMA StartBefore ==
    ASSUME NEW o \in Nat, NEW s \in Nat \ {0}, o % s = 0, o # 0
    PROVE  o >= s
  <1> DEFINE q == o \div s
  <1>1. q \in Int /\ o = q * s
    OBVIOUS
  <1> HIDE DEF q
  <1>2. q <= 0 => q * s <= 0
    BY <1>1
  <1>3. q >= 1 => q * s >= s
    BY <1>1
  <1> QED
    BY <1>1, <1>2, <1>3

LEMMA NatProduct ==
    ASSUME NEW a \in Nat, NEW b \in Nat
    PROVE  a * b \in Nat
  OBVIOUS

\* Counting the pages leaves the rest of a table.
LEMMA PagesCounted ==
    ASSUME NEW t \in Tables(Sizes), NEW n \in Nat
    PROVE  /\ calculatePages(t, n) \in Tables(Sizes)
           /\ calculatePages(t, n).offset = t.offset /\ calculatePages(t, n).size = t.size
           /\ calculatePages(t, n).click = t.click
  <1>1. t.size \in Nat \ {0} /\ t.size \in Sizes
    BY PeersAssumption DEF Tables
  <1>2. n + t.size - 1 \in Nat
    BY <1>1
  <1>3. (n + t.size - 1) \div t.size \in Nat
    BY <1>1, <1>2, DivNat
  <1> QED
    BY <1>3 DEF calculatePages, Tables

LEMMA AlignedCounted ==
    ASSUME NEW t \in Tables(Sizes), NEW n \in Nat, Aligned(t)
    PROVE  Aligned(calculatePages(t, n))
  BY PagesCounted DEF Aligned

\* The window of the page links starts at the first page or later; it holds
\* the current page and ends with the last one.
LEMMA WindowStarts ==
    ASSUME NEW cur \in Int, NEW total \in Nat, NEW page \in visiblePages(cur, total, Width)
    PROVE  page \in Int /\ page >= 1
  <1>1. Width \in Nat /\ Width >= 1 /\ Width \div 2 \in Int
    BY PeersAssumption
  <1> QED
    BY <1>1 DEF visiblePages, Larger

LEMMA Window ==
    ASSUME NEW cur \in Nat, NEW total \in Nat, 1 <= cur, cur <= total
    PROVE  cur \in visiblePages(cur, total, Width) /\ visiblePages(cur, total, Width) \subseteq 1 .. total
  <1> DEFINE h == Width \div 2
             start == Larger(1, cur - h)
  <1>1. Width \in Nat /\ Width >= 1 /\ h \in Nat /\ h <= Width - 1
    BY PeersAssumption
  <1> HIDE DEF h
  <1>2. start \in Int /\ start >= 1 /\ start >= cur - h /\ (start = 1 \/ start = cur - h) /\ start <= cur
    BY <1>1 DEF Larger
  <1> HIDE DEF start
  <1>3. visiblePages(cur, total, Width) = IF total <= Width THEN 1 .. total
            ELSE IF start + Width - 1 > total THEN Larger(1, total - Width + 1) .. total
            ELSE start .. start + Width - 1
    BY DEF visiblePages, start, h
  <1>4. CASE total <= Width
    BY <1>3, <1>4
  <1>5. CASE total > Width /\ start + Width - 1 > total
    <2>1. Larger(1, total - Width + 1) = total - Width + 1
      BY <1>1, <1>5 DEF Larger
    <2>2. total - Width + 1 <= cur /\ 1 <= total - Width + 1
      BY <1>1, <1>2, <1>5
    <2>3. visiblePages(cur, total, Width) = total - Width + 1 .. total
      BY <1>1, <1>3, <1>5, <2>1
    <2> QED
      BY <1>1, <2>2, <2>3
  <1>6. CASE total > Width /\ ~(start + Width - 1 > total)
    <2>1. visiblePages(cur, total, Width) = start .. start + Width - 1
      BY <1>1, <1>3, <1>6
    <2> QED
      BY <1>1, <1>2, <1>6, <2>1
  <1> QED
    BY <1>1, <1>4, <1>5, <1>6

\* The click handler of the page size selector goes to the first page.
LEMMA ResetAligned ==
    ASSUME NEW t \in Tables(Sizes), NEW n \in Nat
    PROVE  afterPageSizeChange(t, n) \in Tables(Sizes) /\ Aligned(afterPageSizeChange(t, n))
  <1> DEFINE z == freshTable(t.size)
  <1>1. t.size \in Nat \ {0} /\ t.size \in Sizes
    BY PeersAssumption DEF Tables
  <1>2. 0 % t.size = 0
    BY <1>1
  <1>3. z \in Tables(Sizes) /\ Aligned(z)
    BY <1>1, <1>2 DEF freshTable, Tables, Aligned
  <1> HIDE DEF z
  <1>4. afterPageSizeChange(t, n) = calculatePages(z, n)
    BY DEF afterPageSizeChange, z
  <1> QED
    BY <1>3, <1>4, PagesCounted, AlignedCounted

\* Every move in a table leads to a table with an aligned offset.
LEMMA MovesAligned ==
    ASSUME NEW t \in Tables(Sizes), Aligned(t), NEW n \in Nat,
           NEW u \in Moves(t, n, visiblePages(currentPage(t), t.pages, Width), Sizes)
    PROVE  u \in Tables(Sizes) /\ Aligned(u)
  <1> DEFINE links == visiblePages(currentPage(t), t.pages, Width)
             moved(o) == [t EXCEPT !.offset = o]
  <1>1. t.size \in Nat \ {0} /\ t.offset \in Int /\ t.pages \in Nat /\ t.size \in Sizes /\ t.click \in BOOLEAN
    BY PeersAssumption DEF Tables
  <1>2. ASSUME NEW o \in Int, t.click \/ (o >= 0 /\ o % t.size = 0)
        PROVE  calculatePages(moved(o), n) \in Tables(Sizes) /\ Aligned(calculatePages(moved(o), n))
    <2>1. moved(o) \in Tables(Sizes) /\ Aligned(moved(o))
      BY <1>1, <1>2 DEF Tables, Aligned
    <2> HIDE DEF moved
    <2> QED
      BY <2>1, PagesCounted, AlignedCounted
  <1>3. CASE \E page \in links : u = gotoPage(t, n, page)
    <2>1. PICK page \in links : u = gotoPage(t, n, page)
      BY <1>3
    <2>2. currentPage(t) \in Int
      BY <1>1 DEF currentPage
    <2>3. page \in Int /\ page >= 1
      BY <1>1, <2>2, WindowStarts
    <2>4. (page - 1) * t.size \in Int /\ (page - 1) * t.size >= 0 /\ ((page - 1) * t.size) % t.size = 0
      <3>0. page - 1 \in Nat
        BY <2>3
      <3>1. (page - 1) * t.size \in Nat
        BY <1>1, <3>0, NatProduct
      <3>2. ((page - 1) * t.size) % t.size = 0
        BY <1>1, <3>0, Whole
      <3> QED
        BY <3>1, <3>2
    <2> QED
      BY <1>2, <2>1, <2>4 DEF gotoPage
  <1>4. CASE u = nextPage(t, n)
    <2>1. t.offset + t.size \in Int /\ (t.click \/ (t.offset + t.size >= 0 /\ (t.offset + t.size) % t.size = 0))
      BY <1>1, NextStart DEF Aligned
    <2> QED
      BY <1>2, <1>4, <2>1 DEF nextPage
  <1>5. CASE u = previousPage(t, n) /\ hasPrevPage(t)
    <2>1. t.offset - t.size \in Int /\ (t.click \/ (t.offset - t.size >= 0 /\ (t.offset - t.size) % t.size = 0))
      <3>1. CASE t.click
        BY <1>1, <3>1
      <3>2. CASE ~t.click
        <4>1. t.offset \in Nat /\ t.offset % t.size = 0 /\ t.offset # 0
          BY <1>1, <1>5, <3>2 DEF Aligned, hasPrevPage
        <4>2. t.offset >= t.size
          BY <1>1, <4>1, StartBefore
        <4> QED
          BY <1>1, <4>1, <4>2, NextStart
      <3> QED
        BY <3>1, <3>2
    <2> QED
      BY <1>2, <1>5, <2>1 DEF previousPage
  <1>6. CASE \E size \in Sizes : u = setPageSize(t, size)
    BY <1>6 DEF setPageSize, Tables, Aligned
  <1>7. CASE u = afterPageSizeChange(t, n)
    BY <1>7, ResetAligned
  <1> QED
    BY <1>3, <1>4, <1>5, <1>6, <1>7 DEF Moves


-----------------------------------------------------------------------------
(* Lists *)

\* The k-th number of a set of positions: each of them comes once.
LEMMA NthPosition ==
    ASSUME NEW L \in Nat, NEW S \in SUBSET (1 .. L)
    PROVE  /\ Cardinality(S) \in Nat
           /\ \A k \in 1 .. Cardinality(S) : Nth(S, k) \in S
           /\ \A j, k \in 1 .. Cardinality(S) : Nth(S, j) = Nth(S, k) => j = k
           /\ \A n \in S : \E k \in 1 .. Cardinality(S) : Nth(S, k) = n
  <1> DEFINE upto(n) == {m \in S : m <= n}
             N == Cardinality(S)
             f == [n \in S |-> Cardinality(upto(n))]
  <1>1. IsFiniteSet(1 .. L)
    BY FS_Interval
  <1>2. IsFiniteSet(S)
    BY <1>1, FS_Subset
  <1>3. N \in Nat
    BY <1>2, FS_CardinalityType
  <1>4. ASSUME NEW n \in S PROVE IsFiniteSet(upto(n)) /\ Cardinality(upto(n)) \in 1 .. N
    <2>1. upto(n) \in SUBSET S /\ n \in upto(n)
      OBVIOUS
    <2>2. IsFiniteSet(upto(n)) /\ Cardinality(upto(n)) <= N
      BY <1>2, <2>1, FS_Subset
    <2>3. Cardinality(upto(n)) \in Nat /\ Cardinality(upto(n)) # 0
      BY <2>1, <2>2, FS_CardinalityType, FS_EmptySet
    <2> QED
      BY <1>3, <2>2, <2>3
  <1>5. ASSUME NEW n \in S, NEW m \in S, m < n PROVE Cardinality(upto(m)) # Cardinality(upto(n))
    <2>1. S \subseteq Nat /\ n <= n /\ ~(n <= m)
      BY <1>5
    <2>2. \A k \in S : k <= m => k <= n
      BY <1>5, <2>1
    <2>3. upto(m) \in SUBSET upto(n) /\ n \in upto(n) /\ n \notin upto(m)
      BY <2>1, <2>2, Zenon
    <2> QED
      BY <1>4, <2>3, FS_Subset
  <1>6. \A n, m \in S : Cardinality(upto(m)) = Cardinality(upto(n)) => m = n
    <2> TAKE n, m \in S
    <2>1. n \in Nat /\ m \in Nat
      OBVIOUS
    <2> QED
      BY <1>5, <2>1
  <1>7. f \in Injection(S, 1 .. N)
    <2>1. f \in [S -> 1 .. N]
      BY <1>4
    <2>2. \A m, n \in S : f[m] = f[n] => m = n
      BY <1>6
    <2> QED
      BY <2>1, <2>2 DEF Injection, IsInjective
  <1>8. IsFiniteSet(1 .. N) /\ Cardinality(1 .. N) = N
    BY <1>3, FS_Interval
  <1>9. f \in Surjection(S, 1 .. N)
    BY <1>7, <1>8, FS_Injection
  <1>10. \A k \in 1 .. N : \E n \in S : Cardinality(upto(n)) = k
    BY <1>9 DEF Surjection
  <1>11. ASSUME NEW k \in 1 .. N PROVE Nth(S, k) \in S /\ Cardinality(upto(Nth(S, k))) = k
    <2>1. \E n \in S : Cardinality({m \in S : m <= n}) = k
      BY <1>10
    <2> QED
      BY <2>1 DEF Nth
  <1>12. ASSUME NEW n \in S PROVE \E k \in 1 .. N : Nth(S, k) = n
    BY <1>4, <1>6, <1>11
  <1> HIDE DEF upto
  <1> QED
    BY <1>3, <1>11, <1>12

\* The rows at some positions of a list.
LEMMA RowsAtOf ==
    ASSUME NEW T, NEW s \in Seq(T), NEW K \in SUBSET DOMAIN s
    PROVE  /\ RowsAt(s, K) \in Seq(T) /\ Cardinality(K) \in Nat /\ DOMAIN RowsAt(s, K) = 1 .. Cardinality(K)
           /\ \A k \in DOMAIN RowsAt(s, K) : Nth(K, k) \in K /\ RowsAt(s, K)[k] = s[Nth(K, k)]
           /\ \A j, k \in DOMAIN RowsAt(s, K) : Nth(K, j) = Nth(K, k) => j = k
           /\ \A n \in K : \E k \in DOMAIN RowsAt(s, K) : Nth(K, k) = n /\ RowsAt(s, K)[k] = s[n]
  <1> DEFINE L == Len(s)
             r == RowsAt(s, K)
  <1>1. L \in Nat /\ K \in SUBSET (1 .. L) /\ DOMAIN s = 1 .. L /\ \A n \in 1 .. L : s[n] \in T
    OBVIOUS
  <1> HIDE DEF L
  <1>2. /\ Cardinality(K) \in Nat
        /\ \A k \in 1 .. Cardinality(K) : Nth(K, k) \in K
        /\ \A j, k \in 1 .. Cardinality(K) : Nth(K, j) = Nth(K, k) => j = k
        /\ \A n \in K : \E k \in 1 .. Cardinality(K) : Nth(K, k) = n
    BY <1>1, NthPosition
  <1>3. r = [k \in 1 .. Cardinality(K) |-> s[Nth(K, k)]]
    BY DEF RowsAt
  <1>4. DOMAIN r = 1 .. Cardinality(K) /\ \A k \in 1 .. Cardinality(K) : r[k] = s[Nth(K, k)]
    BY <1>3
  <1>5. r \in Seq(T)
    BY <1>1, <1>2, <1>3
  <1> HIDE DEF r
  <1>6. \A n \in K : \E k \in DOMAIN r : Nth(K, k) = n /\ r[k] = s[n]
    BY <1>2, <1>4
  <1> QED
    BY <1>2, <1>4, <1>5, <1>6 DEF r

\* Some order of a finite set: each of its elements comes once.
LEMMA OrderOf ==
    ASSUME NEW S, IsFiniteSet(S)
    PROVE  /\ Cardinality(S) \in Nat /\ Order(S) \in [1 .. Cardinality(S) -> S] /\ Order(S) \in Seq(S)
           /\ DOMAIN Order(S) = 1 .. Cardinality(S)
           /\ \A r \in S : \E n \in DOMAIN Order(S) : Order(S)[n] = r
           /\ \A m, n \in DOMAIN Order(S) : Order(S)[m] = Order(S)[n] => m = n
  <1> DEFINE N == Cardinality(S)
             s == Order(S)
  <1>1. N \in Nat /\ ExistsBijection(1 .. N, S)
    BY FS_CardinalityType
  <1>2. \E t \in [1 .. N -> S] : Rng(t) = S
    <2>1. PICK t : t \in Bijection(1 .. N, S)
      BY <1>1 DEF ExistsBijection
    <2>2. t \in [1 .. N -> S] /\ \A r \in S : \E n \in 1 .. N : t[n] = r
      BY <2>1 DEF Bijection, Surjection
    <2>3. Rng(t) = S
      BY <2>2 DEF Rng
    <2> QED
      BY <2>2, <2>3
  <1>3. s \in [1 .. N -> S] /\ Rng(s) = S
    BY <1>2 DEF Order
  <1> HIDE DEF s
  <1>4. s \in Surjection(1 .. N, S)
    BY <1>3 DEF Surjection, Rng
  <1>5. IsFiniteSet(1 .. N) /\ Cardinality(1 .. N) = N
    BY <1>1, FS_Interval
  <1>6. s \in Injection(1 .. N, S)
    BY <1>4, <1>5, FS_Surjection
  <1>7. DOMAIN s = 1 .. N
    BY <1>3
  <1>8. \A m, n \in DOMAIN s : s[m] = s[n] => m = n
    BY <1>6, <1>7 DEF Injection, IsInjective
  <1>9. \A r \in S : \E n \in DOMAIN s : s[n] = r
    BY <1>3 DEF Rng
  <1>10. s \in Seq(S)
    BY <1>1, <1>3
  <1> QED
    BY <1>1, <1>3, <1>7, <1>8, <1>9, <1>10 DEF s

\* Sets of rows of peers are finite.
LEMMA RowsFinite ==
    ASSUME NEW P \in SUBSET Peers, NEW v \in [Peers -> Nat]
    PROVE  /\ IsFiniteSet({[id |-> p, ver |-> v[p]] : p \in P})
           /\ {[id |-> p, ver |-> v[p]] : p \in P} \subseteq Rows
  <1> DEFINE R == {[id |-> p, ver |-> v[p]] : p \in P}
             f == [p \in P |-> [id |-> p, ver |-> v[p]]]
  <1>1. IsFiniteSet(P)
    BY FS_Subset, PeersAssumption
  <1>2. f \in Surjection(P, R)
    BY DEF Surjection
  <1>3. R \subseteq Rows
    BY DEF Rows
  <1> HIDE DEF f, R
  <1>4. IsFiniteSet(R)
    BY <1>1, <1>2, FS_Surjection
  <1> QED
    BY <1>3, <1>4 DEF R

\* The answer of the server to a load of peers has each of them once.
LEMMA OrderRows ==
    ASSUME srv \in [Peers -> Nat], NEW i
    PROVE  /\ Order(RowsOf(i)) \in Seq(Rows) /\ Cardinality(RowsOf(i)) \in Nat
           /\ Len(Order(RowsOf(i))) = Cardinality(RowsOf(i))
           /\ \A m, n \in DOMAIN Order(RowsOf(i)) : Order(RowsOf(i))[m].id = Order(RowsOf(i))[n].id => m = n
           /\ \A n \in DOMAIN Order(RowsOf(i)) :
                 LET r == Order(RowsOf(i))[n] IN r.id \in Peers /\ Home[r.id] = i /\ r.ver = srv[r.id] /\ r.ver # 0
           /\ \A p \in Peers : Home[p] = i /\ srv[p] # 0 => \E n \in DOMAIN Order(RowsOf(i)) : Order(RowsOf(i))[n].id = p
  <1> DEFINE P == {q \in Peers : srv[q] # 0 /\ Home[q] = i}
             R == RowsOf(i)
             s == Order(R)
  <1>1. R = {[id |-> p, ver |-> srv[p]] : p \in P}
    BY DEF RowsOf
  <1>2. IsFiniteSet(R) /\ R \subseteq Rows
    BY <1>1, RowsFinite
  <1>3. \A r \in R : /\ r.id \in Peers /\ Home[r.id] = i /\ r.ver = srv[r.id] /\ r.ver # 0
                     /\ r = [id |-> r.id, ver |-> srv[r.id]]
    BY <1>1
  <1>4. \A p \in Peers : Home[p] = i /\ srv[p] # 0 => [id |-> p, ver |-> srv[p]] \in R
    BY <1>1
  <1> HIDE DEF R
  <1>5. /\ Cardinality(R) \in Nat /\ s \in [1 .. Cardinality(R) -> R] /\ s \in Seq(R) /\ DOMAIN s = 1 .. Cardinality(R)
        /\ \A r \in R : \E n \in DOMAIN s : s[n] = r
        /\ \A m, n \in DOMAIN s : s[m] = s[n] => m = n
    BY <1>2, OrderOf
  <1> HIDE DEF s
  <1>6. s \in Seq(Rows) /\ Len(s) = Cardinality(R)
    BY <1>2, <1>5
  <1>7. \A n \in DOMAIN s : s[n] \in R
    BY <1>5
  <1>8. \A m, n \in DOMAIN s : s[m].id = s[n].id => m = n
    BY <1>3, <1>5, <1>7
  <1>9. \A p \in Peers : Home[p] = i /\ srv[p] # 0 => \E n \in DOMAIN s : s[n].id = p
    <2> TAKE p \in Peers
    <2> HAVE Home[p] = i /\ srv[p] # 0
    <2>1. PICK n \in DOMAIN s : s[n] = [id |-> p, ver |-> srv[p]]
      BY <1>4, <1>5
    <2> QED
      BY <2>1
  <1> QED
    BY <1>3, <1>5, <1>6, <1>7, <1>8, <1>9 DEF s, R

\* The answer to a creation has a row for each of the new peers.
LEMMA OrderNew ==
    ASSUME NEW P \in SUBSET Peers, NEW v \in Nat, NEW s, s = Order(Stamped(P, v))
    PROVE  /\ s \in Seq(Rows)
           /\ \A n \in DOMAIN s : s[n].id \in P /\ s[n].ver = v
           /\ \A m, n \in DOMAIN s : s[m].id = s[n].id => m = n
           /\ \A p \in P : \E n \in DOMAIN s : s[n].id = p
  <1> DEFINE f == [p \in Peers |-> v]
             R == Stamped(P, v)
  <1>1. R = {[id |-> p, ver |-> f[p]] : p \in P}
    BY DEF Stamped
  <1>2. IsFiniteSet(R) /\ R \subseteq Rows
    BY <1>1, RowsFinite
  <1>3. (\A r \in R : r.id \in P /\ r.ver = v /\ r = [id |-> r.id, ver |-> v]) /\ \A p \in P : [id |-> p, ver |-> v] \in R
    BY DEF Stamped
  <1> HIDE DEF R
  <1>5. /\ s \in [1 .. Cardinality(R) -> R] /\ s \in Seq(R) /\ DOMAIN s = 1 .. Cardinality(R)
        /\ \A r \in R : \E n \in DOMAIN s : s[n] = r
        /\ \A m, n \in DOMAIN s : s[m] = s[n] => m = n
    BY <1>2, OrderOf DEF R
  <1>6. s \in Seq(Rows) /\ \A n \in DOMAIN s : s[n] \in R
    <2>1. \A n \in DOMAIN s : s[n] \in R
      BY <1>5
    <2> QED
      BY <1>2, <1>5, <2>1
  <1>7. \A p \in P : \E n \in DOMAIN s : s[n].id = p
    <2> TAKE p \in P
    <2>1. PICK n \in DOMAIN s : s[n] = [id |-> p, ver |-> v]
      BY <1>3, <1>5
    <2> QED
      BY <2>1
  <1>8. \A m, n \in DOMAIN s : s[m].id = s[n].id => m = n
    <2> TAKE m, n \in DOMAIN s
    <2>1. s[m] = [id |-> s[m].id, ver |-> v] /\ s[n] = [id |-> s[n].id, ver |-> v]
      <3>1. \A r \in R : r = [id |-> r.id, ver |-> v]
        BY <1>3
      <3> QED
        BY <1>6, <3>1, Zenon
    <2>2. s[m].id = s[n].id => s[m] = s[n]
      BY <2>1, Zenon
    <2> QED
      BY <1>5, <2>2
  <1>9. \A n \in DOMAIN s : s[n].id \in P /\ s[n].ver = v
    BY <1>3, <1>6
  <1> QED
    BY <1>6, <1>7, <1>8, <1>9

\* The interfaces of a list, in the server's order.
LEMMA ListedOf ==
    ASSUME NEW S
    PROVE  Listed(S) \in Seq(IfaceSet)
  BY RowsAtOf, PeersAssumption DEF Listed

LEMMA FirstOf ==
    ASSUME NEW s \in Seq(IfaceSet)
    PROVE  /\ First(s) \in IfaceSet \cup {None} /\ None \notin IfaceSet
           /\ s = <<>> <=> First(s) = None
           /\ First(s) # None => First(s) \in Rng(s) /\ First(s) \in IfaceSet
  <1>1. None \notin IfaceSet
    BY PeersAssumption
  <1>2. CASE s = <<>>
    BY <1>1, <1>2 DEF First
  <1>3. CASE s # <<>>
    <2>1. 1 \in DOMAIN s /\ s[1] \in IfaceSet
      BY <1>3
    <2> QED
      BY <1>1, <1>3, <2>1 DEF First, Rng
  <1> QED
    BY <1>2, <1>3

-----------------------------------------------------------------------------
(* Kinds and groups of calls *)

\* Which calls write which part of the stores.
LEMMA GroupKinds ==
    ASSUME NEW k \in Kinds
    PROVE  /\ Group(k) = "stats" <=> k = "stats"
           /\ Group(k) = "peerconf" <=> k = "peerconf"
           /\ Group(k) = "ifconf" <=> k \in {"ifconf", "download"}
           /\ Group(k) = "list" <=> k \in {"ifaces", "peers", "defaults", "newif", "delif"} \cup Edits
           /\ Group(k) \in Groups
  <1>1. CASE k \in {"ifaces", "peers", "defaults", "newif", "delif"} \cup Edits
    BY <1>1 DEF Group, Groups, Edits
  <1>2. CASE k \in {"stats", "peerconf", "ifconf", "download"}
    BY <1>2 DEF Group, Groups, Edits
  <1> QED
    BY <1>1, <1>2 DEF Kinds, Edits

\* An ask that names what its kind is about.
AskOK(a) ==
    /\ a.kind \in Kinds /\ a.of \in Peers \cup IfaceSet \cup {None} /\ a.ids \subseteq Peers /\ a.from \in {"mount", "user"}
    /\ a.kind \in OfPeer => a.of \in Peers
    /\ a.kind \notin OfPeer \cup {"ifaces"} => a.of \in IfaceSet
    /\ a.kind \notin Pushes => a.ids = {}
    /\ \A p \in a.ids : Home[p] = a.of /\ srv[p] = 0
    /\ \A c \in calls : c.ids \cap a.ids = {}

LEMMA AskFields ==
    ASSUME NEW kind, NEW of, NEW ids, NEW from
    PROVE  /\ Ask(kind, of, ids, from).kind = kind /\ Ask(kind, of, ids, from).of = of
           /\ Ask(kind, of, ids, from).ids = ids /\ Ask(kind, of, ids, from).from = from
  BY DEF Ask

\* An ask that creates nothing.
LEMMA AskPlain ==
    ASSUME NEW kind \in Kinds \ Pushes, NEW of, NEW from \in {"mount", "user"},
           IF kind \in OfPeer THEN of \in Peers ELSE IF kind = "ifaces" THEN of = None ELSE of \in IfaceSet
    PROVE  AskOK(Ask(kind, of, {}, from))
  BY AskFields DEF AskOK, OfPeer

\* The call an ask becomes.
LEMMA CallOf ==
    ASSUME NEW a, AskOK(a), NEW n \in Nat, style' \in Styles, visit' \in Nat
    PROVE  /\ Call(a, n) \in Calls /\ Call(a, n).no = n /\ Call(a, n).kind = a.kind /\ Call(a, n).of = a.of
           /\ Call(a, n).ids = a.ids /\ Call(a, n).from = a.from /\ Call(a, n).style = style'
           /\ Call(a, n).visit = visit' /\ Call(a, n).st = "sent" /\ Call(a, n).ok = FALSE /\ Call(a, n).rows = <<>>
  <1>1. <<>> \in Seq(Rows)
    OBVIOUS
  <1> QED
    BY <1>1 DEF Call, Calls, AskOK

\* Sending no call, one and two.
LEMMA SendNone ==
    ASSUME issued \in Nat, NEW gone, Send(gone, <<>>)
    PROVE  calls' = calls \ gone /\ issued' = issued
  <1>1. DOMAIN <<>> = {} /\ Len(<<>>) = 0
    OBVIOUS
  <1> QED
    BY <1>1 DEF Send

LEMMA SendOne ==
    ASSUME issued \in Nat, NEW gone, NEW a, Send(gone, <<a>>)
    PROVE  calls' = (calls \ gone) \cup {Call(a, issued + 1)} /\ issued' = issued + 1
  <1>1. DOMAIN <<a>> = {1} /\ Len(<<a>>) = 1 /\ <<a>>[1] = a
    OBVIOUS
  <1>2. {Call(<<a>>[n], issued + n) : n \in DOMAIN <<a>>} = {Call(a, issued + 1)}
    BY <1>1
  <1> QED
    BY <1>1, <1>2 DEF Send

LEMMA SendTwo ==
    ASSUME issued \in Nat, NEW a, NEW b, Send({}, <<a, b>>)
    PROVE  calls' = calls \cup {Call(a, issued + 1), Call(b, issued + 2)} /\ issued' = issued + 2
  <1>1. DOMAIN <<a, b>> = {1, 2} /\ Len(<<a, b>>) = 2 /\ <<a, b>>[1] = a /\ <<a, b>>[2] = b
    OBVIOUS
  <1>2. {Call(<<a, b>>[n], issued + n) : n \in DOMAIN <<a, b>>} = {Call(a, issued + 1), Call(b, issued + 2)}
    BY <1>1
  <1> QED
    BY <1>1, <1>2 DEF Send

\* Which groups a step makes orderly again.
LEMMA RestoredNone == Restored(<<>>) = orderly
  <1>1. DOMAIN <<>> = {}
    OBVIOUS
  <1> QED
    BY <1>1 DEF Restored

LEMMA RestoredOne ==
    ASSUME NEW a
    PROVE  /\ orderly \subseteq Restored(<<a>>)
           /\ \A g \in Restored(<<a>>) : g \in orderly \/ (g = Group(a.kind) /\ InFlight(g) = {} /\ a.kind \in Loads)
  <1>1. DOMAIN <<a>> = {1} /\ <<a>>[1] = a
    OBVIOUS
  <1> QED
    BY <1>1 DEF Restored

LEMMA RestoredTwo ==
    ASSUME NEW a, NEW b
    PROVE  \A g \in Restored(<<a, b>>) :
              \/ g \in orderly
              \/ g = Group(a.kind) /\ InFlight(g) = {} /\ a.kind \in Loads
              \/ g = Group(b.kind) /\ InFlight(g) = {} /\ b.kind \in Loads
  <1>1. DOMAIN <<a, b>> = {1, 2} /\ <<a, b>>[1] = a /\ <<a, b>>[2] = b
    OBVIOUS
  <1> QED
    BY <1>1 DEF Restored

\* Calls are told apart by their numbers.
LEMMA Numbered ==
    ASSUME TypeOK, CallsTold
    PROVE  /\ issued \in Nat
           /\ \A c, d \in calls : c.no = d.no => c = d
           /\ \A c \in calls : /\ c \in Calls /\ c.no \in Nat /\ c.no >= 1 /\ c.no <= issued /\ c.kind \in Kinds
                               /\ c.st \in {"sent", "answered"} /\ c.ok \in BOOLEAN
  <1>1. issued \in Nat /\ calls \subseteq Calls
    BY DEF TypeOK
  <1>2. \A c \in calls : c.no \in 1 .. issued /\ \A d \in calls : d # c => d.no # c.no
    BY DEF CallsTold
  <1>3. \A c \in calls : c.kind \in Kinds /\ c.st \in {"sent", "answered"} /\ c.ok \in BOOLEAN
    BY <1>1 DEF Calls
  <1> QED
    BY <1>1, <1>2, <1>3

LEMMA InGroup ==
    ASSUME NEW c, NEW g
    PROVE  c \in InFlight(g) <=> c \in calls /\ Group(c.kind) = g
  BY DEF InFlight

-----------------------------------------------------------------------------
(* Calls stay told apart *)

\* What a call is about.
About(c) ==
    /\ c.kind \in OfPeer => c.of \in Peers
    /\ c.kind \notin OfPeer \cup {"ifaces"} => c.of \in IfaceSet
    /\ c.rows \in Seq(IF c.kind \in {"ifaces", "newif"} THEN IfaceSet ELSE Rows)
    /\ c.ok => c.st = "answered" /\ (c.kind = "update" => c.rows = <<[id |-> c.of, ver |-> c.no]>>)
    /\ c.ok /\ c.kind \in Pushes => c.rows = Order(Stamped(c.ids, c.no))
    /\ c.kind \notin Pushes => c.ids = {}
    /\ \A p \in c.ids : Home[p] = c.of

LEMMA ToldAbout ==
    CallsTold <=> /\ \A c \in calls : c.no \in 1 .. issued /\ About(c)
                  /\ \A c \in calls : \A p \in c.ids : c.st = "sent" => srv[p] = 0
                  /\ \A c, d \in calls : d # c => d.no # c.no /\ d.ids \cap c.ids = {}
  BY DEF CallsTold, About

LEMMA ToldAboutNext ==
    CallsTold' <=> /\ \A c \in calls' : c.no \in 1 .. issued' /\ About(c)
                   /\ \A c \in calls' : \A p \in c.ids : c.st = "sent" => srv'[p] = 0
                   /\ \A c, d \in calls' : d # c => d.no # c.no /\ d.ids \cap c.ids = {}
  BY DEF CallsTold, About

LEMMA CallAbout ==
    ASSUME NEW a, AskOK(a), NEW n \in Nat, style' \in Styles, visit' \in Nat
    PROVE  About(Call(a, n))
  <1> DEFINE k == Call(a, n)
  <1>1. k.kind = a.kind /\ k.of = a.of /\ k.ids = a.ids /\ k.ok = FALSE /\ k.rows = <<>>
    BY CallOf
  <1> HIDE DEF k
  <1>2. <<>> \in Seq(Rows) /\ <<>> \in Seq(IfaceSet)
    OBVIOUS
  <1>3. k.rows \in Seq(IF k.kind \in {"ifaces", "newif"} THEN IfaceSet ELSE Rows)
    BY <1>1, <1>2
  <1>4. About(k)
    BY <1>1, <1>3 DEF About, AskOK
  <1> QED
    BY <1>4 DEF k

\* Calls go.
LEMMA ToldGone ==
    ASSUME CallsTold, calls' \subseteq calls, issued' = issued, srv' = srv
    PROVE  CallsTold'
  BY ToldAbout, ToldAboutNext

\* Calls go and new ones come, with new numbers; at most one creates peers.
LEMMA ToldSend ==
    ASSUME TypeOK, CallsTold, NEW K \in SUBSET Calls, calls' \subseteq calls \cup K, issued' \in Nat, issued <= issued',
           \A k \in K : k.no \in issued + 1 .. issued' /\ About(k) /\ \A p \in k.ids : srv[p] = 0,
           \A k \in K : \A c \in calls : c.ids \cap k.ids = {},
           \A k, l \in K : k # l => k.no # l.no /\ k.ids \cap l.ids = {},
           srv' = srv
    PROVE  CallsTold'
  <1>1. issued \in Nat /\ \A c \in calls : c.no \in 1 .. issued
    BY DEF TypeOK, CallsTold
  <1>2. \A c \in calls' : c.no \in 1 .. issued' /\ About(c) /\ \A p \in c.ids : c.st = "sent" => srv'[p] = 0
    <2> TAKE c \in calls'
    <2>1. CASE c \in calls
      <3>1. About(c) /\ \A p \in c.ids : c.st = "sent" => srv'[p] = 0
        BY <2>1, ToldAbout
      <3>2. c.no \in 1 .. issued'
        BY <1>1, <2>1
      <3> QED
        BY <3>1, <3>2
    <2>2. CASE c \in K
      <3>1. c.no \in 1 .. issued'
        BY <1>1, <2>2
      <3> QED
        BY <2>2, <3>1
    <2> QED
      BY <2>1, <2>2
  <1>3. \A c, d \in calls' : d # c => d.no # c.no /\ d.ids \cap c.ids = {}
    <2> TAKE c, d \in calls'
    <2> HAVE d # c
    <2>1. CASE c \in calls /\ d \in calls
      BY <2>1, ToldAbout
    <2>2. CASE c \in K /\ d \in K
      BY <2>2
    <2>3. CASE c \in calls /\ d \in K
      <3>1. c.no \in 1 .. issued /\ d.no \in issued + 1 .. issued' /\ c.ids \cap d.ids = {}
        BY <1>1, <2>3
      <3>2. d.no # c.no
        BY <1>1, <3>1
      <3> QED
        BY <3>1, <3>2
    <2>4. CASE c \in K /\ d \in calls
      <3>1. d.no \in 1 .. issued /\ c.no \in issued + 1 .. issued' /\ d.ids \cap c.ids = {}
        BY <1>1, <2>4
      <3>2. d.no # c.no
        BY <1>1, <3>1
      <3> QED
        BY <3>1, <3>2
    <2> QED
      BY <2>1, <2>2, <2>3, <2>4
  <1> QED
    BY <1>2, <1>3, ToldAboutNext

\* The server answers a call, or it is lost.
LEMMA ToldSwap ==
    ASSUME CallsTold, NEW c \in calls, NEW d, d.no = c.no, d.ids = c.ids, d.st = "answered", About(d),
           calls' = (calls \ {c}) \cup {d}, issued' = issued,
           \A e \in calls : \A p \in e.ids : e # c /\ srv[p] = 0 => srv'[p] = 0
    PROVE  CallsTold'
  <1>1. \A e \in calls' : e = d \/ (e \in calls /\ e # c)
    OBVIOUS
  <1>2. \A e \in calls' : e.no \in 1 .. issued' /\ About(e) /\ \A p \in e.ids : e.st = "sent" => srv'[p] = 0
    <2> TAKE e \in calls'
    <2>1. CASE e = d
      BY <2>1, ToldAbout
    <2>2. CASE e \in calls /\ e # c
      BY <2>2, ToldAbout
    <2> QED
      BY <1>1, <2>1, <2>2
  <1>3. \A e, f \in calls' : f # e => f.no # e.no /\ f.ids \cap e.ids = {}
    BY <1>1, ToldAbout
  <1> QED
    BY <1>2, <1>3, ToldAboutNext

-----------------------------------------------------------------------------
(* What the person does *)

Sound == TypeOK /\ CallsTold /\ Aligned(table)

\* The getter gives a listed interface when there is one.
LEMMA SelectedOf ==
    ASSUME TypeOK
    PROVE  /\ Rng(interfaces) \subseteq IfaceSet /\ GetSelected \in IfaceSet \cup {None}
           /\ interfaces # <<>> => GetSelected \in IfaceSet /\ GetSelected \in Rng(interfaces)
           /\ GetSelected # None => GetSelected \in IfaceSet
  <1>1. interfaces \in Seq(IfaceSet)
    BY DEF TypeOK
  <1>2. Rng(interfaces) \subseteq IfaceSet
    BY <1>1 DEF Rng
  <1>3. /\ First(interfaces) \in IfaceSet \cup {None}
        /\ interfaces = <<>> <=> First(interfaces) = None
        /\ First(interfaces) # None => First(interfaces) \in Rng(interfaces) /\ First(interfaces) \in IfaceSet
    BY <1>1, FirstOf
  <1> QED
    BY <1>2, <1>3 DEF GetSelected

LEMMA CountNat ==
    ASSUME NEW s \in Seq(Rows), NEW f
    PROVE  Count(s, f) \in Nat
  <1> DEFINE K == {n \in DOMAIN s : s[n].id \in f}
  <1>1. K \in SUBSET DOMAIN s
    OBVIOUS
  <1> HIDE DEF K
  <1>2. Cardinality(K) \in Nat
    BY <1>1, RowsAtOf
  <1> QED
    BY <1>2 DEF Count, K

\* What the page shows when it asks for something.
Shown(a) ==
    \/ /\ a.kind = "ifaces" /\ dialog' = Shut /\ style' \in Styles /\ visit' = visit + 1
       /\ configString' = [peer |-> NoConfig, iface |-> NoConfig]
    \/ /\ a.kind = "peerconf" /\ dialog' = [kind |-> "peer", id |-> a.of] /\ style' \in Styles
       /\ UNCHANGED <<configString, visit>>
    \/ /\ a.kind = "ifconf" /\ dialog' = [kind |-> "iface", id |-> a.of]
       /\ UNCHANGED <<style, configString, visit>>
    \/ /\ a.kind = "download" /\ dialog = Shut
       /\ UNCHANGED <<dialog, style, configString, visit>>
    \/ /\ a.kind \in {"defaults", "delif", "newif"} \cup Edits
       /\ UNCHANGED <<dialog, style, configString, visit>>

\* The person asks for a.
Asking(a) ==
    /\ AskOK(a) /\ Clicks(<<a>>) /\ Shown(a)
    /\ UNCHANGED <<lists, table, filter, config, saved>>

\* The person asks for nothing.
Looking ==
    /\ UNCHANGED <<server, lists, views, visit, calls, issued, orderly>> /\ acts' \in Nat
    /\ table' \in Tables(Sizes) /\ Aligned(table') /\ filter' \subseteq Peers
    /\ dialog' \in {dialog, Shut} \cup [kind : {"edit"}, id : IfaceSet]

LEMMA PressAsks ==
    ASSUME Sound, NEW kind \in {"defaults", "delif", "newif"} \cup Edits, NEW of, NEW ids, Press(kind, of, ids),
           AskOK(Ask(kind, of, ids, "user"))
    PROVE  \E a : Asking(a)
  <1> DEFINE a == Ask(kind, of, ids, "user")
  <1>1. a.kind = kind
    BY AskFields
  <1>2. AskOK(a) /\ Clicks(<<a>>) /\ UNCHANGED <<lists, table, filter, dialog, views, visit>>
    BY DEF Press
  <1> HIDE DEF a
  <1>3. UNCHANGED <<dialog, style, configString, visit>> /\ UNCHANGED <<lists, table, filter, config, saved>>
    BY <1>2 DEF views
  <1>4. Shown(a)
    BY <1>1, <1>3 DEF Shown
  <1>5. Asking(a)
    BY <1>2, <1>3, <1>4 DEF Asking
  <1> QED
    BY <1>5

LEMMA PageLooks ==
    ASSUME Sound, Page
    PROVE  Looking
  <1>1. /\ table \in Tables(Sizes) /\ filter \subseteq Peers /\ issued \in Nat /\ acts \in Nat /\ peers \in Seq(Rows)
        /\ Aligned(table)
    BY DEF Sound, TypeOK
  <1>2. /\ UNCHANGED <<lists, dialog, views, visit>> /\ Clicks(<<>>)
    BY DEF Page
  <1>3. UNCHANGED <<server, calls, issued, orderly>> /\ acts' \in Nat
    <2>1. Send({}, <<>>) /\ orderly' = Restored(<<>>) /\ UNCHANGED server /\ Act
      BY <1>2 DEF Clicks
    <2>2. calls' = calls \ {} /\ issued' = issued
      BY <1>1, <2>1, SendNone
    <2> QED
      BY <1>1, <2>1, <2>2, RestoredNone DEF Act
  <1>4. table' \in Tables(Sizes) /\ Aligned(table') /\ filter' \subseteq Peers
    <2>1. CASE table' \in Moves(table, FilteredCount, visiblePages(currentPage(table), table.pages, Width), Sizes) /\ filter' = filter
      <3>1. FilteredCount \in Nat
        BY <1>1, CountNat DEF FilteredCount
      <3> DEFINE n == FilteredCount
      <3> HIDE DEF n
      <3>2. n \in Nat /\ table' \in Moves(table, n, visiblePages(currentPage(table), table.pages, Width), Sizes)
        BY <2>1, <3>1 DEF n
      <3>3. table' \in Tables(Sizes) /\ Aligned(table')
        BY <1>1, <3>2, MovesAligned
      <3> QED
        BY <1>1, <2>1, <3>3
    <2>2. CASE filter' \in Filters /\ table' = afterPageSizeChange(table, Count(peers, filter'))
      <3>1. Count(peers, filter') \in Nat /\ filter' \subseteq Peers
        BY <1>1, <2>2, CountNat, PeersAssumption
      <3>2. table' \in Tables(Sizes) /\ Aligned(table')
        BY <1>1, <2>2, <3>1, ResetAligned
      <3> QED
        BY <3>1, <3>2
    <2> QED
      BY <2>1, <2>2 DEF Page
  <1> QED
    BY <1>2, <1>3, <1>4 DEF Looking

\* Whatever the person does, the page looks, asks for one thing or selects.
LEMMA PersonCases ==
    ASSUME Sound, Person
    PROVE  Looking \/ (\E a : Asking(a)) \/ (\E i \in IfaceSet : Select(i))
  <1>0. /\ TypeOK /\ issued \in Nat /\ acts \in Nat /\ style \in Styles /\ visit \in Nat /\ Styles # {}
        /\ dialog \in {Shut} \cup [kind : {"peer"}, id : Peers] \cup [kind : {"iface", "edit"}, id : IfaceSet]
        /\ table \in Tables(Sizes) /\ Aligned(table) /\ filter \subseteq Peers
    BY PeersAssumption DEF Sound, TypeOK
  <1>1. CASE Revisit
    <2> DEFINE a == Ask("ifaces", None, {}, "mount")
    <2>1. a.kind = "ifaces" /\ AskOK(a)
      BY AskFields, AskPlain DEF Kinds, Pushes, OfPeer
    <2>2. Clicks(<<a>>)
      BY <1>1 DEF Revisit, LoadInterfaces
    <2> HIDE DEF a
    <2>3. (CHOOSE x \in Styles : TRUE) \in Styles
      BY <1>0
    <2>4. Shown(a) /\ UNCHANGED <<lists, table, filter, config, saved>>
      BY <1>1, <2>1, <2>3 DEF Revisit, Shown
    <2> QED
      BY <2>1, <2>2, <2>4 DEF Asking
  <1>2. CASE Page
    BY <1>2, PageLooks
  <1>3. ASSUME NEW kind \in {"ifconf", "download"}
        PROVE  interfaces # <<>> => AskOK(Ask(kind, GetSelected, {}, "user")) /\ Ask(kind, GetSelected, {}, "user").kind = kind
                                    /\ Ask(kind, GetSelected, {}, "user").of = GetSelected
    BY <1>0, SelectedOf, AskFields, AskPlain DEF Kinds, Pushes, OfPeer
  <1>4. CASE OpenInterfaceView
    <2> DEFINE a == Ask("ifconf", GetSelected, {}, "user")
    <2>1. a.kind = "ifconf" /\ a.of = GetSelected /\ AskOK(a)
      BY <1>3, <1>4 DEF OpenInterfaceView
    <2>2. Clicks(<<a>>)
      BY <1>4 DEF OpenInterfaceView
    <2> HIDE DEF a
    <2>3. Shown(a) /\ UNCHANGED <<lists, table, filter, config, saved>>
      BY <1>4, <2>1 DEF OpenInterfaceView, Shown, views
    <2> QED
      BY <2>1, <2>2, <2>3 DEF Asking
  <1>5. CASE Download
    <2> DEFINE a == Ask("download", GetSelected, {}, "user")
    <2>1. a.kind = "download" /\ AskOK(a)
      BY <1>3, <1>5 DEF Download
    <2>2. Clicks(<<a>>)
      BY <1>5 DEF Download
    <2> HIDE DEF a
    <2>3. Shown(a) /\ UNCHANGED <<lists, table, filter, config, saved>>
      BY <1>5, <2>1 DEF Download, Shown, views
    <2> QED
      BY <2>1, <2>2, <2>3 DEF Asking
  <1>6. CASE OpenInterfaceEdit
    <2>1. dialog' \in [kind : {"edit"}, id : IfaceSet]
      BY <1>0, <1>6, SelectedOf DEF OpenInterfaceEdit
    <2> QED
      BY <1>0, <1>6, <2>1 DEF OpenInterfaceEdit, Looking
  <1>7. CASE Close
    BY <1>0, <1>7 DEF Close, Looking
  <1>8. ASSUME NEW kind \in {"defaults", "delif"}, dialog.kind = "edit", Press(kind, dialog.id, {}) PROVE \E a : Asking(a)
    <2>1. dialog.id \in IfaceSet
      BY <1>0, <1>8 DEF Shut
    <2>2. AskOK(Ask(kind, dialog.id, {}, "user"))
      BY <2>1, AskPlain DEF Kinds, Pushes, OfPeer
    <2> QED
      BY <1>8, <2>2, PressAsks
  <1>9. ASSUME NEW i \in IfaceSet, CreateInterface(i) PROVE \E a : Asking(a)
    <2>1. AskOK(Ask("newif", i, {}, "user"))
      BY AskPlain DEF Kinds, Pushes, OfPeer
    <2> QED
      BY <1>9, <2>1, PressAsks DEF CreateInterface
  <1>10. ASSUME NEW p \in Peers, Clicks(<<Ask("peerconf", p, {}, "user")>>), dialog' = [kind |-> "peer", id |-> p],
                style' \in Styles, UNCHANGED <<lists, table, filter, config, configString, saved, visit>>
         PROVE  \E a : Asking(a)
    <2> DEFINE a == Ask("peerconf", p, {}, "user")
    <2>1. a.kind = "peerconf" /\ a.of = p /\ AskOK(a)
      BY AskFields, AskPlain DEF Kinds, Pushes, OfPeer
    <2>2. Clicks(<<a>>)
      BY <1>10
    <2> HIDE DEF a
    <2>3. Shown(a)
      BY <1>10, <2>1 DEF Shown
    <2>4. Asking(a)
      BY <1>10, <2>1, <2>2, <2>3 DEF Asking
    <2> QED
      BY <2>4
  <1>11. ASSUME NEW x \in Styles, SetStyle(x) PROVE \E a : Asking(a)
    <2>1. dialog.id \in Peers /\ dialog = [kind |-> "peer", id |-> dialog.id]
      BY <1>0, <1>11 DEF SetStyle, Shut
    <2> QED
      BY <1>10, <1>11, <2>1 DEF SetStyle
  <1>12. ASSUME NEW p \in Peers, OpenPeerView(p) PROVE \E a : Asking(a)
    BY <1>0, <1>10, <1>12 DEF OpenPeerView, views
  <1>13. ASSUME NEW p \in Peers, NEW kind \in {"update", "delete"}, Press(kind, p, {}) PROVE \E a : Asking(a)
    <2>1. AskOK(Ask(kind, p, {}, "user"))
      BY AskPlain DEF Kinds, Pushes, OfPeer
    <2> QED
      BY <1>13, <2>1, PressAsks DEF Edits
  <1>14. ASSUME NEW ids \in SUBSET Peers, NEW kind \in Pushes, CreatePeers(kind, ids) PROVE \E a : Asking(a)
    <2> DEFINE a == Ask(kind, GetSelected, ids, "user")
    <2>1. a.kind = kind /\ a.of = GetSelected /\ a.ids = ids /\ a.from = "user"
      BY AskFields
    <2>2. GetSelected \in IfaceSet
      BY <1>0, <1>14, SelectedOf DEF CreatePeers
    <2>3. AskOK(a)
      <3> HIDE DEF a
      <3>1. (\A p \in ids : srv[p] = 0 /\ Home[p] = GetSelected) /\ (\A c \in calls : c.ids \cap ids = {})
        BY <1>14 DEF CreatePeers
      <3>2. a.kind \in Kinds /\ a.kind \in Pushes /\ a.kind \notin OfPeer
        BY <2>1 DEF Kinds, Pushes, OfPeer
      <3> QED
        BY <2>1, <2>2, <3>1, <3>2 DEF AskOK
    <2>4. Press(kind, GetSelected, ids)
      BY <1>14 DEF CreatePeers
    <2> QED
      BY <2>3, <2>4, PressAsks DEF Edits, Pushes
  <1>15. CASE ApplyPeerDefaults \/ DeleteInterface
    BY <1>8, <1>15 DEF ApplyPeerDefaults, DeleteInterface
  <1>16. ASSUME NEW p \in Peers, UpdatePeer(p) \/ DeletePeer(p) \/ CreatePeer(p) PROVE \E a : Asking(a)
    BY <1>13, <1>14, <1>16 DEF UpdatePeer, DeletePeer, CreatePeer, Pushes
  <1>17. ASSUME NEW ids \in SUBSET Peers, CreateMultiplePeers(ids) PROVE \E a : Asking(a)
    BY <1>14, <1>17 DEF CreateMultiplePeers, Pushes
  <1> QED
    BY <1>1, <1>2, <1>4, <1>5, <1>6, <1>7, <1>9, <1>11, <1>12, <1>15, <1>16, <1>17 DEF Person

-----------------------------------------------------------------------------
(* What a step does to the calls of one group *)

\* None of the calls of g changes.
Untouched(g) == InFlight(g)' = InFlight(g) /\ (g \in orderly' => g \in orderly)

\* The call k of g is sent.
Joined(g, k) ==
    /\ InFlight(g)' = InFlight(g) \cup {k} /\ k.st = "sent" /\ k.ok = FALSE /\ k.no \in Nat
    /\ \A c \in InFlight(g) : c.no < k.no
    /\ g \in orderly' => g \in orderly \/ (InFlight(g) = {} /\ k.kind \in Loads)

\* The call d is the call c, handled or lost.
Same(c, d) ==
    /\ d.no = c.no /\ d.kind = c.kind /\ d.of = c.of /\ d.ids = c.ids /\ d.from = c.from /\ d.style = c.style
    /\ d.visit = c.visit /\ d.st = "answered"

Swapped(g, c, d) ==
    /\ c \in InFlight(g) /\ InFlight(g)' = (InFlight(g) \ {c}) \cup {d} /\ Same(c, d)
    /\ g \in orderly' => g \in orderly

\* The answer of c of g is taken; it did not fail and no older call is in flight.
Taken(g, c) ==
    /\ c \in InFlight(g) /\ c.st = "answered" /\ InFlight(g)' = InFlight(g) \ {c}
    /\ g \in orderly' => g \in orderly /\ ~Fails(c) /\ \A e \in InFlight(g) : c.no <= e.no

\* So it is, and its next call is sent.
Followed(g, c, k) ==
    /\ c \in InFlight(g) /\ c.st = "answered" /\ InFlight(g)' = (InFlight(g) \ {c}) \cup {k}
    /\ k.st = "sent" /\ k.ok = FALSE /\ k.no \in Nat /\ \A e \in InFlight(g) : e.no < k.no
    /\ g \in orderly' => g \in orderly /\ ~Fails(c) /\ \A e \in InFlight(g) : c.no <= e.no

\* The call k is what was asked for in a.
Called(a, k) ==
    /\ k \in Calls /\ k.kind = a.kind /\ k.of = a.of /\ k.ids = a.ids /\ k.from = a.from
    /\ k.style = style' /\ k.visit = visit' /\ k.st = "sent" /\ k.ok = FALSE /\ About(k)

LEMMA CallCalled ==
    ASSUME NEW a, AskOK(a), NEW n \in Nat, style' \in Styles, visit' \in Nat
    PROVE  Called(a, Call(a, n)) /\ Call(a, n).no = n
  BY CallOf, CallAbout DEF Called

\* The type of what Shown shows.
LEMMA ShownTypes ==
    ASSUME TypeOK, NEW a, AskOK(a), Shown(a)
    PROVE  /\ style' \in Styles /\ visit' \in Nat
           /\ dialog' \in {Shut} \cup [kind : {"peer"}, id : Peers] \cup [kind : {"iface", "edit"}, id : IfaceSet]
           /\ configString' \in [peer : Configs, iface : Configs]
  <1>1. /\ style \in Styles /\ visit \in Nat /\ configString \in [peer : Configs, iface : Configs]
        /\ dialog \in {Shut} \cup [kind : {"peer"}, id : Peers] \cup [kind : {"iface", "edit"}, id : IfaceSet]
    BY DEF TypeOK
  <1>2. NoConfig \in Configs
    BY DEF NoConfig, Configs
  <1>3. (a.kind = "peerconf" => a.of \in Peers) /\ (a.kind = "ifconf" => a.of \in IfaceSet)
    BY DEF AskOK, OfPeer
  <1> QED
    BY <1>1, <1>2, <1>3 DEF Shown

LEMMA AskingStep ==
    ASSUME Sound, NEW a, Asking(a)
    PROVE  /\ Sound' /\ UNCHANGED server
           /\ \E k : /\ Called(a, k) /\ Joined(Group(a.kind), k) /\ calls' = calls \cup {k}
                     /\ \A h : h # Group(a.kind) => Untouched(h)
  <1> DEFINE k == Call(a, issued + 1)
  <1>1. TypeOK /\ CallsTold /\ issued \in Nat /\ acts \in Nat /\ AskOK(a) /\ Shown(a) /\ orderly \subseteq Groups
    BY DEF Sound, TypeOK, Asking
  <1>2. Send({}, <<a>>) /\ orderly' = Restored(<<a>>) /\ UNCHANGED server /\ acts' \in Nat
    BY <1>1 DEF Asking, Clicks, Act
  <1>3. /\ style' \in Styles /\ visit' \in Nat
        /\ dialog' \in {Shut} \cup [kind : {"peer"}, id : Peers] \cup [kind : {"iface", "edit"}, id : IfaceSet]
        /\ configString' \in [peer : Configs, iface : Configs]
    BY <1>1, ShownTypes
  <1>4. calls' = (calls \ {}) \cup {k} /\ issued' = issued + 1
    BY <1>1, <1>2, SendOne
  <1>5. Called(a, k) /\ k.no = issued + 1
    BY <1>1, <1>3, CallCalled
  <1> HIDE DEF k
  <1>6. a.kind \in Kinds /\ Group(a.kind) \in Groups
    BY <1>1, GroupKinds DEF AskOK
  <1>7. \A g \in orderly' : g \in orderly \/ (g = Group(a.kind) /\ InFlight(g) = {} /\ a.kind \in Loads)
    BY <1>2, RestoredOne
  <1>8. CallsTold'
    <2> DEFINE K == {k}
    <2>1. K \in SUBSET Calls /\ calls' \subseteq calls \cup K /\ issued' \in Nat /\ issued <= issued' /\ srv' = srv
      BY <1>1, <1>2, <1>4, <1>5 DEF Called, server
    <2>2. \A l \in K : l.no \in issued + 1 .. issued' /\ About(l) /\ \A p \in l.ids : srv[p] = 0
      BY <1>1, <1>4, <1>5 DEF Called, AskOK
    <2>3. \A l \in K : \A c \in calls : c.ids \cap l.ids = {}
      BY <1>1, <1>5 DEF Called, AskOK
    <2>4. \A l, m \in K : l # m => l.no # m.no /\ l.ids \cap m.ids = {}
      OBVIOUS
    <2> HIDE DEF K
    <2> QED
      BY <1>1, <2>1, <2>2, <2>3, <2>4, ToldSend
  <1>9. TypeOK'
    <2>1. calls' \subseteq Calls /\ issued' \in Nat /\ orderly' \subseteq Groups
      BY <1>1, <1>4, <1>5, <1>6, <1>7 DEF Called, TypeOK
    <2>2. UNCHANGED <<srvIfaces, srv, interfaces, selected, peers, statsOf, asked, table, filter, config, saved>>
      BY <1>2 DEF Asking, lists, server
    <2> QED
      BY <1>1, <1>2, <1>3, <2>1, <2>2 DEF TypeOK
  <1>10. Aligned(table)'
    BY DEF Sound, Asking
  <1>11. ASSUME NEW h, h # Group(a.kind) PROVE Untouched(h)
    <2>1. InFlight(h)' = InFlight(h)
      BY <1>4, <1>5, <1>11 DEF InFlight, Called
    <2> QED
      BY <1>7, <1>11, <2>1 DEF Untouched
  <1>12. Joined(Group(a.kind), k)
    <2>1. InFlight(Group(a.kind))' = InFlight(Group(a.kind)) \cup {k}
      BY <1>4, <1>5 DEF InFlight, Called
    <2>2. \A c \in InFlight(Group(a.kind)) : c.no < k.no
      BY <1>1, <1>5, Numbered, InGroup
    <2>3. k.st = "sent" /\ k.ok = FALSE /\ k.no \in Nat /\ k.kind = a.kind
      BY <1>1, <1>5 DEF Called
    <2> QED
      BY <1>7, <2>1, <2>2, <2>3 DEF Joined
  <1>13. calls' = calls \cup {k}
    BY <1>4
  <1> QED
    BY <1>2, <1>5, <1>8, <1>9, <1>10, <1>11, <1>12, <1>13 DEF Sound

LEMMA LookingStep ==
    ASSUME Sound, Looking
    PROVE  Sound' /\ \A g : Untouched(g)
  <1>1. TypeOK /\ CallsTold /\ UNCHANGED <<calls, issued, orderly, srv, srvIfaces>> /\ Aligned(table)'
    BY DEF Sound, Looking, server
  <1>2. CallsTold'
    BY <1>1, ToldGone
  <1>3. TypeOK'
    <2>1. UNCHANGED <<interfaces, selected, peers, statsOf, asked, style, config, configString, saved, visit>>
      BY DEF Looking, lists, views
    <2>2. dialog' \in {Shut} \cup [kind : {"peer"}, id : Peers] \cup [kind : {"iface", "edit"}, id : IfaceSet]
      BY <1>1 DEF Looking, TypeOK
    <2> QED
      BY <1>1, <2>1, <2>2 DEF Looking, TypeOK
  <1>4. ASSUME NEW g PROVE Untouched(g)
    BY <1>1 DEF Untouched, InFlight
  <1> QED
    BY <1>1, <1>2, <1>3, <1>4 DEF Sound

LEMMA PairOf ==
    ASSUME NEW a, NEW b
    PROVE  <<a>> \o <<b>> = <<a, b>>
  <1> DEFINE S == {a, b}
             s == <<a>> \o <<b>>
             t == <<a, b>>
  <1>1. <<a>> \in Seq(S) /\ <<b>> \in Seq(S) /\ Len(<<a>>) = 1 /\ Len(<<b>>) = 1
    OBVIOUS
  <1>2. s \in Seq(S) /\ Len(s) = 2
    BY <1>1
  <1>3. s[1] = a /\ s[2] = b
    BY <1>1
  <1>4. t \in Seq(S) /\ Len(t) = 2 /\ t[1] = a /\ t[2] = b
    OBVIOUS
  <1> HIDE DEF s, t
  <1>5. DOMAIN s = 1 .. 2 /\ DOMAIN t = 1 .. 2 /\ \A n \in 1 .. 2 : s[n] = t[n]
    BY <1>2, <1>3, <1>4
  <1>6. s = t
    <2>1. s = [n \in 1 .. 2 |-> s[n]] /\ t = [n \in 1 .. 2 |-> t[n]]
      BY <1>2, <1>4, <1>5
    <2> QED
      BY <1>5, <2>1
  <1> QED
    BY <1>6 DEF s, t

\* The selector loads the peers and the statistics of i.
LEMMA SelectStep ==
    ASSUME Sound, NEW i \in IfaceSet, Select(i)
    PROVE  /\ Sound' /\ UNCHANGED <<server, style, visit, dialog, config, configString, saved>>
           /\ \E k, l : /\ k.kind = "peers" /\ k.of = i /\ k.from = "user" /\ l.kind = "stats" /\ l.of = i
                        /\ Joined("list", k) /\ Joined("stats", l)
                        /\ \A h : h # "list" /\ h # "stats" => Untouched(h)
  <1> DEFINE a == Ask("peers", i, {}, "user")
             b == Ask("stats", i, {}, "user")
             k == Call(a, issued + 1)
             l == Call(b, issued + 2)
  <1>1. TypeOK /\ CallsTold /\ issued \in Nat /\ acts \in Nat /\ orderly \subseteq Groups /\ Aligned(table)
        /\ style \in Styles /\ visit \in Nat
    BY DEF Sound, TypeOK
  <1>2. AskOK(a) /\ AskOK(b)
    BY AskPlain DEF Kinds, Pushes, OfPeer
  <1>3. a.kind = "peers" /\ a.of = i /\ a.from = "user" /\ a.ids = {} /\ b.kind = "stats" /\ b.of = i /\ b.ids = {}
    BY AskFields
  <1>4. LoadPeers(i, "user") \o LoadStats(i) = <<a, b>>
    <2>1. i # None
      BY PeersAssumption
    <2>2. LoadPeers(i, "user") = <<a>> /\ LoadStats(i) = <<b>>
      BY <2>1 DEF LoadPeers, LoadStats
    <2> HIDE DEF a, b
    <2> QED
      BY <2>2, PairOf
  <1>5. Clicks(<<a, b>>)
    BY <1>4 DEF Select
  <1> HIDE DEF a, b
  <1>6. Send({}, <<a, b>>) /\ orderly' = Restored(<<a, b>>) /\ UNCHANGED server /\ acts' \in Nat
    BY <1>1, <1>5 DEF Clicks, Act
  <1>7. /\ UNCHANGED <<interfaces, peers, statsOf, asked, table, filter, dialog, visit, style, config, configString, saved>>
        /\ selected' = i
    BY DEF Select, views
  <1>8. calls' = calls \cup {k, l} /\ issued' = issued + 2
    BY <1>1, <1>6, SendTwo
  <1>9. Called(a, k) /\ k.no = issued + 1 /\ Called(b, l) /\ l.no = issued + 2
    <2>1. style' \in Styles /\ visit' \in Nat /\ issued + 1 \in Nat /\ issued + 2 \in Nat
      BY <1>1, <1>7
    <2> QED
      BY <1>2, <2>1, CallCalled
  <1> HIDE DEF k, l
  <1>10. Group(k.kind) = "list" /\ Group(l.kind) = "stats" /\ k.kind = "peers" /\ l.kind = "stats"
    BY <1>3, <1>9 DEF Called, Group
  <1>11. \A g \in orderly' :
            \/ g \in orderly
            \/ g = "list" /\ InFlight(g) = {} /\ k.kind \in Loads
            \/ g = "stats" /\ InFlight(g) = {} /\ l.kind \in Loads
    <2>1. a.kind = k.kind /\ b.kind = l.kind
      BY <1>9 DEF Called
    <2> QED
      BY <1>6, <1>10, <2>1, RestoredTwo
  <1>12. CallsTold'
    <2> DEFINE K == {k, l}
    <2>1. K \in SUBSET Calls /\ calls' \subseteq calls \cup K /\ issued' \in Nat /\ issued <= issued' /\ srv' = srv
      BY <1>1, <1>6, <1>8, <1>9 DEF Called, server
    <2>a. k.ids = {} /\ l.ids = {} /\ About(k) /\ About(l)
      BY <1>3, <1>9 DEF Called
    <2>2. k.no \in issued + 1 .. issued' /\ l.no \in issued + 1 .. issued' /\ k.no # l.no
      BY <1>1, <1>8, <1>9
    <2>3. \A m \in K : m.no \in issued + 1 .. issued' /\ About(m) /\ m.ids = {}
      BY <2>a, <2>2
    <2>4. \A m, n \in K : m # n => m.no # n.no
      BY <2>2
    <2> HIDE DEF K
    <2>5. /\ \A m \in K : \A p \in m.ids : srv[p] = 0
          /\ \A m \in K : \A c \in calls : c.ids \cap m.ids = {}
          /\ \A m, n \in K : m # n => m.ids \cap n.ids = {}
      BY <2>3
    <2> QED
      BY <1>1, <2>1, <2>3, <2>4, <2>5, ToldSend
  <1>13. TypeOK'
    <2>1. calls' \subseteq Calls /\ issued' \in Nat
      BY <1>1, <1>8, <1>9 DEF Called, TypeOK
    <2>3. orderly' \subseteq Groups
      <3>1. "list" \in Groups /\ "stats" \in Groups
        BY DEF Groups
      <3> QED
        BY <1>1, <1>11, <3>1
    <2>2. UNCHANGED <<srvIfaces, srv>>
      BY <1>6 DEF server
    <2> QED
      BY <1>1, <1>6, <1>7, <2>1, <2>2, <2>3 DEF TypeOK
  <1>14. ASSUME NEW h, h # "list", h # "stats" PROVE Untouched(h)
    <2>1. InFlight(h)' = InFlight(h)
      BY <1>8, <1>10, <1>14 DEF InFlight
    <2> QED
      BY <1>11, <1>14, <2>1 DEF Untouched
  <1>15. Joined("list", k) /\ Joined("stats", l)
    <2>1. InFlight("list")' = InFlight("list") \cup {k} /\ InFlight("stats")' = InFlight("stats") \cup {l}
      BY <1>8, <1>10 DEF InFlight
    <2>2. \A c \in calls : c.no < k.no /\ c.no < l.no
      BY <1>1, <1>9, Numbered
    <2>3. k.st = "sent" /\ k.ok = FALSE /\ k.no \in Nat /\ l.st = "sent" /\ l.ok = FALSE /\ l.no \in Nat
      BY <1>1, <1>9 DEF Called
    <2> QED
      BY <1>11, <2>1, <2>2, <2>3, InGroup DEF Joined
  <1>16. k.of = i /\ k.from = "user" /\ l.of = i
    BY <1>3, <1>9 DEF Called
  <1>17. Aligned(table)' /\ UNCHANGED <<server, style, visit, dialog, config, configString, saved>>
    BY <1>1, <1>6, <1>7
  <1> QED
    BY <1>10, <1>12, <1>13, <1>14, <1>15, <1>16, <1>17 DEF Sound

-----------------------------------------------------------------------------
(* Steps of the server *)

Replied(c, ok, rows) == [c EXCEPT !.st = "answered", !.ok = ok, !.rows = rows]

LEMMA RepliedFields ==
    ASSUME NEW c \in Calls, NEW ok \in BOOLEAN, NEW rows \in Seq(Rows) \cup Seq(IfaceSet)
    PROVE  /\ Replied(c, ok, rows) \in Calls /\ Same(c, Replied(c, ok, rows))
           /\ Replied(c, ok, rows).ok = ok /\ Replied(c, ok, rows).rows = rows
  BY DEF Replied, Calls, Same

\* The rows an answer may have.
Answers(c, ok, rows) ==
    /\ rows \in Seq(IF c.kind \in {"ifaces", "newif"} THEN IfaceSet ELSE Rows)
    /\ ok /\ c.kind = "update" => rows = <<[id |-> c.of, ver |-> c.no]>>
    /\ ok /\ c.kind \in Pushes => rows = Order(Stamped(c.ids, c.no))

\* The call c is answered with d.
Served(c, d) ==
    /\ Swapped(Group(c.kind), c, d) /\ d \in calls' /\ \A h : h # Group(c.kind) => Untouched(h)
    /\ UNCHANGED <<lists, table, filter, dialog, views, visit>>

LEMMA ReplyStep ==
    ASSUME Sound, NEW c \in calls, NEW ok \in BOOLEAN, NEW rows, Reply(c, ok, rows), Answers(c, ok, rows),
           srv' \in [Peers -> Nat], srvIfaces' \subseteq IfaceSet, acts' \in Nat, orderly' \subseteq orderly,
           \A e \in calls : \A p \in e.ids : e # c /\ srv[p] = 0 => srv'[p] = 0,
           UNCHANGED <<lists, table, filter, dialog, views, visit, issued>>
    PROVE  /\ Sound' /\ Served(c, Replied(c, ok, rows))
           /\ Replied(c, ok, rows).ok = ok /\ Replied(c, ok, rows).rows = rows
  <1> DEFINE d == Replied(c, ok, rows)
  <1>1. TypeOK /\ CallsTold /\ Aligned(table) /\ c \in Calls
    BY DEF Sound, TypeOK
  <1>2. rows \in Seq(Rows) \cup Seq(IfaceSet)
    BY DEF Answers
  <1>3. d \in Calls /\ Same(c, d) /\ d.ok = ok /\ d.rows = rows
    BY <1>1, <1>2, RepliedFields
  <1>4. calls' = (calls \ {c}) \cup {d}
    BY DEF Reply, Replied
  <1> HIDE DEF d
  <1>5. About(d)
    <2>1. About(c)
      BY <1>1, ToldAbout
    <2>2. /\ d.no = c.no /\ d.kind = c.kind /\ d.of = c.of /\ d.ids = c.ids /\ d.st = "answered"
      BY <1>3 DEF Same
    <2> QED
      BY <1>3, <2>1, <2>2 DEF About, Answers
  <1>6. CallsTold'
    <2>1. d.no = c.no /\ d.ids = c.ids /\ d.st = "answered"
      BY <1>3 DEF Same
    <2> QED
      BY <1>1, <1>4, <1>5, <2>1, ToldSwap
  <1>7. TypeOK'
    <2>1. calls' \subseteq Calls /\ issued' \in Nat /\ orderly' \subseteq Groups
      BY <1>1, <1>3, <1>4 DEF TypeOK
    <2>2. UNCHANGED <<interfaces, selected, peers, statsOf, asked, style, config, configString, saved, visit, dialog, table, filter>>
      BY DEF lists, views
    <2> QED
      BY <1>1, <2>1, <2>2 DEF TypeOK
  <1>8. Aligned(table)'
    BY <1>1
  <1>9. Group(d.kind) = Group(c.kind)
    BY <1>3 DEF Same
  <1>10. Served(c, d)
    <2>1. ASSUME NEW h, h # Group(c.kind) PROVE Untouched(h)
      <3>1. InFlight(h)' = InFlight(h)
        BY <1>4, <1>9, <2>1 DEF InFlight
      <3> QED
        BY <3>1 DEF Untouched
    <2>2. InFlight(Group(c.kind))' = (InFlight(Group(c.kind)) \ {c}) \cup {d} /\ c \in InFlight(Group(c.kind))
      BY <1>4, <1>9 DEF InFlight
    <2> QED
      BY <1>3, <1>4, <2>1, <2>2 DEF Served, Swapped
  <1> QED
    BY <1>3, <1>6, <1>7, <1>8, <1>10 DEF Sound, d

\* What the server does with c, for the list of peers.
Serves(c, d) ==
    \/ d.ok = FALSE
    \/ /\ d.ok = TRUE /\ c.st = "sent"
       /\ Group(c.kind) \in orderly' => \A e \in InFlight(Group(c.kind)) : e.st = "sent" => c.no <= e.no
       /\ \/ c.kind \notin Edits \cup {"peers", "delif", "defaults"} /\ srv' = srv
          \/ c.kind = "peers" /\ srv' = srv /\ d.rows = Order(RowsOf(c.of))
          \/ c.kind \in {"delif", "defaults"}
          \/ /\ c.kind \in Edits
             /\ \A p \in Peers : srv'[p] = IF p \in Touched(c) THEN Saved(c) ELSE srv[p]
             /\ \A p \in Touched(c) : c.kind \in Pushes <=> srv[p] = 0

LEMMA WriteOf ==
    ASSUME srv \in [Peers -> Nat], NEW ids, NEW v \in Nat, Write(ids, v)
    PROVE  srv' \in [Peers -> Nat] /\ \A p \in Peers : srv'[p] = IF p \in ids THEN v ELSE srv[p]
  BY DEF Write

LEMMA ServerStep ==
    ASSUME Sound, NEW c \in calls, Handle(c) \/ HandlePartly(c) \/ Lose(c)
    PROVE  Sound' /\ \E d : Served(c, d) /\ Serves(c, d)
  <1>0. /\ TypeOK /\ CallsTold /\ c \in Calls /\ c.kind \in Kinds /\ c.no \in Nat /\ srv \in [Peers -> Nat] /\ c.ids \subseteq Peers
        /\ srvIfaces \subseteq IfaceSet /\ acts \in Nat /\ About(c) /\ c.no # 0
    BY ToldAbout, Numbered DEF Sound, TypeOK, Calls
  <1>1. \A e \in calls : e # c => e.ids \cap c.ids = {} /\ e.ids \subseteq Peers
    BY <1>0 DEF CallsTold, TypeOK, Calls
  <1>2. <<>> \in Seq(Rows) /\ <<>> \in Seq(IfaceSet)
    OBVIOUS
  <1>3. ASSUME NEW ok \in BOOLEAN, NEW rows, Reply(c, ok, rows), Answers(c, ok, rows),
               srv' \in [Peers -> Nat], srvIfaces' \subseteq IfaceSet, acts' \in Nat, orderly' \subseteq orderly,
               \A e \in calls : \A p \in e.ids : e # c /\ srv[p] = 0 => srv'[p] = 0,
               UNCHANGED <<lists, table, filter, dialog, views, visit, issued>>
        PROVE  /\ Sound' /\ Served(c, Replied(c, ok, rows))
               /\ Replied(c, ok, rows).ok = ok /\ Replied(c, ok, rows).rows = rows
    BY <1>3, ReplyStep
  <1>4. Answers(c, FALSE, <<>>)
    BY <1>2 DEF Answers
  <1>5. ASSUME Reply(c, FALSE, <<>>), srv' \in [Peers -> Nat], srvIfaces' = srvIfaces, acts' \in Nat, orderly' \subseteq orderly,
               \A e \in calls : \A p \in e.ids : e # c /\ srv[p] = 0 => srv'[p] = 0,
               UNCHANGED <<lists, table, filter, dialog, views, visit, issued>>
        PROVE  Sound' /\ \E d : Served(c, d) /\ Serves(c, d)
    <2>1. Sound' /\ Served(c, Replied(c, FALSE, <<>>)) /\ Replied(c, FALSE, <<>>).ok = FALSE
      BY <1>0, <1>3, <1>4, <1>5
    <2> QED
      BY <2>1 DEF Serves
  <1>6. CASE Lose(c)
    <2>1. Reply(c, FALSE, <<>>) /\ UNCHANGED server /\ orderly' = orderly /\ Act
      BY <1>6 DEF Lose
    <2>2. UNCHANGED <<lists, table, filter, dialog, views, visit, issued>>
      BY <1>6 DEF Lose
    <2>3. UNCHANGED <<srv, srvIfaces>> /\ acts' \in Nat
      BY <1>0, <2>1 DEF Act, server
    <2> QED
      BY <1>0, <1>5, <2>1, <2>2, <2>3
  <1>7. CASE HandlePartly(c)
    <2>1. PICK done \in SUBSET c.ids : Write(done, c.no)
      BY <1>7 DEF HandlePartly
    <2>2. srv' \in [Peers -> Nat] /\ \A p \in Peers : srv'[p] = IF p \in done THEN c.no ELSE srv[p]
      BY <1>0, <2>1, WriteOf
    <2>3. \A e \in calls : \A p \in e.ids : e # c /\ srv[p] = 0 => srv'[p] = 0
      BY <1>1, <2>2
    <2>4. Reply(c, FALSE, <<>>) /\ srvIfaces' = srvIfaces /\ orderly' = orderly /\ Act
      BY <1>7 DEF HandlePartly
    <2>5. UNCHANGED <<lists, table, filter, dialog, views, visit, issued>>
      BY <1>7 DEF HandlePartly
    <2>6. acts' \in Nat
      BY <1>0, <2>4 DEF Act
    <2> QED
      BY <1>5, <2>2, <2>3, <2>4, <2>5, <2>6
  <1>8. CASE Handle(c)
    <2>1. /\ c.st = "sent" /\ orderly' \subseteq orderly /\ acts' \in Nat
          /\ UNCHANGED <<lists, table, filter, dialog, views, visit, issued>>
      BY <1>0, <1>8 DEF Handle
    <2>2. Group(c.kind) \in orderly' => \A e \in InFlight(Group(c.kind)) : e.st = "sent" => c.no <= e.no
      <3> SUFFICES ASSUME Group(c.kind) \in orderly', NEW e \in InFlight(Group(c.kind)), e.st = "sent" PROVE c.no <= e.no
        OBVIOUS
      <3>1. ~Overtakes(c, {"sent"})
        BY <1>8 DEF Handle
      <3>2. ~(e.no < c.no) /\ e.no \in Nat
        BY <1>0, <3>1, Numbered, InGroup DEF Overtakes
      <3> QED
        BY <1>0, <3>2
    <2>3. ASSUME NEW ok \in BOOLEAN, NEW rows, Reply(c, ok, rows), Answers(c, ok, rows),
                 srv' \in [Peers -> Nat], srvIfaces' \subseteq IfaceSet,
                 \A e \in calls : \A p \in e.ids : e # c /\ srv[p] = 0 => srv'[p] = 0,
                 ok => Serves(c, Replied(c, ok, rows))
          PROVE  Sound' /\ \E d : Served(c, d) /\ Serves(c, d)
      <3>1. Sound' /\ Served(c, Replied(c, ok, rows)) /\ Replied(c, ok, rows).ok = ok
        BY <1>3, <2>1, <2>3
      <3>2. Serves(c, Replied(c, ok, rows))
        BY <2>3, <3>1 DEF Serves
      <3> QED
        BY <3>1, <3>2
    <2>4. ASSUME NEW ok \in BOOLEAN, NEW rows, Answers(c, ok, rows)
          PROVE  Replied(c, ok, rows).ok = ok /\ Replied(c, ok, rows).rows = rows
      <3>1. rows \in Seq(Rows) \cup Seq(IfaceSet)
        BY <2>4 DEF Answers
      <3> QED
        BY <1>0, <3>1, RepliedFields
    <2>5. CASE HandleLoad(c)
      <3>0. UNCHANGED <<srv, srvIfaces>>
        BY <2>5 DEF HandleLoad, server
      <3>1. CASE c.kind = "ifaces" /\ Reply(c, TRUE, Listed(srvIfaces))
        <4>1. Answers(c, TRUE, Listed(srvIfaces))
          BY <3>1, ListedOf DEF Answers, Pushes
        <4>2. Serves(c, Replied(c, TRUE, Listed(srvIfaces)))
          BY <2>1, <2>2, <2>4, <3>0, <3>1, <4>1 DEF Serves, Edits
        <4> QED
          BY <1>0, <2>3, <3>0, <3>1, <4>1, <4>2
      <3>2. CASE c.kind = "peers" /\ Reply(c, c.of \in srvIfaces, Order(RowsOf(c.of)))
        <4>1. Answers(c, c.of \in srvIfaces, Order(RowsOf(c.of)))
          BY <1>0, <3>2, OrderRows DEF Answers, Pushes
        <4>2. (c.of \in srvIfaces) \in BOOLEAN
          OBVIOUS
        <4>3. c.of \in srvIfaces => Serves(c, Replied(c, c.of \in srvIfaces, Order(RowsOf(c.of))))
          BY <2>1, <2>2, <2>4, <3>0, <3>2, <4>1, <4>2 DEF Serves
        <4> QED
          BY <1>0, <2>3, <3>0, <3>2, <4>1, <4>2, <4>3
      <3>3. ASSUME NEW ok \in BOOLEAN, Reply(c, ok, <<>>), c.kind \in {"stats", "ifconf", "download", "peerconf"}
            PROVE  Sound' /\ \E d : Served(c, d) /\ Serves(c, d)
        <4>1. Answers(c, ok, <<>>)
          BY <1>2, <3>3 DEF Answers, Pushes
        <4>2. ok => Serves(c, Replied(c, ok, <<>>))
          BY <2>1, <2>2, <2>4, <3>0, <3>3, <4>1 DEF Serves, Edits
        <4> QED
          BY <1>0, <2>3, <3>0, <3>3, <4>1, <4>2
      <3>4. CASE c.kind \in {"stats", "ifconf", "download"} /\ Reply(c, c.of \in srvIfaces, <<>>)
        <4>1. (c.of \in srvIfaces) \in BOOLEAN
          OBVIOUS
        <4> QED
          BY <3>3, <3>4, <4>1
      <3>5. CASE c.kind = "peerconf" /\ Reply(c, srv[c.of] # 0, <<>>)
        <4>1. (srv[c.of] # 0) \in BOOLEAN
          OBVIOUS
        <4> QED
          BY <3>3, <3>5, <4>1
      <3> QED
        BY <2>5, <3>1, <3>2, <3>4, <3>5 DEF HandleLoad
    <2>6. ASSUME NEW rows, c.kind \in Edits, Reply(c, TRUE, rows), Answers(c, TRUE, rows), srvIfaces' = srvIfaces,
                 Write(Touched(c), Saved(c)), \A p \in Touched(c) : c.kind \in Pushes <=> srv[p] = 0
          PROVE  Sound' /\ \E d : Served(c, d) /\ Serves(c, d)
      <3>1. Saved(c) \in Nat
        BY <1>0 DEF Saved
      <3>2. srv' \in [Peers -> Nat] /\ \A p \in Peers : srv'[p] = IF p \in Touched(c) THEN Saved(c) ELSE srv[p]
        BY <1>0, <2>6, <3>1, WriteOf
      <3>3. \A e \in calls : \A p \in e.ids : e # c /\ srv[p] = 0 => srv'[p] = 0
        <4> SUFFICES ASSUME NEW e \in calls, NEW p \in e.ids, e # c, srv[p] = 0 PROVE srv'[p] = 0
          OBVIOUS
        <4>1. p \in Peers /\ p \notin c.ids
          BY <1>1
        <4>2. p \notin Touched(c)
          BY <2>6, <4>1 DEF Touched
        <4> QED
          BY <3>2, <4>1, <4>2
      <3>4. Serves(c, Replied(c, TRUE, rows))
        BY <2>1, <2>2, <2>4, <2>6, <3>2 DEF Serves
      <3> QED
        BY <1>0, <2>3, <2>6, <3>2, <3>3, <3>4
    <2>7. CASE HandlePeer(c)
      <3>0. srvIfaces' = srvIfaces
        BY <2>7 DEF HandlePeer
      <3>1. CASE c.kind = "update" /\ srv[c.of] # 0 /\ Write({c.of}, c.no) /\ Reply(c, TRUE, <<[id |-> c.of, ver |-> c.no]>>)
        <4>1. c.of \in Peers
          BY <1>0, <3>1 DEF About, OfPeer
        <4>2. [id |-> c.of, ver |-> c.no] \in Rows
          BY <1>0, <4>1 DEF Rows
        <4>3. <<[id |-> c.of, ver |-> c.no]>> \in Seq(Rows)
          BY <4>2
        <4>4. Answers(c, TRUE, <<[id |-> c.of, ver |-> c.no]>>)
          BY <3>1, <4>3 DEF Answers, Pushes
        <4>5. Touched(c) = {c.of} /\ Saved(c) = c.no /\ c.kind \in Edits /\ c.kind \notin Pushes
          BY <3>1 DEF Touched, Saved, Edits, Pushes
        <4> QED
          BY <2>6, <3>0, <3>1, <4>4, <4>5
      <3>2. CASE c.kind = "delete" /\ srv[c.of] # 0 /\ Write({c.of}, 0) /\ Reply(c, TRUE, <<>>)
        <4>1. Answers(c, TRUE, <<>>)
          BY <1>2, <3>2 DEF Answers, Pushes
        <4>2. Touched(c) = {c.of} /\ Saved(c) = 0 /\ c.kind \in Edits /\ c.kind \notin Pushes
          BY <3>2 DEF Touched, Saved, Edits, Pushes
        <4> QED
          BY <2>6, <3>0, <3>2, <4>1, <4>2
      <3>3. CASE /\ c.kind \in {"create", "multi"} /\ c.of \in srvIfaces /\ Write(c.ids, c.no)
                 /\ Reply(c, TRUE, Order(Stamped(c.ids, c.no)))
        <4> DEFINE rows == Order(Stamped(c.ids, c.no))
        <4>1. rows \in Seq(Rows)
          BY <1>0, OrderNew
        <4>2. Answers(c, TRUE, rows)
          BY <3>3, <4>1 DEF Answers
        <4>3. Reply(c, TRUE, rows)
          BY <3>3
        <4> HIDE DEF rows
        <4>4. Touched(c) = c.ids /\ Saved(c) = c.no /\ c.kind \in Edits /\ c.kind \in Pushes
          BY <3>3 DEF Touched, Saved, Edits, Pushes
        <4>5. \A p \in c.ids : srv[p] = 0
          BY <1>0, <2>1 DEF CallsTold
        <4> QED
          BY <2>6, <3>0, <3>3, <4>2, <4>3, <4>4, <4>5
      <3>4. CASE /\ c.kind = "defaults" /\ c.of \in srvIfaces /\ Reply(c, TRUE, <<>>)
                 /\ Write({p \in Peers : srv[p] # 0 /\ Home[p] = c.of}, c.no)
        <4>1. Answers(c, TRUE, <<>>)
          BY <1>2, <3>4 DEF Answers, Pushes
        <4>2. srv' \in [Peers -> Nat] /\ \A p \in Peers : srv[p] = 0 => srv'[p] = 0
          BY <1>0, <3>4, WriteOf
        <4>3. \A e \in calls : \A p \in e.ids : e # c /\ srv[p] = 0 => srv'[p] = 0
          BY <1>1, <4>2
        <4>4. Serves(c, Replied(c, TRUE, <<>>))
          BY <2>1, <2>2, <2>4, <3>4, <4>1 DEF Serves
        <4> QED
          BY <1>0, <2>3, <3>0, <3>4, <4>1, <4>2, <4>3, <4>4
      <3> QED
        BY <2>7, <3>1, <3>2, <3>3, <3>4 DEF HandlePeer
    <2>8. CASE HandleInterface(c)
      <3>1. CASE /\ c.kind = "newif" /\ srvIfaces' = srvIfaces \cup {c.of} /\ srv' = srv
                 /\ Reply(c, TRUE, <<c.of>>)
        <4>1. c.of \in IfaceSet
          BY <1>0, <3>1 DEF About, OfPeer
        <4>2. <<c.of>> \in Seq(IfaceSet)
          BY <4>1
        <4>3. Answers(c, TRUE, <<c.of>>)
          BY <3>1, <4>2 DEF Answers, Pushes
        <4>4. Serves(c, Replied(c, TRUE, <<c.of>>))
          BY <2>1, <2>2, <2>4, <3>1, <4>3 DEF Serves, Edits
        <4>5. srvIfaces' \subseteq IfaceSet
          BY <1>0, <3>1, <4>1
        <4> QED
          BY <1>0, <2>3, <3>1, <4>3, <4>4, <4>5
      <3>2. CASE /\ c.kind = "delif" /\ c.of \in srvIfaces /\ srvIfaces' = srvIfaces \ {c.of}
                 /\ Write({p \in Peers : Home[p] = c.of}, 0) /\ Reply(c, TRUE, <<>>)
        <4>1. Answers(c, TRUE, <<>>)
          BY <1>2, <3>2 DEF Answers, Pushes
        <4>2. srv' \in [Peers -> Nat] /\ \A p \in Peers : srv[p] = 0 => srv'[p] = 0
          BY <1>0, <3>2, WriteOf
        <4>3. \A e \in calls : \A p \in e.ids : e # c /\ srv[p] = 0 => srv'[p] = 0
          BY <1>1, <4>2
        <4>4. Serves(c, Replied(c, TRUE, <<>>))
          BY <2>1, <2>2, <2>4, <3>2, <4>1 DEF Serves
        <4>5. srvIfaces' \subseteq IfaceSet
          BY <1>0, <3>2
        <4> QED
          BY <2>3, <3>2, <4>1, <4>2, <4>3, <4>4, <4>5
      <3> QED
        BY <2>8, <3>1, <3>2 DEF HandleInterface
    <2>9. CASE HandleMissing(c)
      <3>1. Reply(c, FALSE, <<>>) /\ UNCHANGED <<srv, srvIfaces>>
        BY <2>9 DEF HandleMissing, server
      <3> QED
        BY <1>0, <1>5, <2>1, <3>1
    <2> QED
      BY <1>8, <2>5, <2>7, <2>8, <2>9 DEF Handle
  <1> QED
    BY <1>6, <1>7, <1>8

-----------------------------------------------------------------------------
(* The browser gets an answer *)

\* What becomes of the order when the answer of c is taken.
Settles(c) ==
    /\ c.st = "answered" /\ orderly' \subseteq orderly
    /\ Group(c.kind) \in orderly' => ~Fails(c) /\ ~Overtakes(c, {"sent", "answered"})

LEMMA SettlesOldest ==
    ASSUME Sound, NEW c \in calls, Settles(c), Group(c.kind) \in orderly'
    PROVE  Group(c.kind) \in orderly /\ ~Fails(c) /\ \A e \in InFlight(Group(c.kind)) : c.no <= e.no
  <1>1. TypeOK /\ CallsTold
    BY DEF Sound
  <1>2. ~Overtakes(c, {"sent", "answered"}) /\ ~Fails(c) /\ Group(c.kind) \in orderly
    BY DEF Settles
  <1>3. ASSUME NEW e \in InFlight(Group(c.kind)) PROVE c.no <= e.no
    <2>1. e.st \in {"sent", "answered"} /\ e.no \in Nat /\ c.no \in Nat
      BY <1>1, Numbered, InGroup
    <2> QED
      BY <1>2, <2>1 DEF Overtakes
  <1> QED
    BY <1>2, <1>3

\* Nothing follows.
LEMMA AnswerPlain ==
    ASSUME Sound, NEW c \in calls, Settles(c), Send({c}, <<>>), UNCHANGED server
    PROVE  /\ CallsTold' /\ calls' \subseteq Calls /\ issued' \in Nat /\ orderly' \subseteq Groups
           /\ Taken(Group(c.kind), c) /\ \A h : h # Group(c.kind) => Untouched(h)
  <1>1. TypeOK /\ CallsTold /\ issued \in Nat /\ calls \subseteq Calls /\ orderly \subseteq Groups
    BY DEF Sound, TypeOK
  <1>2. calls' = calls \ {c} /\ issued' = issued /\ srv' = srv
    BY <1>1, SendNone DEF server
  <1>3. CallsTold'
    BY <1>1, <1>2, ToldGone
  <1>4. calls' \subseteq Calls /\ issued' \in Nat /\ orderly' \subseteq Groups
    BY <1>1, <1>2 DEF Settles
  <1>5. ASSUME NEW h, h # Group(c.kind) PROVE Untouched(h)
    <2>1. InFlight(h)' = InFlight(h)
      BY <1>2, <1>5 DEF InFlight
    <2> QED
      BY <2>1 DEF Untouched, Settles
  <1>6. c \in InFlight(Group(c.kind)) /\ InFlight(Group(c.kind))' = InFlight(Group(c.kind)) \ {c}
    BY <1>2 DEF InFlight
  <1>7. c.st = "answered"
    BY DEF Settles
  <1>8. Taken(Group(c.kind), c)
    BY <1>6, <1>7, SettlesOldest DEF Taken
  <1> QED
    BY <1>3, <1>4, <1>5, <1>8

\* A call follows.
LEMMA AnswerSent ==
    ASSUME Sound, NEW c \in calls, Settles(c), NEW a, AskOK(a), Send({c}, <<a>>), UNCHANGED <<server, style, visit>>
    PROVE  /\ CallsTold' /\ calls' \subseteq Calls /\ issued' \in Nat /\ orderly' \subseteq Groups
           /\ \E k : /\ Called(a, k) /\ \A h : h # Group(c.kind) /\ h # Group(a.kind) => Untouched(h)
                     /\ IF Group(a.kind) = Group(c.kind) THEN Followed(Group(c.kind), c, k)
                        ELSE /\ Taken(Group(c.kind), c) /\ Joined(Group(a.kind), k)
                             /\ Group(a.kind) \in orderly' => Group(a.kind) \in orderly
  <1> DEFINE k == Call(a, issued + 1)
             g == Group(c.kind)
  <1>1. TypeOK /\ CallsTold /\ issued \in Nat /\ calls \subseteq Calls /\ orderly \subseteq Groups /\ style \in Styles /\ visit \in Nat
    BY DEF Sound, TypeOK
  <1>2. calls' = (calls \ {c}) \cup {k} /\ issued' = issued + 1 /\ srv' = srv
    BY <1>1, SendOne DEF server
  <1>3. Called(a, k) /\ k.no = issued + 1
    <2>1. style' \in Styles /\ visit' \in Nat /\ issued + 1 \in Nat
      BY <1>1
    <2> QED
      BY <2>1, CallCalled
  <1> HIDE DEF k
  <1>4. calls' \subseteq Calls /\ issued' \in Nat /\ orderly' \subseteq Groups
    BY <1>1, <1>2, <1>3 DEF Settles, Called
  <1>5. CallsTold'
    <2> DEFINE K == {k}
    <2>1. K \in SUBSET Calls /\ calls' \subseteq calls \cup K /\ issued' \in Nat /\ issued <= issued'
      BY <1>1, <1>2, <1>3 DEF Called
    <2>2. \A l \in K : l.no \in issued + 1 .. issued' /\ About(l) /\ \A p \in l.ids : srv[p] = 0
      BY <1>1, <1>2, <1>3 DEF Called, AskOK
    <2>3. \A l \in K : \A e \in calls : e.ids \cap l.ids = {}
      BY <1>3 DEF Called, AskOK
    <2>4. \A l, m \in K : l # m => l.no # m.no /\ l.ids \cap m.ids = {}
      OBVIOUS
    <2> HIDE DEF K
    <2> QED
      BY <1>1, <1>2, <2>1, <2>2, <2>3, <2>4, ToldSend
  <1>6. k.kind = a.kind /\ k.st = "sent" /\ k.ok = FALSE /\ k.no \in Nat /\ \A e \in calls : e.no < k.no
    BY <1>1, <1>3, Numbered DEF Called
  <1>7. ASSUME NEW h, h # g, h # Group(a.kind) PROVE Untouched(h)
    <2>1. InFlight(h)' = InFlight(h)
      BY <1>2, <1>6, <1>7 DEF InFlight
    <2> QED
      BY <2>1 DEF Untouched, Settles
  <1>8. c \in InFlight(g) /\ c.st = "answered"
    BY DEF InFlight, Settles
  <1>9. g \in orderly' => g \in orderly /\ ~Fails(c) /\ \A e \in InFlight(g) : c.no <= e.no
    BY SettlesOldest
  <1>10. CASE Group(a.kind) = g
    <2>1. InFlight(g)' = (InFlight(g) \ {c}) \cup {k}
      BY <1>2, <1>6, <1>10 DEF InFlight
    <2>2. Followed(g, c, k)
      <3> HIDE DEF g
      <3> QED
        BY <1>6, <1>8, <1>9, <2>1, InGroup DEF Followed
    <2> QED
      BY <1>3, <1>4, <1>5, <1>7, <1>10, <2>2
  <1>11. CASE Group(a.kind) # g
    <2>1. InFlight(g)' = InFlight(g) \ {c} /\ InFlight(Group(a.kind))' = InFlight(Group(a.kind)) \cup {k}
      BY <1>2, <1>6, <1>11 DEF InFlight
    <2>2. Taken(g, c)
      <3> HIDE DEF g
      <3> QED
        BY <1>8, <1>9, <2>1 DEF Taken
    <2>3. Group(a.kind) \in orderly' => Group(a.kind) \in orderly
      BY DEF Settles
    <2>4. Joined(Group(a.kind), k)
      BY <1>6, <2>1, <2>3, InGroup DEF Joined
    <2> QED
      BY <1>3, <1>4, <1>5, <1>7, <1>11, <2>2, <2>3, <2>4
  <1> QED
    BY <1>10, <1>11

LEMMA AppliesSettles ==
    ASSUME Sound, NEW c, NEW kinds, Applies(c, kinds)
    PROVE  c \in calls /\ c.kind \in kinds /\ Settles(c) /\ UNCHANGED <<srv, srvIfaces, filter, visit, acts>> /\ UNCHANGED server
  <1>1. /\ c \in calls /\ c.st = "answered" /\ c.kind \in kinds
        /\ orderly' = IF Overtakes(c, {"sent", "answered"}) \/ Fails(c) THEN orderly \ {Group(c.kind)} ELSE orderly
        /\ UNCHANGED <<server, filter, visit, acts>>
    BY DEF Applies
  <1>2. Settles(c)
    BY <1>1 DEF Settles
  <1>3. UNCHANGED <<srv, srvIfaces>>
    BY <1>1 DEF server
  <1> QED
    BY <1>1, <1>2, <1>3

\* What an answered call is about.
LEMMA AnsweredAbout ==
    ASSUME Sound, NEW c \in calls
    PROVE  /\ About(c) /\ c \in Calls /\ c.kind \in Kinds /\ c.of \in Peers \cup IfaceSet \cup {None} /\ c.style \in Styles
           /\ c.kind \in {"ifaces", "newif"} => c.rows \in Seq(IfaceSet)
           /\ c.kind \in {"peers"} \cup Edits => c.rows \in Seq(Rows)
           /\ c.kind \notin OfPeer \cup {"ifaces"} => c.of \in IfaceSet
           /\ c.kind \in OfPeer => c.of \in Peers
  <1>1. About(c) /\ c \in Calls
    BY ToldAbout DEF Sound, TypeOK
  <1>2. c.kind \in Kinds /\ c.of \in Peers \cup IfaceSet \cup {None} /\ c.style \in Styles
    BY <1>1 DEF Calls
  <1>3. c.rows \in Seq(IF c.kind \in {"ifaces", "newif"} THEN IfaceSet ELSE Rows)
    BY <1>1 DEF About
  <1>4. c.kind \in {"peers"} \cup Edits => c.kind \notin {"ifaces", "newif"}
    BY DEF Edits
  <1> QED
    BY <1>1, <1>2, <1>3, <1>4 DEF About

\* LoadPeers and LoadStats of an interface.
LEMMA LoadOne ==
    ASSUME NEW i \in IfaceSet \cup {None}, NEW from \in {"mount", "user"}
    PROVE  /\ i = None => LoadPeers(i, from) = <<>> /\ LoadStats(i) = <<>>
           /\ i # None => /\ LoadPeers(i, from) = <<Ask("peers", i, {}, from)>> /\ AskOK(Ask("peers", i, {}, from))
                          /\ LoadStats(i) = <<Ask("stats", i, {}, "user")>> /\ AskOK(Ask("stats", i, {}, "user"))
  <1>1. i # None => AskOK(Ask("peers", i, {}, from)) /\ AskOK(Ask("stats", i, {}, "user"))
    BY AskPlain DEF Kinds, Pushes, OfPeer
  <1> QED
    BY <1>1 DEF LoadPeers, LoadStats

\* setInterfaces; then the peers of the first interface are loaded, if any.
LEMMA InterfacesStep ==
    ASSUME Sound, NEW c, ApplyInterfaces(c)
    PROVE  /\ Sound' /\ c.kind = "ifaces" /\ \A h : h # "list" => Untouched(h)
           /\ UNCHANGED <<srv, visit, peers, statsOf, asked, dialog, style, config, configString, saved>>
           /\ \/ selected' = None /\ Taken("list", c)
              \/ \E k : Followed("list", c, k) /\ k.kind = "peers" /\ k.from = "mount"
  <1>1. /\ c \in calls /\ c.kind = "ifaces" /\ Settles(c) /\ UNCHANGED server
        /\ UNCHANGED <<srv, srvIfaces, filter, visit, acts>>
    BY AppliesSettles DEF ApplyInterfaces
  <1>2. /\ TypeOK /\ Aligned(table)'
        /\ UNCHANGED <<peers, statsOf, asked, table, dialog, style, config, configString, saved>>
    BY DEF Sound, ApplyInterfaces, views
  <1>3. interfaces' \in Seq(IfaceSet)
    <2>1. c.rows \in Seq(IfaceSet) /\ <<>> \in Seq(IfaceSet)
      BY <1>1, AnsweredAbout
    <2> QED
      BY <2>1 DEF ApplyInterfaces
  <1>4. selected' \in IfaceSet \cup {None}
    BY <1>3, FirstOf DEF ApplyInterfaces
  <1>5. Send({c}, LoadPeers(selected', "mount"))
    BY DEF ApplyInterfaces
  <1>6. ASSUME calls' \subseteq Calls /\ issued' \in Nat /\ orderly' \subseteq Groups PROVE TypeOK'
    BY <1>1, <1>2, <1>3, <1>4, <1>6 DEF TypeOK
  <1>7. Group(c.kind) = "list"
    BY <1>1 DEF Group
  <1>8. CASE selected' = None
    <2>1. Send({c}, <<>>)
      BY <1>4, <1>5, <1>8, LoadOne
    <2>2. /\ CallsTold' /\ calls' \subseteq Calls /\ issued' \in Nat /\ orderly' \subseteq Groups
          /\ Taken("list", c) /\ \A h : h # "list" => Untouched(h)
      BY <1>1, <1>7, <2>1, AnswerPlain
    <2> QED
      BY <1>1, <1>2, <1>6, <1>8, <2>2 DEF Sound
  <1>9. CASE selected' # None
    <2> DEFINE a == Ask("peers", selected', {}, "mount")
    <2>1. Send({c}, <<a>>) /\ AskOK(a)
      BY <1>4, <1>5, <1>9, LoadOne
    <2>2. a.kind = "peers" /\ a.from = "mount" /\ Group(a.kind) = "list"
      BY AskFields DEF Group
    <2> HIDE DEF a
    <2>3. /\ CallsTold' /\ calls' \subseteq Calls /\ issued' \in Nat /\ orderly' \subseteq Groups
          /\ \E k : /\ Called(a, k) /\ Followed("list", c, k)
                    /\ \A h : h # "list" => Untouched(h)
      BY <1>1, <1>2, <1>7, <2>1, <2>2, AnswerSent
    <2>4. \E k : Followed("list", c, k) /\ k.kind = "peers" /\ k.from = "mount"
      BY <2>2, <2>3 DEF Called
    <2> QED
      BY <1>1, <1>2, <1>6, <2>3, <2>4 DEF Sound
  <1> QED
    BY <1>8, <1>9

\* setPeers; a page that is mounted goes on to the statistics.
LEMMA PeersStep ==
    ASSUME Sound, NEW c, ApplyPeers(c)
    PROVE  /\ Sound' /\ c.kind = "peers" /\ Taken("list", c) /\ \A h : h # "list" /\ h # "stats" => Untouched(h)
           /\ UNCHANGED <<srv, visit, interfaces, selected, statsOf, dialog, style, config, configString, saved>>
           /\ peers' = (IF c.ok THEN c.rows ELSE <<>>) /\ asked' = c.of
           /\ \/ (c.from # "mount" \/ GetSelected = None) /\ Untouched("stats")
              \/ \E k : /\ Joined("stats", k) /\ ("stats" \in orderly' => "stats" \in orderly)
                        /\ k.of = GetSelected
  <1>1. /\ c \in calls /\ c.kind = "peers" /\ Settles(c) /\ UNCHANGED server
        /\ UNCHANGED <<srv, srvIfaces, filter, visit, acts>>
    BY AppliesSettles DEF ApplyPeers
  <1>2. /\ TypeOK /\ UNCHANGED <<interfaces, selected, statsOf, dialog, style, config, configString, saved>>
        /\ peers' = (IF c.ok THEN c.rows ELSE <<>>) /\ asked' = c.of
        /\ Send({c}, IF c.from = "mount" THEN LoadStats(GetSelected) ELSE <<>>)
    BY DEF Sound, ApplyPeers, views
  <1>3. peers' \in Seq(Rows) /\ asked' \in IfaceSet
    <2>1. c.rows \in Seq(Rows) /\ <<>> \in Seq(Rows) /\ c.of \in IfaceSet
      BY <1>1, AnsweredAbout DEF OfPeer
    <2> QED
      BY <1>2, <2>1
  <1>4. table' \in Tables(Sizes) /\ Aligned(table)'
    <2>1. Count(peers', filter) \in Nat
      BY <1>3, CountNat
    <2> DEFINE n == Count(peers', filter)
    <2>2. table' = calculatePages(table, n) /\ n \in Nat
      BY <2>1 DEF ApplyPeers
    <2> HIDE DEF n
    <2> QED
      BY <2>2, PagesCounted, AlignedCounted DEF Sound, TypeOK
  <1>5. ASSUME calls' \subseteq Calls /\ issued' \in Nat /\ orderly' \subseteq Groups PROVE TypeOK'
    BY <1>1, <1>2, <1>3, <1>4, <1>5 DEF TypeOK
  <1>6. Group(c.kind) = "list" /\ "list" # "stats"
    BY <1>1 DEF Group
  <1>7. GetSelected \in IfaceSet \cup {None}
    BY <1>2, SelectedOf
  <1>8. CASE c.from # "mount" \/ GetSelected = None
    <2>1. Send({c}, <<>>)
      BY <1>2, <1>7, <1>8, LoadOne
    <2>2. /\ CallsTold' /\ calls' \subseteq Calls /\ issued' \in Nat /\ orderly' \subseteq Groups
          /\ Taken("list", c) /\ \A h : h # "list" => Untouched(h)
      BY <1>1, <1>6, <2>1, AnswerPlain
    <2> QED
      BY <1>1, <1>2, <1>4, <1>5, <1>6, <1>8, <2>2 DEF Sound
  <1>9. CASE c.from = "mount" /\ GetSelected # None
    <2> DEFINE a == Ask("stats", GetSelected, {}, "user")
    <2>1. Send({c}, <<a>>) /\ AskOK(a)
      BY <1>2, <1>7, <1>9, LoadOne
    <2>2. a.kind = "stats" /\ a.of = GetSelected /\ Group(a.kind) = "stats"
      BY AskFields DEF Group
    <2> HIDE DEF a
    <2>3. /\ CallsTold' /\ calls' \subseteq Calls /\ issued' \in Nat /\ orderly' \subseteq Groups
          /\ \E k : /\ Called(a, k) /\ Taken("list", c) /\ Joined("stats", k)
                    /\ "stats" \in orderly' => "stats" \in orderly
                    /\ \A h : h # "list" /\ h # "stats" => Untouched(h)
      BY <1>1, <1>2, <1>6, <2>1, <2>2, AnswerSent
    <2>4. \E k : Joined("stats", k) /\ ("stats" \in orderly' => "stats" \in orderly) /\ k.of = GetSelected
      BY <2>2, <2>3 DEF Called
    <2> QED
      BY <1>1, <1>2, <1>4, <1>5, <2>3, <2>4 DEF Sound
  <1> QED
    BY <1>8, <1>9

LEMMA StatsStep ==
    ASSUME Sound, NEW c, ApplyStats(c)
    PROVE  /\ Sound' /\ c.kind = "stats" /\ Taken("stats", c) /\ \A h : h # "stats" => Untouched(h)
           /\ UNCHANGED <<srv, visit, interfaces, selected, peers, asked, dialog, style, config, configString, saved>>
           /\ statsOf' = IF c.ok THEN c.of ELSE None
  <1>1. /\ c \in calls /\ c.kind = "stats" /\ Settles(c) /\ UNCHANGED server
        /\ UNCHANGED <<srv, srvIfaces, filter, visit, acts>>
    BY AppliesSettles DEF ApplyStats
  <1>2. /\ TypeOK /\ UNCHANGED <<interfaces, selected, peers, asked, table, dialog, style, config, configString, saved>>
        /\ statsOf' = (IF c.ok THEN c.of ELSE None) /\ Send({c}, <<>>) /\ Aligned(table)'
    BY DEF Sound, ApplyStats, views
  <1>3. statsOf' \in IfaceSet \cup {None}
    BY <1>1, <1>2, AnsweredAbout DEF OfPeer
  <1>4. Group(c.kind) = "stats"
    BY <1>1 DEF Group
  <1>5. /\ CallsTold' /\ calls' \subseteq Calls /\ issued' \in Nat /\ orderly' \subseteq Groups
        /\ Taken("stats", c) /\ \A h : h # "stats" => Untouched(h)
    BY <1>1, <1>2, <1>4, AnswerPlain
  <1>6. TypeOK'
    BY <1>1, <1>2, <1>3, <1>5 DEF TypeOK
  <1> QED
    BY <1>1, <1>2, <1>5, <1>6 DEF Sound

\* The answer of an edit changes the list of peers only.
LEMMA EditStep ==
    ASSUME Sound, NEW c, ApplyUpdate(c) \/ ApplyCreate(c) \/ ApplyDelete(c)
    PROVE  /\ Sound' /\ c.kind \in Edits /\ Taken("list", c) /\ \A h : h # "list" => Untouched(h)
           /\ UNCHANGED <<srv, visit, interfaces, selected, statsOf, dialog, style, config, configString, saved>>
           /\ c.kind \notin Pushes => asked' = asked
           /\ c.kind \in Pushes => peers' = peers \o c.rows /\ asked' = IF c.ok /\ c.of # asked THEN None ELSE asked
  <1>1. /\ c \in calls /\ c.kind \in Edits /\ Settles(c) /\ UNCHANGED server
        /\ UNCHANGED <<srv, srvIfaces, filter, visit, acts>>
        /\ (ApplyUpdate(c) => c.kind = "update") /\ (ApplyDelete(c) => c.kind = "delete") /\ (ApplyCreate(c) => c.kind \in Pushes)
    <2>1. ASSUME NEW kinds, Applies(c, kinds)
          PROVE  /\ c \in calls /\ c.kind \in kinds /\ Settles(c) /\ UNCHANGED server
                 /\ UNCHANGED <<srv, srvIfaces, filter, visit, acts>>
      BY <2>1, AppliesSettles
    <2>2. CASE ApplyUpdate(c)
      BY <2>1, <2>2 DEF ApplyUpdate, ApplyCreate, ApplyDelete, Applies, Edits, Pushes
    <2>3. CASE ApplyCreate(c)
      BY <2>1, <2>3 DEF ApplyUpdate, ApplyCreate, ApplyDelete, Applies, Edits, Pushes
    <2>4. CASE ApplyDelete(c)
      BY <2>1, <2>4 DEF ApplyUpdate, ApplyCreate, ApplyDelete, Applies, Edits, Pushes
    <2> QED
      BY <2>2, <2>3, <2>4
  <1>2. /\ TypeOK /\ UNCHANGED <<interfaces, selected, statsOf, table, dialog, style, config, configString, saved>>
        /\ Send({c}, <<>>) /\ Aligned(table)'
    BY DEF Sound, ApplyUpdate, ApplyCreate, ApplyDelete, views
  <1>3. asked' \in IfaceSet \cup {None}
    BY DEF Sound, TypeOK, ApplyUpdate, ApplyCreate, ApplyDelete
  <1>4. peers \in Seq(Rows) /\ c.rows \in Seq(Rows) /\ Len(peers) \in Nat /\ DOMAIN peers = 1 .. Len(peers)
    BY <1>1, <1>2, AnsweredAbout DEF TypeOK
  <1>5. peers' \in Seq(Rows)
    <2>1. CASE ApplyUpdate(c)
      <3>1. CASE c.ok
        <4>1. c.rows = <<[id |-> c.of, ver |-> c.no]>>
          BY <1>1, <2>1, <3>1, AnsweredAbout DEF About
        <4>2. c.rows[1] \in Rows
          BY <1>4, <4>1
        <4>3. \A n \in DOMAIN peers : peers[n] \in Rows
          BY <1>4
        <4>4. peers' = [n \in DOMAIN peers |->
                           IF peers[n].id = c.of /\ \A m \in 1 .. n - 1 : peers[m].id # c.of
                           THEN c.rows[1] ELSE peers[n]]
          BY <2>1, <3>1 DEF ApplyUpdate
        <4> DEFINE f(n) == IF peers[n].id = c.of /\ \A m \in 1 .. n - 1 : peers[m].id # c.of THEN c.rows[1] ELSE peers[n]
        <4>5. \A n \in DOMAIN peers : f(n) \in Rows
          BY <4>2, <4>3
        <4>6. peers' = [n \in 1 .. Len(peers) |-> f(n)]
          BY <1>4, <4>4
        <4> HIDE DEF f
        <4> QED
          BY <1>4, <4>5, <4>6
      <3>2. CASE ~c.ok
        BY <1>4, <2>1, <3>2 DEF ApplyUpdate
      <3> QED
        BY <3>1, <3>2
    <2>2. CASE ApplyCreate(c)
      BY <1>4, <2>2 DEF ApplyCreate
    <2>3. CASE ApplyDelete(c)
      <3> DEFINE K == {n \in DOMAIN peers : peers[n].id # c.of}
      <3>1. RowsAt(peers, K) \in Seq(Rows)
        <4>1. K \in SUBSET DOMAIN peers
          OBVIOUS
        <4> HIDE DEF K
        <4> QED
          BY <1>4, <4>1, RowsAtOf
      <3>2. peers' = IF c.ok THEN RowsAt(peers, K) ELSE peers
        BY <2>3 DEF ApplyDelete
      <3> HIDE DEF K
      <3> QED
        BY <1>4, <3>1, <3>2
    <2> QED
      BY <2>1, <2>2, <2>3
  <1>6. Group(c.kind) = "list"
    BY <1>1 DEF Group, Edits
  <1>7. /\ CallsTold' /\ calls' \subseteq Calls /\ issued' \in Nat /\ orderly' \subseteq Groups
        /\ Taken("list", c) /\ \A h : h # "list" => Untouched(h)
    BY <1>1, <1>2, <1>6, AnswerPlain
  <1>8. TypeOK'
    BY <1>1, <1>2, <1>3, <1>5, <1>7 DEF TypeOK
  <1>9. /\ c.kind \notin Pushes => asked' = asked
        /\ c.kind \in Pushes => peers' = peers \o c.rows /\ asked' = IF c.ok /\ c.of # asked THEN None ELSE asked
    <2>1. CASE ApplyCreate(c)
      BY <1>1, <2>1 DEF ApplyCreate
    <2>2. CASE ApplyUpdate(c)
      BY <1>1, <2>2 DEF ApplyUpdate, Pushes
    <2>3. CASE ApplyDelete(c)
      BY <1>1, <2>3 DEF ApplyDelete, Pushes
    <2> QED
      BY <2>1, <2>2, <2>3
  <1> QED
    BY <1>1, <1>2, <1>7, <1>8, <1>9 DEF Sound

\* The peers are loaded again while the dialog is open.
LEMMA DefaultsStep ==
    ASSUME Sound, NEW c, ApplyDefaults(c)
    PROVE  /\ Sound' /\ c.kind = "defaults" /\ \A h : h # "list" => Untouched(h)
           /\ UNCHANGED <<srv, visit, interfaces, selected, peers, statsOf, asked, dialog, style, config, configString, saved>>
           /\ \/ "list" \notin orderly' /\ Taken("list", c)
              \/ \E k : Followed("list", c, k) /\ k.kind = "peers" /\ k.from = "user"
  <1> DEFINE again == c.ok /\ dialog.kind = "edit"
  <1>1. /\ c \in calls /\ c.st = "answered" /\ c.kind = "defaults" /\ UNCHANGED server
        /\ UNCHANGED <<srv, srvIfaces, filter, visit, acts, interfaces, selected, peers, statsOf, asked, table, dialog, style, config,
                       configString, saved>>
        /\ Send({c}, IF again THEN LoadPeers(dialog.id, "user") ELSE <<>>)
        /\ orderly' = IF again /\ ~Overtakes(c, {"sent", "answered"}) THEN orderly ELSE orderly \ {"list"}
    BY DEF ApplyDefaults, lists, views, server
  <1>2. TypeOK /\ Aligned(table)' /\ Group(c.kind) = "list"
    BY <1>1 DEF Sound, Group
  <1>3. Settles(c)
    BY <1>1, <1>2 DEF Settles, Fails
  <1>4. ASSUME calls' \subseteq Calls /\ issued' \in Nat /\ orderly' \subseteq Groups PROVE TypeOK'
    BY <1>1, <1>2, <1>4 DEF TypeOK
  <1>5. CASE again
    <2> DEFINE a == Ask("peers", dialog.id, {}, "user")
    <2>1. dialog.id \in IfaceSet /\ None \notin IfaceSet
      BY <1>2, <1>5, PeersAssumption DEF TypeOK, Shut
    <2>2. Send({c}, <<a>>) /\ AskOK(a)
      BY <1>1, <1>5, <2>1, LoadOne
    <2>3. a.kind = "peers" /\ a.from = "user" /\ Group(a.kind) = "list"
      BY AskFields DEF Group
    <2> HIDE DEF a
    <2>4. /\ CallsTold' /\ calls' \subseteq Calls /\ issued' \in Nat /\ orderly' \subseteq Groups
          /\ \E k : /\ Called(a, k) /\ Followed("list", c, k)
                    /\ \A h : h # "list" => Untouched(h)
      BY <1>1, <1>2, <1>3, <2>2, <2>3, AnswerSent
    <2>5. \E k : Followed("list", c, k) /\ k.kind = "peers" /\ k.from = "user"
      BY <2>3, <2>4 DEF Called
    <2> QED
      BY <1>1, <1>2, <1>4, <2>4, <2>5 DEF Sound
  <1>6. CASE ~again
    <2>1. Send({c}, <<>>) /\ "list" \notin orderly'
      BY <1>1, <1>6
    <2>2. /\ CallsTold' /\ calls' \subseteq Calls /\ issued' \in Nat /\ orderly' \subseteq Groups
          /\ Taken("list", c) /\ \A h : h # "list" => Untouched(h)
      BY <1>1, <1>2, <1>3, <2>1, AnswerPlain
    <2> QED
      BY <1>1, <1>2, <1>4, <2>1, <2>2 DEF Sound
  <1> QED
    BY <1>5, <1>6

LEMMA NewInterfaceStep ==
    ASSUME Sound, NEW c, ApplyNewInterface(c)
    PROVE  /\ Sound' /\ c.kind = "newif" /\ Taken("list", c) /\ \A h : h # "list" => Untouched(h)
           /\ UNCHANGED <<srv, visit, selected, peers, statsOf, asked, dialog, style, config, configString, saved>>
           /\ interfaces' = interfaces \o c.rows /\ c.rows \in Seq(IfaceSet)
  <1>1. /\ c \in calls /\ c.kind = "newif" /\ Settles(c) /\ UNCHANGED server
        /\ UNCHANGED <<srv, srvIfaces, filter, visit, acts>>
    BY AppliesSettles DEF ApplyNewInterface
  <1>2. /\ TypeOK /\ UNCHANGED <<selected, peers, statsOf, asked, table, dialog, style, config, configString, saved>>
        /\ interfaces' = interfaces \o c.rows /\ Send({c}, <<>>) /\ Aligned(table)'
    BY DEF Sound, ApplyNewInterface, views
  <1>3. c.rows \in Seq(IfaceSet) /\ interfaces \in Seq(IfaceSet)
    BY <1>1, <1>2, AnsweredAbout DEF TypeOK
  <1>4. interfaces' \in Seq(IfaceSet)
    BY <1>2, <1>3
  <1>5. Group(c.kind) = "list"
    BY <1>1 DEF Group
  <1>6. /\ CallsTold' /\ calls' \subseteq Calls /\ issued' \in Nat /\ orderly' \subseteq Groups
        /\ Taken("list", c) /\ \A h : h # "list" => Untouched(h)
    BY <1>1, <1>2, <1>5, AnswerPlain
  <1>7. TypeOK'
    BY <1>1, <1>2, <1>4, <1>6 DEF TypeOK
  <1> QED
    BY <1>1, <1>2, <1>3, <1>6, <1>7 DEF Sound

LEMMA WithoutOf ==
    ASSUME TypeOK, NEW i
    PROVE  Without(i) \in Seq(IfaceSet)
  <1> DEFINE K == {n \in DOMAIN interfaces : interfaces[n] # i}
  <1>1. K \in SUBSET DOMAIN interfaces /\ interfaces \in Seq(IfaceSet)
    BY DEF TypeOK
  <1> HIDE DEF K
  <1>2. RowsAt(interfaces, K) \in Seq(IfaceSet)
    BY <1>1, RowsAtOf
  <1> QED
    BY <1>2 DEF Without, K

LEMMA DeleteInterfaceStep ==
    ASSUME Sound, NEW c, ApplyDeleteInterface(c)
    PROVE  /\ Sound' /\ c.kind = "delif" /\ Taken("list", c) /\ \A h : h # "list" => Untouched(h)
           /\ UNCHANGED <<srv, visit, peers, statsOf, style, config, configString, saved>>
           /\ dialog' \in {dialog, Shut} /\ asked' = (IF c.ok THEN None ELSE asked) /\ "stats" \notin orderly'
  <1>1. /\ c \in calls /\ c.st = "answered" /\ c.kind = "delif" /\ UNCHANGED <<server, filter, visit, acts>>
        /\ orderly' = IF c.ok /\ ~Overtakes(c, {"sent", "answered"}) THEN orderly \ {"stats"} ELSE orderly \ {"list", "stats"}
        /\ interfaces' = (IF c.ok THEN Without(c.of) ELSE interfaces)
        /\ selected' = (IF c.ok THEN First(interfaces') ELSE selected)
        /\ asked' = (IF c.ok THEN None ELSE asked)
        /\ dialog' = (IF c.ok /\ dialog.kind = "edit" THEN Shut ELSE dialog)
        /\ UNCHANGED <<peers, statsOf, table, views>> /\ Send({c}, <<>>)
    BY DEF ApplyDeleteInterface
  <1>2. TypeOK /\ Aligned(table)' /\ Group(c.kind) = "list" /\ UNCHANGED server
        /\ UNCHANGED <<srv, srvIfaces, style, config, configString, saved>>
    BY <1>1 DEF Sound, Group, server, views
  <1>3. Settles(c)
    BY <1>1, <1>2 DEF Settles, Fails
  <1>4. interfaces' \in Seq(IfaceSet)
    BY <1>1, <1>2, WithoutOf DEF TypeOK
  <1>5. selected' \in IfaceSet \cup {None} /\ asked' \in IfaceSet \cup {None} /\ dialog' \in {dialog, Shut}
    BY <1>1, <1>2, <1>4, FirstOf DEF TypeOK
  <1>6. /\ CallsTold' /\ calls' \subseteq Calls /\ issued' \in Nat /\ orderly' \subseteq Groups
        /\ Taken("list", c) /\ \A h : h # "list" => Untouched(h)
    BY <1>1, <1>2, <1>3, AnswerPlain
  <1>7. TypeOK'
    <2>1. dialog' \in {Shut} \cup [kind : {"peer"}, id : Peers] \cup [kind : {"iface", "edit"}, id : IfaceSet]
      BY <1>2, <1>5 DEF TypeOK
    <2> QED
      BY <1>1, <1>2, <1>4, <1>5, <1>6, <2>1 DEF TypeOK
  <1>8. "stats" \notin orderly'
    BY <1>1
  <1> QED
    BY <1>1, <1>2, <1>5, <1>6, <1>7, <1>8 DEF Sound

LEMMA LoadedOf ==
    ASSUME Sound, NEW c \in calls
    PROVE  /\ Loaded(c) \in Configs /\ (c.ok => Loaded(c) = [of |-> c.of, style |-> c.style])
           /\ Loaded(c).of \in {c.of, None}
  BY AnsweredAbout DEF Loaded, Configs, NoConfig

\* An answer with a configuration.
LEMMA ConfigStep ==
    ASSUME Sound, NEW c, ApplyConfig(c) \/ ApplyDownload(c)
    PROVE  /\ Sound' /\ Taken(Group(c.kind), c) /\ \A h : h # Group(c.kind) => Untouched(h)
           /\ UNCHANGED <<srv, visit, interfaces, selected, peers, statsOf, asked, dialog, style>>
           /\ c.kind \in {"peerconf", "ifconf", "download"} /\ (ApplyDownload(c) => c.kind = "download")
           /\ c.kind = "peerconf" /\ c.visit = visit => configString'.peer = Loaded(c)
           /\ c.kind = "ifconf" /\ c.visit = visit => configString'.iface = Loaded(c)
           /\ c.kind # "peerconf" => configString'.peer = configString.peer
           /\ c.kind # "ifconf" => configString'.iface = configString.iface
           /\ saved' = saved \/ (saved'.asked = saved'.name => saved'.text \in {saved'.name, None})
  <1>1. /\ c \in calls /\ Settles(c) /\ UNCHANGED server /\ c.kind \in {"peerconf", "ifconf", "download"}
        /\ (ApplyDownload(c) => c.kind = "download") /\ (ApplyConfig(c) => c.kind \in {"peerconf", "ifconf"})
        /\ UNCHANGED <<srv, srvIfaces, filter, visit, acts>>
    <2>1. CASE ApplyConfig(c)
      <3>1. /\ c \in calls /\ c.kind \in {"peerconf", "ifconf"} /\ Settles(c) /\ UNCHANGED server
            /\ UNCHANGED <<srv, srvIfaces, filter, visit, acts>>
        BY <2>1, AppliesSettles DEF ApplyConfig
      <3> QED
        BY <3>1 DEF ApplyDownload, Applies
    <2>2. CASE ApplyDownload(c)
      <3>1. /\ c \in calls /\ c.kind = "download" /\ Settles(c) /\ UNCHANGED server
            /\ UNCHANGED <<srv, srvIfaces, filter, visit, acts>>
        BY <2>2, AppliesSettles DEF ApplyDownload
      <3> QED
        BY <3>1 DEF ApplyConfig, Applies
    <2> QED
      BY <2>1, <2>2
  <1>2. /\ TypeOK /\ UNCHANGED <<interfaces, selected, peers, statsOf, asked, table, dialog, style>>
        /\ Send({c}, <<>>) /\ Aligned(table)'
    BY DEF Sound, ApplyConfig, ApplyDownload, lists
  <1>3. /\ Loaded(c) \in Configs /\ Loaded(c).of \in {c.of, None}
        /\ config \in [peer : Configs, iface : Configs] /\ configString \in [peer : Configs, iface : Configs]
        /\ saved \in [text : IfaceSet \cup {None}, name : IfaceSet \cup {None}, asked : IfaceSet \cup {None}]
    BY <1>1, <1>2, LoadedOf DEF TypeOK
  <1> DEFINE v == Loaded(c)
             Typed == /\ config' \in [peer : Configs, iface : Configs] /\ configString' \in [peer : Configs, iface : Configs]
                      /\ saved' \in [text : IfaceSet \cup {None}, name : IfaceSet \cup {None}, asked : IfaceSet \cup {None}]
             Kept == /\ c.kind = "peerconf" /\ c.visit = visit => configString'.peer = v
                     /\ c.kind = "ifconf" /\ c.visit = visit => configString'.iface = v
                     /\ c.kind # "peerconf" => configString'.peer = configString.peer
                     /\ c.kind # "ifconf" => configString'.iface = configString.iface
                     /\ saved' = saved \/ (saved'.asked = saved'.name => saved'.text \in {saved'.name, None})
  <1>4. ASSUME ApplyConfig(c), c.kind = "peerconf" PROVE Typed /\ Kept
    <2>1. /\ config' = [config EXCEPT !["peer"] = v] /\ saved' = saved
          /\ configString' = IF c.visit = visit THEN [configString EXCEPT !["peer"] = config'["peer"]] ELSE configString
      BY <1>4 DEF ApplyConfig
    <2> HIDE DEF v
    <2>2. config' \in [peer : Configs, iface : Configs] /\ config'["peer"] = v
      BY <1>3, <2>1 DEF v
    <2>3. configString' \in [peer : Configs, iface : Configs] /\ configString'.iface = configString.iface
          /\ (c.visit = visit => configString'.peer = v)
      BY <1>3, <2>1, <2>2
    <2> QED
      BY <1>3, <1>4, <2>1, <2>2, <2>3
  <1>5. ASSUME ApplyConfig(c), c.kind = "ifconf" PROVE Typed /\ Kept
    <2>1. /\ config' = [config EXCEPT !["iface"] = v] /\ saved' = saved
          /\ configString' = IF c.visit = visit THEN [configString EXCEPT !["iface"] = config'["iface"]] ELSE configString
      BY <1>5 DEF ApplyConfig
    <2> HIDE DEF v
    <2>2. config' \in [peer : Configs, iface : Configs] /\ config'["iface"] = v
      BY <1>3, <2>1 DEF v
    <2>3. configString' \in [peer : Configs, iface : Configs] /\ configString'.peer = configString.peer
          /\ (c.visit = visit => configString'.iface = v)
      BY <1>3, <2>1, <2>2
    <2> QED
      BY <1>3, <1>5, <2>1, <2>2, <2>3
  <1>6. ASSUME ApplyDownload(c) PROVE Typed /\ Kept
    <2>1. /\ config' = [config EXCEPT !.iface = v] /\ configString' = configString
          /\ saved' = [text |-> config'.iface.of, name |-> GetSelected, asked |-> c.of]
      BY <1>6 DEF ApplyDownload
    <2>2. c.kind = "download" /\ c.of \in IfaceSet /\ GetSelected \in IfaceSet \cup {None}
      BY <1>1, <1>2, <1>6, AnsweredAbout, SelectedOf DEF OfPeer
    <2> HIDE DEF v
    <2>3. config' \in [peer : Configs, iface : Configs] /\ config'.iface = v
      BY <1>3, <2>1 DEF v
    <2>4. v.of \in {c.of, None}
      BY <1>3 DEF v
    <2>5. /\ saved' \in [text : IfaceSet \cup {None}, name : IfaceSet \cup {None}, asked : IfaceSet \cup {None}]
          /\ saved'.asked = saved'.name => saved'.text \in {saved'.name, None}
      BY <2>1, <2>2, <2>3, <2>4
    <2> QED
      BY <1>3, <2>1, <2>2, <2>3, <2>5
  <1>7. Typed /\ Kept
    BY <1>1, <1>4, <1>5, <1>6
  <1>8. /\ CallsTold' /\ calls' \subseteq Calls /\ issued' \in Nat /\ orderly' \subseteq Groups
        /\ Taken(Group(c.kind), c) /\ \A h : h # Group(c.kind) => Untouched(h)
    BY <1>1, <1>2, AnswerPlain
  <1>9. TypeOK'
    BY <1>1, <1>2, <1>7, <1>8 DEF TypeOK
  <1> QED
    BY <1>1, <1>2, <1>7, <1>8, <1>9 DEF Sound

-----------------------------------------------------------------------------
(* Types and pages *)

LEMMA InitSound == Init => Sound
  <1> SUFFICES ASSUME Init PROVE Sound
    OBVIOUS
  <1>1. IfaceSet \subseteq IfaceSet /\ None \notin IfaceSet /\ Ifaces \in Seq(IfaceSet) /\ Styles # {}
    BY PeersAssumption
  <1>2. srv \in [Peers -> Nat] /\ srvIfaces = IfaceSet
    BY DEF Init
  <1>3. selected \in IfaceSet \cup {None} /\ interfaces \in Seq(IfaceSet)
    BY <1>1, FirstOf DEF Init
  <1>4. peers \in Seq(Rows) /\ Len(peers) \in Nat
    BY <1>2, OrderRows DEF Init
  <1>5. table \in Tables(Sizes) /\ Aligned(table)
    <2> DEFINE least == CHOOSE n \in Sizes : \A m \in Sizes : n <= m
               z == freshTable(least)
    <2>1. least \in Sizes /\ least \in Nat \ {0}
      BY PeersAssumption
    <2> HIDE DEF least
    <2>2. 0 % least = 0
      BY <2>1
    <2>3. z \in Tables(Sizes) /\ Aligned(z)
      BY <2>1, <2>2 DEF freshTable, Tables, Aligned
    <2>4. table = calculatePages(z, Len(peers))
      BY DEF Init, z, least
    <2> HIDE DEF z
    <2> QED
      BY <1>4, <2>3, <2>4, PagesCounted, AlignedCounted
  <1>6. style \in Styles
    BY <1>1 DEF Init
  <1>7. NoConfig \in Configs
    BY DEF NoConfig, Configs
  <1>8. config \in [peer : Configs, iface : Configs] /\ configString \in [peer : Configs, iface : Configs]
    BY <1>7 DEF Init
  <1>9. TypeOK
    BY <1>1, <1>2, <1>3, <1>4, <1>5, <1>6, <1>8 DEF Init, TypeOK, Groups
  <1>10. CallsTold
    BY DEF Init, CallsTold
  <1> QED
    BY <1>5, <1>9, <1>10 DEF Sound

LEMMA NextSound == Sound /\ [Next]_vars => Sound'
  <1> SUFFICES ASSUME Sound, [Next]_vars PROVE Sound'
    OBVIOUS
  <1>1. CASE Person
    BY <1>1, PersonCases, LookingStep, AskingStep, SelectStep
  <1>2. ASSUME NEW c \in calls, Handle(c) \/ HandlePartly(c) \/ Lose(c) PROVE Sound'
    BY <1>2, ServerStep
  <1>3. ASSUME NEW c \in calls, Apply(c) PROVE Sound'
    <2>1. CASE ApplyInterfaces(c) \/ ApplyPeers(c) \/ ApplyStats(c)
      BY <2>1, InterfacesStep, PeersStep, StatsStep
    <2>2. CASE ApplyUpdate(c) \/ ApplyCreate(c) \/ ApplyDelete(c)
      BY <2>2, EditStep
    <2>3. CASE ApplyDefaults(c) \/ ApplyNewInterface(c) \/ ApplyDeleteInterface(c)
      BY <2>3, DefaultsStep, NewInterfaceStep, DeleteInterfaceStep
    <2>4. CASE ApplyConfig(c) \/ ApplyDownload(c)
      BY <2>4, ConfigStep
    <2> QED
      BY <1>3, <2>1, <2>2, <2>3, <2>4 DEF Apply
  <1>4. CASE UNCHANGED vars
    <2>1. /\ UNCHANGED <<srvIfaces, srv, interfaces, selected, peers, statsOf, table, filter, dialog, style, config,
                         configString, saved, visit, calls, issued, acts, asked, orderly>>
          /\ TypeOK /\ CallsTold /\ Aligned(table)
      BY <1>4 DEF vars, Sound
    <2>2. TypeOK'
      BY <2>1 DEF TypeOK
    <2>3. CallsTold'
      BY <2>1, ToldGone
    <2> QED
      BY <2>1, <2>2, <2>3 DEF Sound
  <1> QED
    BY <1>1, <1>2, <1>3, <1>4 DEF Next

\* The variables keep their shapes, calls are told apart by their numbers and
\* are answered with what they wrote, and the page offset is the start of a
\* page: over every mix of clicks, answers and losses.
THEOREM SoundHolds == Spec => []Sound
  BY InitSound, NextSound, PTL DEF Spec

\* Every variable of the interface page has its shape.
THEOREM PeersTypeHolds == Spec => []TypeOK
  <1>1. Sound => TypeOK
    BY DEF Sound
  <1> QED
    BY <1>1, SoundHolds, PTL

\* Whatever page links, filters, page sizes, reloads, saves and deletions came
\* before, the page offset is the start of a page, and the window of page links
\* holds the link of the current page and none to a page that does not exist.
THEOREM PagingSoundHolds == Spec => []PagingSound
  <1>1. Sound => PagingSound
    <2> SUFFICES ASSUME Sound, ~table.click, currentPage(table) <= table.pages
                 PROVE  LET links == visiblePages(currentPage(table), table.pages, Width)
                        IN  currentPage(table) \in links /\ links \subseteq 1 .. table.pages
      BY DEF Sound, PagingSound
    <2>1. table.size \in Nat \ {0} /\ table.offset \in Nat /\ table.pages \in Nat
      <3>1. table \in Tables(Sizes) /\ Aligned(table)
        BY DEF Sound, TypeOK
      <3>2. table.size \in Sizes /\ table.offset \in Int /\ table.pages \in Nat
        BY <3>1 DEF Tables
      <3>3. table.offset >= 0
        BY <3>1 DEF Aligned
      <3> QED
        <4>1. table.size \in Nat \ {0}
          BY <3>2, PeersAssumption
        <4> QED
          BY <3>2, <3>3, <4>1
    <2>2. table.offset \div table.size \in Nat
      BY <2>1, DivNat
    <2>3. currentPage(table) \in Nat /\ 1 <= currentPage(table)
      BY <2>2 DEF currentPage
    <2> QED
      BY <2>1, <2>3, Window
  <1> QED
    BY <1>1, SoundHolds, PTL

-----------------------------------------------------------------------------
(* What is selected *)

LEMMA SelectedNext == Sound /\ SelectedListed /\ [Next]_vars => SelectedListed'
  <1> SUFFICES ASSUME Sound, SelectedListed, [Next]_vars PROVE SelectedListed'
    OBVIOUS
  <1>0. TypeOK /\ interfaces \in Seq(IfaceSet) /\ selected \in IfaceSet \cup {None} /\ None \notin IfaceSet
    BY PeersAssumption DEF Sound, TypeOK
  <1>1. ASSUME UNCHANGED <<interfaces, selected>> PROVE SelectedListed'
    BY <1>1 DEF SelectedListed, Rng
  <1>2. CASE Person
    <2>1. CASE Looking
      BY <1>1, <2>1 DEF Looking, lists
    <2>2. ASSUME NEW a, Asking(a) PROVE SelectedListed'
      BY <1>1, <2>2 DEF Asking, lists
    <2>3. ASSUME NEW i \in IfaceSet, Select(i) PROVE SelectedListed'
      BY <2>3 DEF Select, SelectedListed, Rng
    <2> QED
      BY <1>2, <2>1, <2>2, <2>3, PersonCases
  <1>3. ASSUME NEW c \in calls, Handle(c) \/ HandlePartly(c) \/ Lose(c) PROVE SelectedListed'
    <2>1. UNCHANGED lists
      BY <1>3 DEF Handle, HandlePartly, Lose
    <2> QED
      BY <1>1, <2>1 DEF lists
  <1>4. ASSUME NEW s \in Seq(IfaceSet), interfaces' = s, selected' = First(s) PROVE SelectedListed'
    BY <1>4, FirstOf DEF SelectedListed, Rng
  <1>5. ASSUME NEW c \in calls, Apply(c) PROVE SelectedListed'
    <2>1. CASE ApplyInterfaces(c)
      <3>1. c.kind = "ifaces"
        BY <2>1 DEF ApplyInterfaces, Applies
      <3>2. interfaces' \in Seq(IfaceSet)
        BY <2>1, <3>1, AnsweredAbout DEF ApplyInterfaces
      <3> QED
        BY <1>4, <2>1, <3>2 DEF ApplyInterfaces
    <2>2. CASE ApplyNewInterface(c)
      <3>1. c.rows \in Seq(IfaceSet) /\ interfaces' = interfaces \o c.rows /\ selected' = selected
        BY <2>2, NewInterfaceStep
      <3>2. \A n \in DOMAIN interfaces : n \in DOMAIN interfaces' /\ interfaces'[n] = interfaces[n]
        BY <1>0, <3>1
      <3> QED
        BY <3>1, <3>2 DEF SelectedListed, Rng
    <2>3. CASE ApplyDeleteInterface(c) /\ c.ok
      <3>1. interfaces' = Without(c.of) /\ selected' = First(interfaces')
        BY <2>3 DEF ApplyDeleteInterface
      <3>2. interfaces' \in Seq(IfaceSet)
        BY <1>0, <3>1, WithoutOf
      <3> QED
        BY <1>4, <3>1, <3>2
    <2>4. CASE ApplyDeleteInterface(c) /\ ~c.ok
      BY <1>1, <2>4 DEF ApplyDeleteInterface
    <2>5. CASE ApplyPeers(c) \/ ApplyStats(c) \/ ApplyUpdate(c) \/ ApplyCreate(c) \/ ApplyDelete(c)
      BY <1>1, <2>5 DEF ApplyPeers, ApplyStats, ApplyUpdate, ApplyCreate, ApplyDelete
    <2>6. CASE ApplyDefaults(c) \/ ApplyConfig(c) \/ ApplyDownload(c)
      BY <1>1, <2>6 DEF ApplyDefaults, ApplyConfig, ApplyDownload, lists
    <2> QED
      BY <1>5, <2>1, <2>2, <2>3, <2>4, <2>5, <2>6 DEF Apply
  <1>6. CASE UNCHANGED vars
    BY <1>1, <1>6 DEF vars
  <1> QED
    BY <1>2, <1>3, <1>5, <1>6 DEF Next

\* What is selected is listed, whatever answer came last: the page never loads
\* or edits an interface the selector does not show.
THEOREM SelectedListedHolds == Spec => []SelectedListed
  <1>1. Init => SelectedListed
    <2>1. Ifaces \in Seq(IfaceSet)
      BY PeersAssumption
    <2> QED
      BY <2>1, FirstOf DEF Init, SelectedListed
  <1> QED
    BY <1>1, SelectedNext, SoundHolds, PTL DEF Spec
-----------------------------------------------------------------------------
(* Configurations *)

\* The newest call of a group when one is sent, answered or taken.
LEMMA NewestJoined ==
    ASSUME Sound, NEW g, NEW k, Joined(g, k), NEW c \in InFlight(g)', Newest(c, InFlight(g)')
    PROVE  c = k
  <1>1. \A e \in InFlight(g) : e.no \in Nat
    BY Numbered, InGroup DEF Sound
  <1> QED
    BY <1>1 DEF Joined, Newest

LEMMA NewestSwapped ==
    ASSUME Sound, NEW g, NEW c, NEW d, Swapped(g, c, d), NEW e \in InFlight(g)', Newest(e, InFlight(g)')
    PROVE  \E f \in InFlight(g) : /\ Newest(f, InFlight(g)) /\ f.kind = e.kind /\ f.of = e.of /\ f.style = e.style
                                  /\ f.visit = e.visit
  <1>1. /\ c \in InFlight(g) /\ InFlight(g)' = (InFlight(g) \ {c}) \cup {d}
        /\ d.no = c.no /\ d.kind = c.kind /\ d.of = c.of /\ d.style = c.style /\ d.visit = c.visit
    BY DEF Swapped, Same
  <1>2. CASE e = d
    <2>1. Newest(c, InFlight(g))
      <3>1. \A f \in InFlight(g) : f = c \/ f \in InFlight(g)'
        BY <1>1
      <3>2. c.no <= c.no
        BY <1>1, Numbered, InGroup DEF Sound
      <3> QED
        BY <1>1, <1>2, <3>1, <3>2 DEF Newest
    <2> QED
      BY <1>1, <1>2, <2>1
  <1>3. CASE e # d
    <2>1. e \in InFlight(g) /\ Newest(e, InFlight(g))
      BY <1>1, <1>3 DEF Newest
    <2> QED
      BY <2>1
  <1> QED
    BY <1>2, <1>3

LEMMA NewestTaken ==
    ASSUME Sound, NEW g, NEW c, Taken(g, c), g \in orderly', NEW e \in InFlight(g)', Newest(e, InFlight(g)')
    PROVE  e \in InFlight(g) /\ Newest(e, InFlight(g))
  BY DEF Taken, Newest

LEMMA LastTaken ==
    ASSUME Sound, NEW g, NEW c, Taken(g, c), InFlight(g)' = {}
    PROVE  c \in InFlight(g) /\ Newest(c, InFlight(g))
  <1>1. c \in InFlight(g) /\ \A f \in InFlight(g) : f = c
    BY DEF Taken
  <1>2. c.no <= c.no
    BY <1>1, Numbered, InGroup DEF Sound
  <1> QED
    BY <1>1, <1>2 DEF Newest

LEMMA PeerConfKept ==
    ASSUME PeerConfPending, Untouched("peerconf"),
           dialog'.kind = "peer" => UNCHANGED <<dialog, style, visit>> /\ configString'.peer = configString.peer
    PROVE  PeerConfPending'
  BY DEF PeerConfPending, Untouched, Newest

LEMMA PeerConfSent ==
    ASSUME Sound, NEW k, Joined("peerconf", k), dialog' = [kind |-> "peer", id |-> k.of], k.style = style', k.visit = visit'
    PROVE  PeerConfPending'
  <1>1. InFlight("peerconf")' # {}
    BY DEF Joined
  <1>2. \A c \in InFlight("peerconf")' : Newest(c, InFlight("peerconf")') => c = k
    BY NewestJoined
  <1>3. dialog'.id = k.of
    OBVIOUS
  <1> QED
    BY <1>1, <1>2, <1>3 DEF PeerConfPending

LEMMA PeerConfSwapped ==
    ASSUME Sound, PeerConfPending, NEW c, NEW d, Swapped("peerconf", c, d), UNCHANGED <<dialog, style, visit, configString>>
    PROVE  PeerConfPending'
  <1>1. InFlight("peerconf")' # {} /\ ("peerconf" \in orderly' => "peerconf" \in orderly)
    BY DEF Swapped
  <1>2. ASSUME "peerconf" \in orderly', dialog.kind = "peer", NEW e \in InFlight("peerconf")', Newest(e, InFlight("peerconf")')
        PROVE  e.of = dialog.id /\ e.style = style /\ e.visit = visit
    <2>1. PICK f \in InFlight("peerconf") : Newest(f, InFlight("peerconf")) /\ f.of = e.of /\ f.style = e.style /\ f.visit = e.visit
      BY <1>2, NewestSwapped
    <2> QED
      BY <1>1, <1>2, <2>1 DEF PeerConfPending
  <1> QED
    BY <1>1, <1>2 DEF PeerConfPending

LEMMA PeerConfTaken ==
    ASSUME Sound, PeerConfPending, NEW c, Taken("peerconf", c), UNCHANGED <<dialog, style, visit>>,
           c.visit = visit => configString'.peer = Loaded(c)
    PROVE  PeerConfPending'
  <1> SUFFICES ASSUME "peerconf" \in orderly', dialog.kind = "peer" PROVE PeerConfPending'
    BY DEF PeerConfPending
  <1>1. "peerconf" \in orderly /\ c.ok /\ c \in calls
    BY InGroup DEF Taken, Fails
  <1>2. ASSUME InFlight("peerconf")' = {} PROVE configString'.peer = [of |-> dialog.id, style |-> style]
    <2>1. c \in InFlight("peerconf") /\ Newest(c, InFlight("peerconf"))
      BY <1>2, LastTaken
    <2>2. c.of = dialog.id /\ c.style = style /\ c.visit = visit
      BY <1>1, <2>1 DEF PeerConfPending
    <2> QED
      BY <1>1, <2>2, LoadedOf
  <1>3. ASSUME NEW e \in InFlight("peerconf")', Newest(e, InFlight("peerconf")')
        PROVE  e.of = dialog.id /\ e.style = style /\ e.visit = visit
    BY <1>1, <1>3, NewestTaken DEF PeerConfPending
  <1> QED
    BY <1>2, <1>3 DEF PeerConfPending

LEMMA IfaceConfKept ==
    ASSUME IfaceConfPending, Untouched("ifconf"),
           dialog'.kind = "iface" => UNCHANGED <<dialog, visit>> /\ configString'.iface = configString.iface
    PROVE  IfaceConfPending'
  BY DEF IfaceConfPending, Untouched, Newest

LEMMA IfaceConfSent ==
    ASSUME Sound, NEW k, Joined("ifconf", k), k.kind = "ifconf", dialog' = [kind |-> "iface", id |-> k.of], k.visit = visit'
    PROVE  IfaceConfPending'
  <1>1. InFlight("ifconf")' # {}
    BY DEF Joined
  <1>2. \A c \in InFlight("ifconf")' : Newest(c, InFlight("ifconf")') => c = k
    BY NewestJoined
  <1>3. dialog'.id = k.of
    OBVIOUS
  <1> QED
    BY <1>1, <1>2, <1>3 DEF IfaceConfPending

LEMMA IfaceConfSwapped ==
    ASSUME Sound, IfaceConfPending, NEW c, NEW d, Swapped("ifconf", c, d), UNCHANGED <<dialog, visit, configString>>
    PROVE  IfaceConfPending'
  <1>1. InFlight("ifconf")' # {} /\ ("ifconf" \in orderly' => "ifconf" \in orderly)
    BY DEF Swapped
  <1>2. ASSUME "ifconf" \in orderly', dialog.kind = "iface", NEW e \in InFlight("ifconf")', Newest(e, InFlight("ifconf")')
        PROVE  e.kind = "ifconf" /\ e.of = dialog.id /\ e.visit = visit
    <2>1. PICK f \in InFlight("ifconf") : Newest(f, InFlight("ifconf")) /\ f.kind = e.kind /\ f.of = e.of /\ f.visit = e.visit
      BY <1>2, NewestSwapped
    <2> QED
      BY <1>1, <1>2, <2>1 DEF IfaceConfPending
  <1> QED
    BY <1>1, <1>2 DEF IfaceConfPending

\* The last answer of the group is never a download's while the dialog is open.
LEMMA IfaceConfTaken ==
    ASSUME Sound, IfaceConfPending, NEW c, Taken("ifconf", c), UNCHANGED <<dialog, visit>>,
           c.kind = "ifconf" /\ c.visit = visit => configString'.iface = Loaded(c)
    PROVE  IfaceConfPending'
  <1> SUFFICES ASSUME "ifconf" \in orderly', dialog.kind = "iface" PROVE IfaceConfPending'
    BY DEF IfaceConfPending
  <1>1. "ifconf" \in orderly /\ c.ok /\ c \in calls
    BY InGroup DEF Taken, Fails
  <1>2. ASSUME InFlight("ifconf")' = {} PROVE configString'.iface.of = dialog.id
    <2>1. c \in InFlight("ifconf") /\ Newest(c, InFlight("ifconf"))
      BY <1>2, LastTaken
    <2>2. c.kind = "ifconf" /\ c.of = dialog.id /\ c.visit = visit
      BY <1>1, <2>1 DEF IfaceConfPending
    <2>3. Loaded(c) = [of |-> c.of, style |-> c.style]
      BY <1>1, LoadedOf
    <2> QED
      BY <2>2, <2>3
  <1>3. ASSUME NEW e \in InFlight("ifconf")', Newest(e, InFlight("ifconf")')
        PROVE  e.kind = "ifconf" /\ e.of = dialog.id /\ e.visit = visit
    BY <1>1, <1>3, NewestTaken DEF IfaceConfPending
  <1> QED
    BY <1>2, <1>3 DEF IfaceConfPending

\* A downloaded file holds what its name says.
SavedNamed == saved.asked = saved.name => saved.text \in {saved.name, None}

ConfInv == PeerConfPending /\ IfaceConfPending /\ SavedNamed

LEMMA ConfKept ==
    ASSUME ConfInv, Untouched("peerconf"), Untouched("ifconf"),
           dialog' # dialog => dialog'.kind \notin {"peer", "iface"}, UNCHANGED <<style, visit, configString, saved>>
    PROVE  ConfInv'
  <1>1. PeerConfPending'
    BY PeerConfKept DEF ConfInv
  <1>2. IfaceConfPending'
    BY IfaceConfKept DEF ConfInv
  <1> QED
    BY <1>1, <1>2 DEF ConfInv, SavedNamed

LEMMA ConfAsking ==
    ASSUME Sound, ConfInv, NEW a, Asking(a)
    PROVE  ConfInv'
  <1>1. PeerConfPending /\ IfaceConfPending /\ SavedNamed /\ saved' = saved
    BY DEF ConfInv, Asking
  <1>2. SavedNamed'
    BY <1>1 DEF SavedNamed
  <1>3. a.kind \in Kinds /\ Shown(a) /\ Shut.kind = "none"
    BY DEF Asking, AskOK, Shut
  <1>4. PICK k : /\ Called(a, k) /\ Joined(Group(a.kind), k)
                 /\ \A h : h # Group(a.kind) => Untouched(h)
    BY AskingStep
  <1>5. k.kind = a.kind /\ k.of = a.of /\ k.style = style' /\ k.visit = visit'
    BY <1>4 DEF Called
  <1>6. PeerConfPending'
    <2>1. CASE a.kind = "peerconf"
      <3>1. dialog' = [kind |-> "peer", id |-> k.of]
        BY <1>3, <1>5, <2>1 DEF Shown, Edits
      <3>2. Group(a.kind) = "peerconf"
        BY <1>3, <2>1, GroupKinds
      <3> QED
        BY <1>4, <1>5, <3>1, <3>2, PeerConfSent
    <2>2. CASE a.kind # "peerconf"
      <3>1. Untouched("peerconf")
        BY <1>3, <1>4, <2>2, GroupKinds
      <3>2. dialog'.kind = "peer" => UNCHANGED <<dialog, style, visit>> /\ configString'.peer = configString.peer
        BY <1>3, <2>2 DEF Shown
      <3> QED
        BY <1>1, <3>1, <3>2, PeerConfKept
    <2> QED
      BY <2>1, <2>2
  <1>7. IfaceConfPending'
    <2>1. CASE a.kind = "ifconf"
      <3>1. dialog' = [kind |-> "iface", id |-> k.of]
        BY <1>3, <1>5, <2>1 DEF Shown, Edits
      <3>2. Group(a.kind) = "ifconf"
        BY <1>3, <2>1, GroupKinds
      <3> QED
        BY <1>4, <1>5, <2>1, <3>1, <3>2, IfaceConfSent
    <2>2. CASE a.kind = "download"
      <3>1. dialog' = Shut
        BY <1>3, <2>2 DEF Shown, Edits
      <3> QED
        BY <1>3, <3>1 DEF IfaceConfPending
    <2>3. CASE a.kind \notin {"ifconf", "download"}
      <3>1. Untouched("ifconf")
        BY <1>3, <1>4, <2>3, GroupKinds
      <3>2. dialog'.kind = "iface" => UNCHANGED <<dialog, visit>> /\ configString'.iface = configString.iface
        BY <1>3, <2>3 DEF Shown
      <3> QED
        BY <1>1, <3>1, <3>2, IfaceConfKept
    <2> QED
      BY <2>1, <2>2, <2>3
  <1> QED
    BY <1>2, <1>6, <1>7 DEF ConfInv

LEMMA ConfServed ==
    ASSUME Sound, ConfInv, NEW c \in calls, NEW d, Served(c, d)
    PROVE  ConfInv'
  <1>1. PeerConfPending /\ IfaceConfPending /\ SavedNamed /\ UNCHANGED <<saved, dialog, style, visit, configString>>
    BY DEF ConfInv, Served, views
  <1>2. Swapped(Group(c.kind), c, d) /\ \A h : h # Group(c.kind) => Untouched(h)
    BY DEF Served
  <1>3. PeerConfPending'
    <2>1. CASE Group(c.kind) = "peerconf"
      BY <1>1, <1>2, <2>1, PeerConfSwapped
    <2>2. CASE Group(c.kind) # "peerconf"
      BY <1>1, <1>2, <2>2, PeerConfKept
    <2> QED
      BY <2>1, <2>2
  <1>4. IfaceConfPending'
    <2>1. CASE Group(c.kind) = "ifconf"
      BY <1>1, <1>2, <2>1, IfaceConfSwapped
    <2>2. CASE Group(c.kind) # "ifconf"
      BY <1>1, <1>2, <2>2, IfaceConfKept
    <2> QED
      BY <2>1, <2>2
  <1> QED
    BY <1>1, <1>3, <1>4 DEF ConfInv, SavedNamed

LEMMA ConfAnswered ==
    ASSUME Sound, ConfInv, NEW c \in calls, ApplyConfig(c) \/ ApplyDownload(c)
    PROVE  ConfInv'
  <1>1. PeerConfPending /\ IfaceConfPending /\ SavedNamed
    BY DEF ConfInv
  <1>2. /\ Taken(Group(c.kind), c) /\ \A h : h # Group(c.kind) => Untouched(h)
        /\ UNCHANGED <<visit, dialog, style>> /\ c.kind \in {"peerconf", "ifconf", "download"}
        /\ c.kind = "peerconf" /\ c.visit = visit => configString'.peer = Loaded(c)
        /\ c.kind = "ifconf" /\ c.visit = visit => configString'.iface = Loaded(c)
        /\ c.kind # "peerconf" => configString'.peer = configString.peer
        /\ c.kind # "ifconf" => configString'.iface = configString.iface
        /\ saved' = saved \/ (saved'.asked = saved'.name => saved'.text \in {saved'.name, None})
    BY ConfigStep
  <1>3. SavedNamed'
    BY <1>1, <1>2 DEF SavedNamed
  <1>4. CASE c.kind = "peerconf"
    <2>1. Group(c.kind) = "peerconf" /\ "ifconf" # "peerconf"
      BY <1>4 DEF Group
    <2>2. PeerConfPending'
      BY <1>1, <1>2, <1>4, <2>1, PeerConfTaken
    <2>3. IfaceConfPending'
      BY <1>1, <1>2, <1>4, <2>1, IfaceConfKept
    <2> QED
      BY <1>3, <2>2, <2>3 DEF ConfInv
  <1>5. CASE c.kind \in {"ifconf", "download"}
    <2>1. Group(c.kind) = "ifconf" /\ c.kind # "peerconf"
      BY <1>5 DEF Group
    <2>2. PeerConfPending'
      BY <1>1, <1>2, <2>1, PeerConfKept
    <2>3. IfaceConfPending'
      BY <1>1, <1>2, <2>1, IfaceConfTaken
    <2> QED
      BY <1>3, <2>2, <2>3 DEF ConfInv
  <1> QED
    BY <1>2, <1>4, <1>5

LEMMA ConfNext == Sound /\ ConfInv /\ [Next]_vars => ConfInv'
  <1> SUFFICES ASSUME Sound, ConfInv, [Next]_vars PROVE ConfInv'
    OBVIOUS
  <1>0. Shut.kind = "none" /\ "list" # "peerconf" /\ "list" # "ifconf" /\ "stats" # "peerconf" /\ "stats" # "ifconf"
    BY DEF Shut
  <1>1. CASE Person
    <2>1. CASE Looking
      <3>1. \A g : Untouched(g)
        BY <2>1, LookingStep
      <3>2. UNCHANGED <<style, visit, configString, saved>> /\ (dialog' # dialog => dialog'.kind \notin {"peer", "iface"})
        BY <1>0, <2>1 DEF Looking, views
      <3> QED
        BY <3>1, <3>2, ConfKept
    <2>2. ASSUME NEW a, Asking(a) PROVE ConfInv'
      BY <2>2, ConfAsking
    <2>3. ASSUME NEW i \in IfaceSet, Select(i) PROVE ConfInv'
      <3>1. /\ UNCHANGED <<style, visit, dialog, configString, saved>>
            /\ \A h : h # "list" /\ h # "stats" => Untouched(h)
        BY <2>3, SelectStep
      <3> QED
        BY <1>0, <3>1, ConfKept
    <2> QED
      BY <1>1, <2>1, <2>2, <2>3, PersonCases
  <1>2. ASSUME NEW c \in calls, Handle(c) \/ HandlePartly(c) \/ Lose(c) PROVE ConfInv'
    BY <1>2, ServerStep, ConfServed
  <1>3. ASSUME NEW c \in calls, Apply(c) PROVE ConfInv'
    <2>1. ASSUME \A h : h # "list" /\ h # "stats" => Untouched(h), UNCHANGED <<visit, style, configString, saved>>, dialog' \in {dialog, Shut}
          PROVE  ConfInv'
      BY <1>0, <2>1, ConfKept
    <2>2. CASE ApplyInterfaces(c)
      BY <2>1, <2>2, InterfacesStep
    <2>3. CASE ApplyPeers(c)
      BY <2>1, <2>3, PeersStep
    <2>4. CASE ApplyStats(c)
      BY <2>1, <2>4, StatsStep
    <2>5. CASE ApplyUpdate(c) \/ ApplyCreate(c) \/ ApplyDelete(c)
      BY <2>1, <2>5, EditStep
    <2>6. CASE ApplyDefaults(c)
      BY <2>1, <2>6, DefaultsStep
    <2>7. CASE ApplyNewInterface(c)
      BY <2>1, <2>7, NewInterfaceStep
    <2>8. CASE ApplyDeleteInterface(c)
      BY <2>1, <2>8, DeleteInterfaceStep
    <2>9. CASE ApplyConfig(c) \/ ApplyDownload(c)
      BY <2>9, ConfAnswered
    <2> QED
      BY <1>3, <2>2, <2>3, <2>4, <2>5, <2>6, <2>7, <2>8, <2>9 DEF Apply
  <1>4. CASE UNCHANGED vars
    <2>1. UNCHANGED <<calls, orderly, dialog, style, visit, configString, saved>>
      BY <1>4 DEF vars
    <2>2. \A g : Untouched(g)
      BY <2>1 DEF Untouched, InFlight
    <2> QED
      BY <2>1, <2>2, ConfKept
  <1> QED
    BY <1>1, <1>2, <1>3, <1>4 DEF Next

\* The dialog shows the configuration of its own peer in the chosen style, or
\* of its own interface, once the answers are there and came in order; and a
\* downloaded file holds what its name says in whatever order they came, if
\* the selection did not change.
THEOREM ConfigBelongsHolds == Spec => []ConfigBelongs
  <1>1. Init => ConfInv
    BY DEF Init, ConfInv, PeerConfPending, IfaceConfPending, SavedNamed, Shut
  <1>2. ConfInv => ConfigBelongs
    BY DEF ConfInv, PeerConfPending, IfaceConfPending, SavedNamed, ConfigBelongs
  <1> QED
    BY <1>1, <1>2, ConfNext, SoundHolds, PTL DEF Spec
-----------------------------------------------------------------------------
(* Statistics *)

IfacesAsked == \E c \in InFlight("list") : c.kind = "ifaces"

\* A step that leaves the statistics and what is selected alone.
LEMMA StatsKept ==
    ASSUME StatsPending, Untouched("stats"), "list" \in orderly' => "list" \in orderly,
           UNCHANGED <<interfaces, selected, statsOf>>, Mounting => Mounting', IfacesAsked => IfacesAsked'
    PROVE  StatsPending'
  <1> SUFFICES ASSUME {"list", "stats"} \subseteq orderly' PROVE StatsPending'
    BY DEF StatsPending
  <1>1. {"list", "stats"} \subseteq orderly /\ InFlight("stats")' = InFlight("stats") /\ GetSelected' = GetSelected
    BY DEF Untouched, GetSelected
  <1>2. interfaces' = <<>> => IfaceSet = {} \/ IfacesAsked'
    BY <1>1 DEF StatsPending, IfacesAsked
  <1>3. ASSUME ~Mounting', GetSelected # None
        PROVE  /\ InFlight("stats") = {} => statsOf = GetSelected
               /\ \A c \in InFlight("stats") : Newest(c, InFlight("stats")) => c.of = GetSelected
    BY <1>1, <1>3 DEF StatsPending
  <1> QED
    BY <1>1, <1>2, <1>3 DEF StatsPending, IfacesAsked

\* While the calls of the lists stay, so does the mounting.
LEMMA MountUntouched ==
    ASSUME Untouched("list")
    PROVE  (Mounting => Mounting') /\ (IfacesAsked => IfacesAsked')
  BY DEF Untouched, Mounting, IfacesAsked

LEMMA MountJoined ==
    ASSUME NEW k, Joined("list", k)
    PROVE  (Mounting => Mounting') /\ (IfacesAsked => IfacesAsked')
  BY DEF Joined, Mounting, IfacesAsked

LEMMA MountSwapped ==
    ASSUME NEW c, NEW d, Swapped("list", c, d)
    PROVE  (Mounting => Mounting') /\ (IfacesAsked => IfacesAsked')
  <1>1. /\ InFlight("list")' = (InFlight("list") \ {c}) \cup {d} /\ d.kind = c.kind /\ d.from = c.from
    BY DEF Swapped, Same
  <1> QED
    BY <1>1 DEF Mounting, IfacesAsked

LEMMA MountTaken ==
    ASSUME NEW c, c.kind # "ifaces", c.kind # "peers" \/ c.from # "mount", InFlight("list") \ {c} \subseteq InFlight("list")'
    PROVE  (Mounting => Mounting') /\ (IfacesAsked => IfacesAsked')
  BY DEF Mounting, IfacesAsked

LEMMA StatsAsking ==
    ASSUME Sound, StatsPending, NEW a, Asking(a)
    PROVE  StatsPending'
  <1>1. PICK k : Called(a, k) /\ Joined(Group(a.kind), k) /\ \A h : h # Group(a.kind) => Untouched(h)
    BY AskingStep
  <1>2. UNCHANGED <<interfaces, selected, statsOf>> /\ k.kind = a.kind /\ a.kind \in Kinds
    BY <1>1 DEF Asking, lists, Called, AskOK
  <1>3. Group(a.kind) # "stats"
    <2>1. a.kind # "stats"
      BY DEF Asking, Shown, Edits
    <2> QED
      BY <1>2, <2>1, GroupKinds
  <1>4. CASE a.kind = "ifaces"
    <2>1. k \in InFlight("list")' /\ k.kind = "ifaces"
      BY <1>1, <1>2, <1>4 DEF Joined, Group
    <2>2. Mounting' /\ IfacesAsked'
      BY <2>1 DEF Mounting, IfacesAsked
    <2> QED
      BY <2>2 DEF StatsPending, IfacesAsked
  <1>5. CASE Group(a.kind) = "list" /\ a.kind # "ifaces"
    <2>1. a.kind \notin Loads
      BY <1>5 DEF Asking, Shown, Edits, Loads, Group
    <2>2. "list" \in orderly' => "list" \in orderly
      BY <1>1, <1>2, <1>5, <2>1 DEF Joined
    <2> QED
      BY <1>1, <1>2, <1>3, <1>5, <2>2, MountJoined, StatsKept
  <1>6. CASE Group(a.kind) # "list"
    <2>1. Untouched("list") /\ Untouched("stats")
      BY <1>1, <1>3, <1>6
    <2>2. "list" \in orderly' => "list" \in orderly
      BY <2>1 DEF Untouched
    <2> QED
      BY <1>2, <2>1, <2>2, MountUntouched, StatsKept
  <1> QED
    BY <1>4, <1>5, <1>6

\* The statistics of what is selected are asked for last.
LEMMA StatsAsked ==
    ASSUME Sound, NEW k, Joined("stats", k), GetSelected' # None => k.of = GetSelected',
           interfaces' = <<>> /\ {"list", "stats"} \subseteq orderly' => IfaceSet = {} \/ IfacesAsked'
    PROVE  StatsPending'
  <1>1. InFlight("stats")' # {}
    BY DEF Joined
  <1>2. \A c \in InFlight("stats")' : Newest(c, InFlight("stats")') => c = k
    BY NewestJoined
  <1> QED
    BY <1>1, <1>2 DEF StatsPending, IfacesAsked

LEMMA StatsSelect ==
    ASSUME Sound, NEW i \in IfaceSet, Select(i)
    PROVE  StatsPending'
  <1>1. PICK k, l : l.of = i /\ Joined("stats", l)
    BY SelectStep
  <1>2. selected' = i /\ interfaces' = interfaces /\ i \in Rng(interfaces)
    BY DEF Select
  <1>3. GetSelected' = i /\ interfaces' # <<>>
    BY <1>2 DEF GetSelected, Rng
  <1> QED
    BY <1>1, <1>3, StatsAsked

LEMMA StatsServed ==
    ASSUME Sound, StatsPending, NEW c \in calls, NEW d, Served(c, d)
    PROVE  StatsPending'
  <1>1. Swapped(Group(c.kind), c, d) /\ (\A h : h # Group(c.kind) => Untouched(h)) /\ UNCHANGED <<interfaces, selected, statsOf>>
    BY DEF Served, lists
  <1>2. "list" \in orderly' => "list" \in orderly
    BY <1>1 DEF Swapped, Untouched
  <1>3. CASE Group(c.kind) = "list"
    BY <1>1, <1>2, <1>3, MountSwapped, StatsKept
  <1>4. CASE Group(c.kind) # "list" /\ Group(c.kind) # "stats"
    BY <1>1, <1>2, <1>4, MountUntouched, StatsKept
  <1>5. CASE Group(c.kind) = "stats"
    <2>1. Swapped("stats", c, d) /\ Untouched("list") /\ GetSelected' = GetSelected
      BY <1>1, <1>5 DEF GetSelected
    <2>2. /\ InFlight("stats")' # {} /\ ("stats" \in orderly' => "stats" \in orderly)
          /\ InFlight("list")' = InFlight("list")
      BY <2>1 DEF Swapped, Untouched
    <2>3. Mounting' = Mounting /\ IfacesAsked' = IfacesAsked
      BY <2>2 DEF Mounting, IfacesAsked
    <2> SUFFICES ASSUME {"list", "stats"} \subseteq orderly' PROVE StatsPending'
      BY DEF StatsPending
    <2>4. {"list", "stats"} \subseteq orderly
      BY <1>2, <2>2
    <2>5. ASSUME ~Mounting, GetSelected # None, NEW e \in InFlight("stats")', Newest(e, InFlight("stats")')
          PROVE  e.of = GetSelected
      <3>1. PICK f \in InFlight("stats") : Newest(f, InFlight("stats")) /\ f.of = e.of
        BY <2>1, <2>5, NewestSwapped
      <3> QED
        BY <2>4, <2>5, <3>1 DEF StatsPending
    <2>6. interfaces' = <<>> => IfaceSet = {} \/ IfacesAsked'
      BY <1>1, <2>3, <2>4 DEF StatsPending, IfacesAsked
    <2> QED
      BY <2>1, <2>2, <2>3, <2>5, <2>6 DEF StatsPending, IfacesAsked
  <1> QED
    BY <1>3, <1>4, <1>5

\* setInterfaces: the peers are loaded next, and then the statistics.
LEMMA StatsInterfaces ==
    ASSUME Sound, NEW c, ApplyInterfaces(c)
    PROVE  StatsPending'
  <1>1. Sound' /\ \/ selected' = None /\ Taken("list", c)
                  \/ \E k : Followed("list", c, k) /\ k.kind = "peers" /\ k.from = "mount"
    BY InterfacesStep
  <1>2. interfaces' = (IF c.ok THEN c.rows ELSE <<>>) /\ selected' = First(interfaces') /\ c.kind = "ifaces"
    BY InterfacesStep DEF ApplyInterfaces
  <1>3. interfaces' \in Seq(IfaceSet)
    BY <1>1 DEF Sound, TypeOK
  <1>4. interfaces' = <<>> <=> selected' = None
    BY <1>2, <1>3, FirstOf
  <1>5. CASE selected' = None
    <2>1. Fails(c)
      BY <1>2, <1>4, <1>5 DEF Fails
    <2>2. "list" \notin orderly'
      BY <1>1, <2>1 DEF Taken, Followed
    <2> QED
      BY <2>2 DEF StatsPending
  <1>6. CASE selected' # None
    <2>1. PICK k : Followed("list", c, k) /\ k.kind = "peers" /\ k.from = "mount"
      BY <1>1, <1>6
    <2>2. Mounting'
      BY <2>1 DEF Followed, Mounting
    <2> QED
      BY <1>4, <1>6, <2>2 DEF StatsPending
  <1> QED
    BY <1>5, <1>6

LEMMA StatsPeers ==
    ASSUME Sound, StatsPending, NEW c, ApplyPeers(c)
    PROVE  StatsPending'
  <1>1. /\ c.kind = "peers" /\ Taken("list", c) /\ UNCHANGED <<interfaces, selected, statsOf>>
        /\ \/ (c.from # "mount" \/ GetSelected = None) /\ Untouched("stats")
           \/ \E k : /\ Joined("stats", k) /\ ("stats" \in orderly' => "stats" \in orderly)
                     /\ k.of = GetSelected
    BY PeersStep
  <1>2. GetSelected' = GetSelected /\ ("list" \in orderly' => "list" \in orderly) /\ InFlight("list")' = InFlight("list") \ {c}
    BY <1>1 DEF GetSelected, Taken
  <1>3. IfacesAsked => IfacesAsked'
    BY <1>1, <1>2 DEF IfacesAsked
  <1>4. CASE c.from # "mount" /\ Untouched("stats")
    BY <1>1, <1>2, <1>4, MountTaken, StatsKept
  <1>5. ASSUME {"list", "stats"} \subseteq orderly' => {"list", "stats"} \subseteq orderly, interfaces' = <<>>, {"list", "stats"} \subseteq orderly'
        PROVE  IfaceSet = {} \/ IfacesAsked'
    BY <1>1, <1>3, <1>5 DEF StatsPending, IfacesAsked
  <1>6. CASE GetSelected = None /\ Untouched("stats")
    <2>1. {"list", "stats"} \subseteq orderly' => {"list", "stats"} \subseteq orderly
      BY <1>2, <1>6 DEF Untouched
    <2> QED
      BY <1>2, <1>5, <1>6, <2>1 DEF StatsPending, IfacesAsked
  <1>7. ASSUME NEW k, Joined("stats", k), "stats" \in orderly' => "stats" \in orderly, k.of = GetSelected PROVE StatsPending'
    <2>1. {"list", "stats"} \subseteq orderly' => {"list", "stats"} \subseteq orderly
      BY <1>2, <1>7
    <2> QED
      BY <1>2, <1>5, <1>7, <2>1, StatsAsked
  <1> QED
    BY <1>1, <1>4, <1>6, <1>7

LEMMA StatsTaken ==
    ASSUME Sound, StatsPending, NEW c, ApplyStats(c)
    PROVE  StatsPending'
  <1>1. /\ Taken("stats", c) /\ Untouched("list") /\ UNCHANGED <<interfaces, selected>> /\ statsOf' = IF c.ok THEN c.of ELSE None
    BY StatsStep
  <1>2. GetSelected' = GetSelected /\ InFlight("list")' = InFlight("list") /\ ("list" \in orderly' => "list" \in orderly)
    BY <1>1 DEF GetSelected, Untouched
  <1>3. Mounting' = Mounting /\ IfacesAsked' = IfacesAsked
    BY <1>2 DEF Mounting, IfacesAsked
  <1> SUFFICES ASSUME {"list", "stats"} \subseteq orderly' PROVE StatsPending'
    BY DEF StatsPending
  <1>4. {"list", "stats"} \subseteq orderly /\ c.ok
    BY <1>1, <1>2 DEF Taken, Fails
  <1>5. interfaces' = <<>> => IfaceSet = {} \/ IfacesAsked'
    BY <1>1, <1>3, <1>4 DEF StatsPending, IfacesAsked
  <1>6. ASSUME ~Mounting, GetSelected # None, InFlight("stats")' = {} PROVE statsOf' = GetSelected
    <2>1. c \in InFlight("stats") /\ Newest(c, InFlight("stats"))
      BY <1>1, <1>6, LastTaken
    <2> QED
      BY <1>1, <1>4, <1>6, <2>1 DEF StatsPending
  <1>7. ASSUME ~Mounting, GetSelected # None, NEW e \in InFlight("stats")', Newest(e, InFlight("stats")') PROVE e.of = GetSelected
    BY <1>1, <1>4, <1>7, NewestTaken DEF StatsPending
  <1> QED
    BY <1>2, <1>3, <1>5, <1>6, <1>7 DEF StatsPending, IfacesAsked

\* A new interface is selected only when there was none.
LEMMA StatsNewInterface ==
    ASSUME Sound, SelectedListed, StatsPending, NEW c, ApplyNewInterface(c)
    PROVE  StatsPending'
  <1>1. /\ c.kind = "newif" /\ Taken("list", c) /\ Untouched("stats") /\ UNCHANGED <<selected, statsOf>>
        /\ interfaces' = interfaces \o c.rows /\ c.rows \in Seq(IfaceSet)
    BY NewInterfaceStep
  <1>2. interfaces \in Seq(IfaceSet) /\ None \notin IfaceSet /\ TypeOK
    BY PeersAssumption DEF Sound, TypeOK
  <1>3. /\ InFlight("list")' = InFlight("list") \ {c} /\ ("list" \in orderly' => "list" \in orderly) /\ c \in calls
        /\ InFlight("stats")' = InFlight("stats") /\ ("stats" \in orderly' => "stats" \in orderly)
    BY <1>1, InGroup DEF Taken, Untouched
  <1>4. (Mounting => Mounting') /\ (IfacesAsked => IfacesAsked')
    BY <1>1, <1>3, MountTaken
  <1> SUFFICES ASSUME {"list", "stats"} \subseteq orderly' PROVE StatsPending'
    BY DEF StatsPending
  <1>5. {"list", "stats"} \subseteq orderly
    BY <1>3
  <1>6. CASE interfaces = <<>>
    <2>1. IfaceSet # {}
      BY <1>1, <1>3, AnsweredAbout DEF OfPeer
    <2>2. IfacesAsked
      BY <1>5, <1>6, <2>1 DEF StatsPending, IfacesAsked
    <2>3. Mounting' /\ IfacesAsked'
      BY <1>4, <2>2 DEF Mounting, IfacesAsked
    <2> QED
      BY <2>3 DEF StatsPending, IfacesAsked
  <1>7. CASE interfaces # <<>>
    <2>1. /\ \A n \in DOMAIN interfaces : n \in DOMAIN interfaces' /\ interfaces'[n] = interfaces[n]
          /\ 1 \in DOMAIN interfaces /\ interfaces' # <<>>
      BY <1>1, <1>2, <1>7
    <2>2. Rng(interfaces) \subseteq Rng(interfaces') /\ First(interfaces') = First(interfaces)
      BY <1>7, <2>1 DEF Rng, First
    <2>3. None \notin Rng(interfaces) /\ None \notin Rng(interfaces')
      <3>1. interfaces' \in Seq(IfaceSet)
        BY <1>1, <1>2
      <3> QED
        BY <1>2, <3>1 DEF Rng
    <2>4. GetSelected = IF selected = None THEN First(interfaces) ELSE selected
      BY <2>3 DEF GetSelected, SelectedListed
    <2>5. GetSelected' = IF selected = None THEN First(interfaces) ELSE selected
      <3>1. selected # None => selected \in Rng(interfaces')
        BY <2>2 DEF SelectedListed
      <3>2. GetSelected' = IF selected \in Rng(interfaces') THEN selected ELSE First(interfaces')
        BY <1>1 DEF GetSelected, Rng, First
      <3> QED
        BY <2>2, <2>3, <3>1, <3>2
    <2>6. ASSUME ~Mounting', GetSelected # None
          PROVE  /\ InFlight("stats") = {} => statsOf = GetSelected
                 /\ \A e \in InFlight("stats") : Newest(e, InFlight("stats")) => e.of = GetSelected
      BY <1>4, <1>5, <2>6 DEF StatsPending
    <2> QED
      BY <1>1, <1>3, <2>1, <2>4, <2>5, <2>6 DEF StatsPending
  <1> QED
    BY <1>6, <1>7

LEMMA StatsNext == Sound /\ SelectedListed /\ StatsPending /\ [Next]_vars => StatsPending'
  <1> SUFFICES ASSUME Sound, SelectedListed, StatsPending, [Next]_vars PROVE StatsPending'
    OBVIOUS
  <1>0. ASSUME Untouched("list"), Untouched("stats"), UNCHANGED <<interfaces, selected, statsOf>> PROVE StatsPending'
    <2>1. "list" \in orderly' => "list" \in orderly
      BY <1>0 DEF Untouched
    <2> QED
      BY <1>0, <2>1, MountUntouched, StatsKept
  <1>1. CASE Person
    <2>1. CASE Looking
      BY <1>0, <2>1, LookingStep DEF Looking, lists
    <2> QED
      BY <1>1, <2>1, PersonCases, StatsAsking, StatsSelect
  <1>2. ASSUME NEW c \in calls, Handle(c) \/ HandlePartly(c) \/ Lose(c) PROVE StatsPending'
    BY <1>2, ServerStep, StatsServed
  <1>3. ASSUME NEW c \in calls, Apply(c) PROVE StatsPending'
    <2>0. "stats" # "list"
      OBVIOUS
    <2>1. CASE ApplyInterfaces(c) \/ ApplyPeers(c) \/ ApplyStats(c) \/ ApplyNewInterface(c)
      BY <2>1, StatsInterfaces, StatsPeers, StatsTaken, StatsNewInterface
    <2>2. CASE ApplyUpdate(c) \/ ApplyCreate(c) \/ ApplyDelete(c)
      <3>1. c.kind \in Edits /\ Taken("list", c) /\ Untouched("stats") /\ UNCHANGED <<interfaces, selected, statsOf>>
        BY <2>0, <2>2, EditStep
      <3>2. c.kind # "ifaces" /\ c.kind # "peers" /\ InFlight("list")' = InFlight("list") \ {c} /\ ("list" \in orderly' => "list" \in orderly)
        BY <3>1 DEF Edits, Taken
      <3> QED
        BY <3>1, <3>2, MountTaken, StatsKept
    <2>3. CASE ApplyDefaults(c)
      <3>1. /\ c.kind = "defaults" /\ Untouched("stats") /\ UNCHANGED <<interfaces, selected, statsOf>>
            /\ \/ "list" \notin orderly' /\ Taken("list", c)
               \/ \E k : Followed("list", c, k) /\ k.kind = "peers" /\ k.from = "user"
        BY <2>0, <2>3, DefaultsStep
      <3>2. InFlight("list") \ {c} \subseteq InFlight("list")' /\ ("list" \in orderly' => "list" \in orderly)
        BY <3>1 DEF Taken, Followed
      <3> QED
        BY <3>1, <3>2, MountTaken, StatsKept
    <2>4. CASE ApplyDeleteInterface(c)
      BY <2>4, DeleteInterfaceStep DEF StatsPending
    <2>5. CASE ApplyConfig(c) \/ ApplyDownload(c)
      <3>1. /\ \A h : h # Group(c.kind) => Untouched(h)
            /\ UNCHANGED <<interfaces, selected, statsOf>> /\ c.kind \in {"peerconf", "ifconf", "download"}
        BY <2>5, ConfigStep
      <3>2. Group(c.kind) # "list" /\ Group(c.kind) # "stats"
        BY <3>1 DEF Group
      <3> QED
        BY <1>0, <3>1, <3>2
    <2> QED
      BY <1>3, <2>1, <2>2, <2>3, <2>4, <2>5 DEF Apply
  <1>4. CASE UNCHANGED vars
    <2>1. UNCHANGED <<calls, orderly, interfaces, selected, statsOf>>
      BY <1>4 DEF vars
    <2> QED
      BY <1>0, <2>1 DEF Untouched, InFlight
  <1> QED
    BY <1>1, <1>2, <1>3, <1>4 DEF Next

LEMMA InitStats == Init => StatsPending
  <1> SUFFICES ASSUME Init PROVE StatsPending
    OBVIOUS
  <1>1. interfaces = Ifaces /\ selected = First(Ifaces) /\ statsOf = selected /\ calls = {} /\ Ifaces \in Seq(IfaceSet)
    BY PeersAssumption DEF Init
  <1>2. interfaces = <<>> => IfaceSet = {}
    BY <1>1 DEF IfaceSet
  <1>3. GetSelected = selected
    BY <1>1 DEF GetSelected
  <1>4. InFlight("stats") = {}
    BY <1>1 DEF InFlight
  <1> QED
    BY <1>1, <1>2, <1>3, <1>4 DEF StatsPending

-----------------------------------------------------------------------------
(* The list of peers, over the calls F of the lists that are in flight *)

Fine(F) ==
    /\ \A c \in F : c.no \in Nat /\ c.st \in {"sent", "answered"} /\ c.ok \in BOOLEAN
    /\ \A c, d \in F : c.no = d.no => c = d

InOrderIn(F) == \A c, d \in F : c.st = "answered" /\ d.st = "sent" => c.no < d.no
DoomedIn(F) == \E c \in F : c.st = "answered" /\ ~c.ok
ReloadingIn(F) == \E c \in F : c.kind \in {"ifaces", "defaults"} \/ (c.kind \in {"peers", "delif"} /\ c.st = "sent")
RepliesIn(F) == {c \in F : c.kind \in {"peers", "delif"} /\ c.st = "answered"}
WroteIn(F) == {c \in F : c.kind \in Edits /\ c.st = "answered" /\ \A b \in RepliesIn(F) : b.no < c.no}

\* From version v the calls P lead, one by one, to w.
ChainIn(P, v, w) ==
    /\ P = {} => v = w
    /\ \A c \in P :
          /\ Newest(c, P) => Saved(c) = w
          /\ Oldest(c, P) => (c.kind \in Pushes <=> v = 0)
          /\ \A d \in P : c.no < d.no /\ (\A e \in P : e.no <= c.no \/ d.no <= e.no) => (d.kind \in Pushes <=> Saved(c) = 0)

WritersOf(p, W) == {c \in W : p \in Touched(c)}

\* The calls W lead from the rows s of the interface i to what f has.
LeadsIn(s, i, W, f) ==
    i # None /\ (\A c \in W : c.kind \in Pushes => c.of = i) =>
        /\ \A m, n \in DOMAIN s : s[m].id = s[n].id => m = n
        /\ \A n \in DOMAIN s : Home[s[n].id] = i /\ s[n].ver # 0 /\ ChainIn(WritersOf(s[n].id, W), s[n].ver, f[s[n].id])
        /\ \A p \in Peers : Home[p] = i /\ (\A n \in DOMAIN s : s[n].id # p) => ChainIn(WritersOf(p, W), 0, f[p])

OfReply(b) == IF b.kind = "peers" THEN b.of ELSE None

Good(F, s, i, f) ==
    ~DoomedIn(F) =>
        /\ InOrderIn(F)
        /\ ~ReloadingIn(F) =>
              /\ RepliesIn(F) = {} => LeadsIn(s, i, WroteIn(F), f)
              /\ \A b \in RepliesIn(F) : Newest(b, RepliesIn(F)) => LeadsIn(b.rows, OfReply(b), WroteIn(F), f)

LEMMA GoodOf == ListPending <=> ("list" \in orderly => Good(InFlight("list"), peers, asked, srv))
  <1> DEFINE F == InFlight("list")
  <1>1. (Doomed <=> DoomedIn(F)) /\ (InOrder <=> InOrderIn(F)) /\ (Reloading <=> ReloadingIn(F)) /\ Replies = RepliesIn(F)
    BY DEF Doomed, InOrder, Reloading, Replies, DoomedIn, InOrderIn, ReloadingIn, RepliesIn
  <1>2. Wrote = WroteIn(F)
    BY <1>1 DEF Wrote, WroteIn
  <1>3. \A p : Pending(p) = WritersOf(p, WroteIn(F))
    BY <1>2 DEF Pending, WritersOf
  <1> HIDE DEF F
  <1>4. \A p, v : Chain(p, v) <=> ChainIn(WritersOf(p, WroteIn(F)), v, srv[p])
    BY <1>3 DEF Chain, ChainIn
  <1>5. \A s, i : Leads(s, i) <=> LeadsIn(s, i, WroteIn(F), srv)
    BY <1>2, <1>4 DEF Leads, LeadsIn
  <1> QED
    BY <1>1, <1>5 DEF ListPending, Good, OfReply, F

LEMMA GoodNext == ListPending' <=> ("list" \in orderly' => Good(InFlight("list")', peers', asked', srv'))
  <1> DEFINE F == InFlight("list")'
  <1>1. (Doomed' <=> DoomedIn(F)) /\ (InOrder' <=> InOrderIn(F)) /\ (Reloading' <=> ReloadingIn(F)) /\ Replies' = RepliesIn(F)
    BY DEF Doomed, InOrder, Reloading, Replies, DoomedIn, InOrderIn, ReloadingIn, RepliesIn
  <1>2. Wrote' = WroteIn(F)
    BY <1>1 DEF Wrote, WroteIn
  <1>3. \A p : Pending(p)' = WritersOf(p, WroteIn(F))
    BY <1>2 DEF Pending, WritersOf
  <1> HIDE DEF F
  <1>4. \A p, v : Chain(p, v)' <=> ChainIn(WritersOf(p, WroteIn(F)), v, srv'[p])
    BY <1>3 DEF Chain, ChainIn
  <1>5. \A s, i : Leads(s, i)' <=> LeadsIn(s, i, WroteIn(F), srv')
    BY <1>2, <1>4 DEF Leads, LeadsIn
  <1>6. Leads(peers, asked)' <=> LeadsIn(peers', asked', WroteIn(F), srv')
    BY <1>2, <1>4 DEF Leads, LeadsIn
  <1> QED
    BY <1>1, <1>5, <1>6 DEF ListPending, Good, OfReply, F

-----------------------------------------------------------------------------
(* Chains *)

\* A newer call that writes on w.
LEMMA ChainWrote ==
    ASSUME NEW P, NEW v, NEW w, ChainIn(P, v, w), NEW d, \A c \in P : c.no \in Nat /\ c.no < d.no, d.no \in Nat,
           d.kind \in Pushes <=> w = 0
    PROVE  ChainIn(P \cup {d}, v, Saved(d))
  <1> DEFINE Q == P \cup {d}
  <1> SUFFICES ASSUME NEW c \in Q
               PROVE  /\ Newest(c, Q) => Saved(c) = Saved(d)
                      /\ Oldest(c, Q) => (c.kind \in Pushes <=> v = 0)
                      /\ \A a \in Q : c.no < a.no /\ (\A e \in Q : e.no <= c.no \/ a.no <= e.no) => (a.kind \in Pushes <=> Saved(c) = 0)
    BY DEF ChainIn
  <1>1. Newest(c, Q) => c = d
    BY DEF Newest
  <1>2. ASSUME Oldest(c, Q) PROVE c.kind \in Pushes <=> v = 0
    <2>1. CASE c \in P
      BY <1>2, <2>1 DEF ChainIn, Oldest
    <2>2. CASE c = d
      <3>1. P = {}
        BY <1>2, <2>2 DEF Oldest
      <3> QED
        BY <2>2, <3>1 DEF ChainIn
    <2> QED
      BY <2>1, <2>2
  <1>3. ASSUME NEW a \in Q, c.no < a.no, \A e \in Q : e.no <= c.no \/ a.no <= e.no PROVE a.kind \in Pushes <=> Saved(c) = 0
    <2>1. c \in P
      BY <1>3
    <2>2. CASE a \in P
      BY <1>3, <2>1, <2>2 DEF ChainIn
    <2>3. CASE a = d
      <3>1. Newest(c, P)
        BY <1>3, <2>3 DEF Newest
      <3> QED
        BY <2>1, <2>3, <3>1 DEF ChainIn
    <2> QED
      BY <2>2, <2>3
  <1> QED
    BY <1>1, <1>2, <1>3

\* The oldest call is applied.
LEMMA ChainApplied ==
    ASSUME NEW P, NEW v, NEW w, ChainIn(P, v, w), NEW c \in P, Oldest(c, P), \A e \in P : e.no \in Nat,
           \A e \in P : e.no = c.no => e = c
    PROVE  (c.kind \in Pushes <=> v = 0) /\ ChainIn(P \ {c}, Saved(c), w)
  <1> DEFINE Q == P \ {c}
  <1>0. \A e \in Q : c.no < e.no
    BY DEF Oldest
  <1>1. c.kind \in Pushes <=> v = 0
    BY DEF ChainIn
  <1>2. Q = {} => Saved(c) = w
    <2>1. Q = {} => Newest(c, P)
      BY DEF Newest
    <2> QED
      BY <2>1 DEF ChainIn
  <1>3. ASSUME NEW d \in Q
        PROVE  /\ Newest(d, Q) => Saved(d) = w
               /\ Oldest(d, Q) => (d.kind \in Pushes <=> Saved(c) = 0)
               /\ \A a \in Q : d.no < a.no /\ (\A e \in Q : e.no <= d.no \/ a.no <= e.no) => (a.kind \in Pushes <=> Saved(d) = 0)
    <2>1. Newest(d, Q) => Newest(d, P)
      BY <1>0 DEF Newest
    <2>2. Oldest(d, Q) => \A e \in P : e.no <= c.no \/ d.no <= e.no
      BY <1>0 DEF Oldest
    <2>3. ASSUME NEW a \in Q, d.no < a.no, \A e \in Q : e.no <= d.no \/ a.no <= e.no PROVE \A e \in P : e.no <= d.no \/ a.no <= e.no
      BY <1>0, <2>3
    <2> QED
      BY <1>0, <2>1, <2>2, <2>3 DEF ChainIn
  <1> QED
    BY <1>1, <1>2, <1>3 DEF ChainIn

-----------------------------------------------------------------------------
(* Rows *)

LEMMA RowOf ==
    ASSUME NEW s \in Seq(Rows), NEW n \in DOMAIN s
    PROVE  s[n].id \in Peers /\ s[n].ver \in Nat
  <1>1. s[n] \in Rows
    OBVIOUS
  <1> QED
    BY <1>1 DEF Rows

\* The answer of the server to a load.
LEMMA LeadsLoaded ==
    ASSUME srv \in [Peers -> Nat], NEW i
    PROVE  LeadsIn(Order(RowsOf(i)), i, {}, srv)
  <1> DEFINE s == Order(RowsOf(i))
  <1>1. /\ \A m, n \in DOMAIN s : s[m].id = s[n].id => m = n
        /\ \A n \in DOMAIN s : Home[s[n].id] = i /\ s[n].ver = srv[s[n].id] /\ s[n].ver # 0
        /\ \A p \in Peers : Home[p] = i /\ srv[p] # 0 => \E n \in DOMAIN s : s[n].id = p
    BY OrderRows
  <1> HIDE DEF s
  <1>2. \A p, v : ChainIn(WritersOf(p, {}), v, v)
    BY DEF ChainIn, WritersOf
  <1>3. LeadsIn(s, i, {}, srv)
    <2>1. \A n \in DOMAIN s : ChainIn(WritersOf(s[n].id, {}), s[n].ver, srv[s[n].id])
      BY <1>1, <1>2
    <2>2. \A p \in Peers : Home[p] = i /\ (\A n \in DOMAIN s : s[n].id # p) => ChainIn(WritersOf(p, {}), 0, srv[p])
      BY <1>1, <1>2
    <2> QED
      BY <1>1, <2>1, <2>2 DEF LeadsIn
  <1> QED
    BY <1>3 DEF s

\* A newer call d is handled, that takes f to g.
LEMMA LeadsWrote ==
    ASSUME NEW s \in Seq(Rows), NEW i, NEW W, NEW f, NEW g, NEW d, LeadsIn(s, i, W, f),
           \A c \in W : c.no \in Nat /\ c.no < d.no, d.no \in Nat,
           \A p \in Peers : g[p] = IF p \in Touched(d) THEN Saved(d) ELSE f[p],
           \A p \in Touched(d) : d.kind \in Pushes <=> f[p] = 0
    PROVE  LeadsIn(s, i, W \cup {d}, g)
  <1> DEFINE V == W \cup {d}
  <1> SUFFICES ASSUME i # None, \A c \in V : c.kind \in Pushes => c.of = i
               PROVE  /\ \A m, n \in DOMAIN s : s[m].id = s[n].id => m = n
                      /\ \A n \in DOMAIN s : Home[s[n].id] = i /\ s[n].ver # 0 /\ ChainIn(WritersOf(s[n].id, V), s[n].ver, g[s[n].id])
                      /\ \A p \in Peers : Home[p] = i /\ (\A n \in DOMAIN s : s[n].id # p) => ChainIn(WritersOf(p, V), 0, g[p])
    BY DEF LeadsIn
  <1>1. /\ \A m, n \in DOMAIN s : s[m].id = s[n].id => m = n
        /\ \A n \in DOMAIN s : Home[s[n].id] = i /\ s[n].ver # 0 /\ ChainIn(WritersOf(s[n].id, W), s[n].ver, f[s[n].id])
        /\ \A p \in Peers : Home[p] = i /\ (\A n \in DOMAIN s : s[n].id # p) => ChainIn(WritersOf(p, W), 0, f[p])
    BY DEF LeadsIn
  <1>2. ASSUME NEW p \in Peers, NEW v, ChainIn(WritersOf(p, W), v, f[p]) PROVE ChainIn(WritersOf(p, V), v, g[p])
    <2>1. CASE p \in Touched(d)
      <3>1. WritersOf(p, V) = WritersOf(p, W) \cup {d} /\ g[p] = Saved(d)
        BY <2>1 DEF WritersOf
      <3>2. \A c \in WritersOf(p, W) : c.no \in Nat /\ c.no < d.no
        BY DEF WritersOf
      <3>3. d.kind \in Pushes <=> f[p] = 0
        BY <2>1
      <3> DEFINE P == WritersOf(p, W)
      <3> HIDE DEF P
      <3>4. ChainIn(P \cup {d}, v, Saved(d))
        BY <1>2, <3>2, <3>3, ChainWrote DEF P
      <3> QED
        BY <3>1, <3>4 DEF P
    <2>2. CASE p \notin Touched(d)
      <3>1. WritersOf(p, V) = WritersOf(p, W) /\ g[p] = f[p]
        BY <2>2 DEF WritersOf
      <3> QED
        BY <1>2, <3>1
    <2> QED
      BY <2>1, <2>2
  <1>3. \A n \in DOMAIN s : s[n].id \in Peers
    BY RowOf
  <1> QED
    BY <1>1, <1>2, <1>3

\* What the rows s are to the calls V that follow the call c.
Follows(s, i, V, f, c) ==
    /\ \A m, n \in DOMAIN s : s[m].id = s[n].id => m = n
    /\ \A n \in DOMAIN s : Home[s[n].id] = i /\ s[n].ver # 0
    /\ \A n \in DOMAIN s : s[n].id \notin Touched(c) => ChainIn(WritersOf(s[n].id, V), s[n].ver, f[s[n].id])
    /\ \A n \in DOMAIN s : s[n].id \in Touched(c) =>
          c.kind \notin Pushes /\ ChainIn(WritersOf(s[n].id, V), Saved(c), f[s[n].id])
    /\ \A p \in Peers : Home[p] = i /\ (\A n \in DOMAIN s : s[n].id # p) =>
          /\ p \notin Touched(c) => ChainIn(WritersOf(p, V), 0, f[p])
          /\ p \in Touched(c) => c.kind \in Pushes /\ ChainIn(WritersOf(p, V), Saved(c), f[p])

LEMMA LeadsOldest ==
    ASSUME NEW s \in Seq(Rows), NEW i, NEW W, NEW f, NEW c \in W, LeadsIn(s, i, W, f), i # None,
           \A e \in W : e.kind \in Pushes => e.of = i, Oldest(c, W),
           \A e \in W : e.no \in Nat, \A e \in W : e.no = c.no => e = c
    PROVE  Follows(s, i, W \ {c}, f, c)
  <1>1. /\ \A m, n \in DOMAIN s : s[m].id = s[n].id => m = n
        /\ \A n \in DOMAIN s : Home[s[n].id] = i /\ s[n].ver # 0 /\ ChainIn(WritersOf(s[n].id, W), s[n].ver, f[s[n].id])
        /\ \A p \in Peers : Home[p] = i /\ (\A n \in DOMAIN s : s[n].id # p) => ChainIn(WritersOf(p, W), 0, f[p])
    BY DEF LeadsIn
  <1>2. ASSUME NEW p, NEW v, NEW w, ChainIn(WritersOf(p, W), v, w)
        PROVE  /\ p \notin Touched(c) => ChainIn(WritersOf(p, W \ {c}), v, w)
               /\ p \in Touched(c) => (c.kind \in Pushes <=> v = 0) /\ ChainIn(WritersOf(p, W \ {c}), Saved(c), w)
    <2>1. ASSUME p \notin Touched(c) PROVE ChainIn(WritersOf(p, W \ {c}), v, w)
      <3>1. WritersOf(p, W \ {c}) = WritersOf(p, W)
        BY <2>1 DEF WritersOf
      <3> QED
        BY <1>2, <3>1
    <2>2. ASSUME p \in Touched(c) PROVE (c.kind \in Pushes <=> v = 0) /\ ChainIn(WritersOf(p, W \ {c}), Saved(c), w)
      <3> DEFINE P == WritersOf(p, W)
      <3>1. c \in P /\ WritersOf(p, W \ {c}) = P \ {c}
        BY <2>2 DEF WritersOf
      <3>2. Oldest(c, P) /\ (\A e \in P : e.no \in Nat) /\ (\A e \in P : e.no = c.no => e = c)
        BY DEF WritersOf, Oldest
      <3> HIDE DEF P
      <3>3. ChainIn(P, v, w)
        BY <1>2 DEF P
      <3>4. (c.kind \in Pushes <=> v = 0) /\ ChainIn(P \ {c}, Saved(c), w)
        BY <3>1, <3>2, <3>3, ChainApplied
      <3> QED
        BY <3>1, <3>4
    <2> QED
      BY <2>1, <2>2
  <1> QED
    BY <1>1, <1>2 DEF Follows

\* CreatePeer and CreateMultiplePeers push the new rows.
LEMMA LeadsPushed ==
    ASSUME NEW s \in Seq(Rows), NEW i, NEW W, NEW f, NEW c \in W, LeadsIn(s, i, W, f), c.of = i,
           Oldest(c, W), \A e \in W : e.no \in Nat, \A e \in W : e.no = c.no => e = c,
           c.kind \in Pushes, c.no # 0, c.ids \in SUBSET Peers, \A p \in c.ids : Home[p] = c.of,
           NEW r, r = Order(Stamped(c.ids, c.no))
    PROVE  LeadsIn(s \o r, i, W \ {c}, f)
  <1> DEFINE V == W \ {c}
             t == s \o r
  <1> SUFFICES ASSUME i # None, \A e \in V : e.kind \in Pushes => e.of = i
               PROVE  /\ \A m, n \in DOMAIN t : t[m].id = t[n].id => m = n
                      /\ \A n \in DOMAIN t : Home[t[n].id] = i /\ t[n].ver # 0 /\ ChainIn(WritersOf(t[n].id, V), t[n].ver, f[t[n].id])
                      /\ \A p \in Peers : Home[p] = i /\ (\A n \in DOMAIN t : t[n].id # p) => ChainIn(WritersOf(p, V), 0, f[p])
    BY DEF LeadsIn
  <1>0. Touched(c) = c.ids /\ Saved(c) = c.no
    BY DEF Touched, Saved, Pushes
  <1>a. \A e \in W : e.kind \in Pushes => e.of = i
    OBVIOUS
  <1>1. /\ \A m, n \in DOMAIN s : s[m].id = s[n].id => m = n
        /\ \A n \in DOMAIN s : Home[s[n].id] = i /\ s[n].ver # 0
        /\ \A n \in DOMAIN s : s[n].id \notin c.ids => ChainIn(WritersOf(s[n].id, V), s[n].ver, f[s[n].id])
        /\ \A n \in DOMAIN s : s[n].id \notin c.ids
        /\ \A p \in Peers : Home[p] = i /\ (\A n \in DOMAIN s : s[n].id # p) =>
              /\ p \notin c.ids => ChainIn(WritersOf(p, V), 0, f[p])
              /\ p \in c.ids => ChainIn(WritersOf(p, V), c.no, f[p])
    <2>1. Follows(s, i, V, f, c)
      BY <1>a, LeadsOldest
    <2> HIDE DEF V
    <2> QED
      BY <1>0, <2>1 DEF Follows
  <1>2. /\ r \in Seq(Rows)
        /\ \A n \in DOMAIN r : r[n].id \in c.ids /\ r[n].ver = c.no
        /\ \A m, n \in DOMAIN r : r[m].id = r[n].id => m = n
        /\ \A p \in c.ids : \E n \in DOMAIN r : r[n].id = p
    <2>1. c.no \in Nat
      OBVIOUS
    <2> QED
      BY <2>1, OrderNew
  <1>3. \A n \in DOMAIN t : (n \in DOMAIN s /\ t[n] = s[n]) \/ (n \notin DOMAIN s /\ n - Len(s) \in DOMAIN r /\ t[n] = r[n - Len(s)])
    BY <1>2
  <1>4. /\ \A n \in DOMAIN s : n \in DOMAIN t /\ t[n] = s[n]
        /\ \A n \in DOMAIN r : n + Len(s) \in DOMAIN t /\ t[n + Len(s)] = r[n]
    BY <1>2
  <1>b. Len(s) \in Nat /\ \A n \in DOMAIN t : n \in Nat
    BY <1>2
  <1> HIDE DEF t, V
  <1>5. ASSUME NEW m \in DOMAIN t, NEW n \in DOMAIN t, t[m].id = t[n].id PROVE m = n
    <2>1. CASE m \in DOMAIN s /\ n \in DOMAIN s
      BY <1>1, <1>4, <1>5, <2>1
    <2>2. CASE m \notin DOMAIN s /\ n \notin DOMAIN s
      <3>1. m - Len(s) = n - Len(s)
        BY <1>2, <1>3, <1>5, <2>2
      <3> QED
        BY <1>b, <3>1
    <2>3. CASE m \in DOMAIN s /\ n \notin DOMAIN s
      BY <1>1, <1>2, <1>3, <1>5, <2>3
    <2>4. CASE m \notin DOMAIN s /\ n \in DOMAIN s
      BY <1>1, <1>2, <1>3, <1>5, <2>4
    <2> QED
      BY <2>1, <2>2, <2>3, <2>4
  <1>6. ASSUME NEW n \in DOMAIN t
        PROVE  Home[t[n].id] = i /\ t[n].ver # 0 /\ ChainIn(WritersOf(t[n].id, V), t[n].ver, f[t[n].id])
    <2>1. CASE n \in DOMAIN s
      BY <1>1, <1>4, <2>1
    <2>2. CASE n \notin DOMAIN s
      <3>1. t[n].id \in c.ids /\ t[n].ver = c.no
        BY <1>2, <1>3, <2>2
      <3>2. t[n].id \in Peers /\ Home[t[n].id] = i /\ \A m \in DOMAIN s : s[m].id # t[n].id
        BY <1>1, <3>1
      <3> QED
        BY <1>1, <3>1, <3>2
    <2> QED
      BY <2>1, <2>2
  <1>7. ASSUME NEW p \in Peers, Home[p] = i, \A n \in DOMAIN t : t[n].id # p PROVE ChainIn(WritersOf(p, V), 0, f[p])
    <2>1. \A n \in DOMAIN s : s[n].id # p
      BY <1>4, <1>7
    <2>2. ASSUME p \in c.ids PROVE FALSE
      <3>1. PICK n \in DOMAIN r : r[n].id = p
        BY <1>2, <2>2
      <3> QED
        BY <1>4, <1>7, <3>1
    <2> QED
      BY <1>1, <1>7, <2>1, <2>2
  <1> QED
    BY <1>5, <1>6, <1>7

\* UpdatePeer puts the new row in the place of the old one.
LEMMA LeadsUpdated ==
    ASSUME NEW s \in Seq(Rows), NEW i, NEW W, NEW f, NEW c \in W, LeadsIn(s, i, W, f),
           Oldest(c, W), \A e \in W : e.no \in Nat, \A e \in W : e.no = c.no => e = c,
           c.kind = "update", c.no # 0, NEW r, r.id = c.of, r.ver = c.no,
           NEW t, t = [n \in DOMAIN s |-> IF s[n].id = c.of /\ \A m \in 1 .. n - 1 : s[m].id # c.of THEN r ELSE s[n]]
    PROVE  LeadsIn(t, i, W \ {c}, f)
  <1> DEFINE V == W \ {c}
  <1>0. Touched(c) = {c.of} /\ Saved(c) = c.no /\ c.kind \notin Pushes
    BY DEF Touched, Saved, Pushes
  <1> SUFFICES ASSUME i # None, \A e \in V : e.kind \in Pushes => e.of = i
               PROVE  /\ \A m, n \in DOMAIN t : t[m].id = t[n].id => m = n
                      /\ \A n \in DOMAIN t : Home[t[n].id] = i /\ t[n].ver # 0 /\ ChainIn(WritersOf(t[n].id, V), t[n].ver, f[t[n].id])
                      /\ \A p \in Peers : Home[p] = i /\ (\A n \in DOMAIN t : t[n].id # p) => ChainIn(WritersOf(p, V), 0, f[p])
    BY DEF LeadsIn
  <1>a. \A e \in W : e.kind \in Pushes => e.of = i
    BY <1>0
  <1>1. /\ \A m, n \in DOMAIN s : s[m].id = s[n].id => m = n
        /\ \A n \in DOMAIN s : Home[s[n].id] = i /\ s[n].ver # 0
        /\ \A n \in DOMAIN s : s[n].id # c.of => ChainIn(WritersOf(s[n].id, V), s[n].ver, f[s[n].id])
        /\ \A n \in DOMAIN s : s[n].id = c.of => ChainIn(WritersOf(s[n].id, V), c.no, f[s[n].id])
        /\ \A p \in Peers : Home[p] = i /\ (\A n \in DOMAIN s : s[n].id # p) => ChainIn(WritersOf(p, V), 0, f[p])
    <2>1. Follows(s, i, V, f, c)
      BY <1>a, LeadsOldest
    <2> HIDE DEF V
    <2> QED
      BY <1>0, <2>1 DEF Follows
  <1>2. DOMAIN t = DOMAIN s /\ \A n \in DOMAIN s : t[n] = IF s[n].id = c.of THEN r ELSE s[n]
    <2>1. \A n \in DOMAIN s : s[n].id = c.of => \A m \in 1 .. n - 1 : s[m].id # c.of
      <3> SUFFICES ASSUME NEW n \in DOMAIN s, s[n].id = c.of, NEW m \in 1 .. n - 1, s[m].id = c.of PROVE FALSE
        OBVIOUS
      <3>1. m \in DOMAIN s /\ m # n
        OBVIOUS
      <3> QED
        BY <1>1, <3>1
    <2> QED
      BY <2>1
  <1>3. \A n \in DOMAIN s : t[n].id = s[n].id /\ (s[n].id = c.of => t[n].ver = c.no) /\ (s[n].id # c.of => t[n] = s[n])
    BY <1>2
  <1> HIDE DEF V
  <1> QED
    BY <1>1, <1>2, <1>3

\* DeletePeer takes the row out.
LEMMA LeadsDeleted ==
    ASSUME NEW s \in Seq(Rows), NEW i, NEW W, NEW f, NEW c \in W, LeadsIn(s, i, W, f),
           Oldest(c, W), \A e \in W : e.no \in Nat, \A e \in W : e.no = c.no => e = c, c.kind = "delete",
           NEW K, K = {n \in DOMAIN s : s[n].id # c.of}
    PROVE  LeadsIn(RowsAt(s, K), i, W \ {c}, f)
  <1> DEFINE V == W \ {c}
             t == RowsAt(s, K)
  <1>0. Touched(c) = {c.of} /\ Saved(c) = 0 /\ c.kind \notin Pushes
    BY DEF Touched, Saved, Pushes
  <1> SUFFICES ASSUME i # None, \A e \in V : e.kind \in Pushes => e.of = i
               PROVE  /\ \A m, n \in DOMAIN t : t[m].id = t[n].id => m = n
                      /\ \A n \in DOMAIN t : Home[t[n].id] = i /\ t[n].ver # 0 /\ ChainIn(WritersOf(t[n].id, V), t[n].ver, f[t[n].id])
                      /\ \A p \in Peers : Home[p] = i /\ (\A n \in DOMAIN t : t[n].id # p) => ChainIn(WritersOf(p, V), 0, f[p])
    BY DEF LeadsIn
  <1>a. \A e \in W : e.kind \in Pushes => e.of = i
    BY <1>0
  <1>1. /\ \A m, n \in DOMAIN s : s[m].id = s[n].id => m = n
        /\ \A n \in DOMAIN s : Home[s[n].id] = i /\ s[n].ver # 0
        /\ \A n \in DOMAIN s : s[n].id # c.of => ChainIn(WritersOf(s[n].id, V), s[n].ver, f[s[n].id])
        /\ \A n \in DOMAIN s : s[n].id = c.of => ChainIn(WritersOf(s[n].id, V), 0, f[s[n].id])
        /\ \A p \in Peers : Home[p] = i /\ (\A n \in DOMAIN s : s[n].id # p) => ChainIn(WritersOf(p, V), 0, f[p])
    <2>1. Follows(s, i, V, f, c)
      BY <1>a, LeadsOldest
    <2> HIDE DEF V
    <2> QED
      BY <1>0, <2>1 DEF Follows
  <1>2. /\ \A k \in DOMAIN t : Nth(K, k) \in K /\ t[k] = s[Nth(K, k)]
        /\ \A j, k \in DOMAIN t : Nth(K, j) = Nth(K, k) => j = k
        /\ \A n \in K : \E k \in DOMAIN t : t[k] = s[n]
    <2>1. K \in SUBSET DOMAIN s /\ s \in Seq(Rows)
      OBVIOUS
    <2>2. /\ \A k \in DOMAIN RowsAt(s, K) : Nth(K, k) \in K /\ RowsAt(s, K)[k] = s[Nth(K, k)]
          /\ \A j, k \in DOMAIN RowsAt(s, K) : Nth(K, j) = Nth(K, k) => j = k
          /\ \A n \in K : \E k \in DOMAIN RowsAt(s, K) : Nth(K, k) = n /\ RowsAt(s, K)[k] = s[n]
      BY ONLY <2>1, RowsAtOf
    <2> QED
      BY <2>2
  <1> HIDE DEF t, V
  <1>3. ASSUME NEW m \in DOMAIN t, NEW n \in DOMAIN t, t[m].id = t[n].id PROVE m = n
    <2>1. Nth(K, m) \in DOMAIN s /\ Nth(K, n) \in DOMAIN s /\ s[Nth(K, m)].id = s[Nth(K, n)].id
      BY <1>2, <1>3
    <2> QED
      BY <1>1, <1>2, <2>1
  <1>4. ASSUME NEW n \in DOMAIN t
        PROVE  Home[t[n].id] = i /\ t[n].ver # 0 /\ ChainIn(WritersOf(t[n].id, V), t[n].ver, f[t[n].id])
    <2>1. PICK m \in DOMAIN s : s[m].id # c.of /\ t[n] = s[m]
      BY <1>2
    <2> QED
      BY <1>1, <2>1
  <1>5. ASSUME NEW p \in Peers, Home[p] = i, \A n \in DOMAIN t : t[n].id # p PROVE ChainIn(WritersOf(p, V), 0, f[p])
    <2>1. \A n \in DOMAIN s : s[n].id = p => p = c.of
      BY <1>2, <1>5
    <2>2. CASE \A n \in DOMAIN s : s[n].id # p
      BY <1>1, <1>5, <2>2
    <2>3. CASE \E n \in DOMAIN s : s[n].id = p
      BY <1>1, <2>1, <2>3
    <2> QED
      BY <2>2, <2>3
  <1> QED
    BY <1>3, <1>4, <1>5

-----------------------------------------------------------------------------
(* Steps of the calls of the lists *)

\* A call is sent.
LEMMA GoodJoined ==
    ASSUME NEW F, Fine(F), NEW s, NEW i, NEW f, NEW k, k.st = "sent", \A c \in F : c.no < k.no,
           Good(F, s, i, f) \/ (F = {} /\ k.kind \in {"ifaces", "peers"}),
           k.kind \in {"ifaces", "peers", "defaults", "newif", "delif"} \cup Edits
    PROVE  Good(F \cup {k}, s, i, f)
  <1> DEFINE G == F \cup {k}
  <1> SUFFICES ASSUME ~DoomedIn(G)
               PROVE  /\ InOrderIn(G)
                      /\ ~ReloadingIn(G) =>
                            /\ RepliesIn(G) = {} => LeadsIn(s, i, WroteIn(G), f)
                            /\ \A b \in RepliesIn(G) : Newest(b, RepliesIn(G)) => LeadsIn(b.rows, OfReply(b), WroteIn(G), f)
    BY DEF Good
  <1>1. ~DoomedIn(F)
    BY DEF DoomedIn
  <1>2. InOrderIn(F)
    BY <1>1 DEF Good, InOrderIn
  <1>3. InOrderIn(G)
    BY <1>2 DEF InOrderIn
  <1>4. CASE k.kind \in {"ifaces", "defaults", "peers", "delif"}
    <2>1. ReloadingIn(G)
      BY <1>4 DEF ReloadingIn
    <2> QED
      BY <1>3, <2>1
  <1>5. CASE k.kind \notin {"ifaces", "defaults", "peers", "delif"}
    <2>1. RepliesIn(G) = RepliesIn(F) /\ (ReloadingIn(G) <=> ReloadingIn(F))
      BY <1>5 DEF RepliesIn, ReloadingIn
    <2>2. WroteIn(G) = WroteIn(F)
      BY <2>1 DEF WroteIn
    <2>3. Good(F, s, i, f)
      BY <1>5
    <2> HIDE DEF G
    <2> QED
      BY <1>1, <1>3, <2>1, <2>2, <2>3 DEF Good
  <1> QED
    BY <1>4, <1>5

\* A call failed.
LEMMA GoodFailed ==
    ASSUME NEW G, NEW d \in G, d.st = "answered", d.ok = FALSE, NEW s, NEW i, NEW f
    PROVE  Good(G, s, i, f)
  BY DEF Good, DoomedIn

\* The oldest call the server has is answered: the order of the calls.
LEMMA ServedOrder ==
    ASSUME NEW F, Fine(F), InOrderIn(F), NEW c \in F, c.st = "sent", \A e \in F : e.st = "sent" => c.no <= e.no,
           NEW d, d.no = c.no, d.st = "answered"
    PROVE  InOrderIn((F \ {c}) \cup {d}) /\ \A e \in F : e.st = "answered" => e.no < d.no
  <1>1. \A e \in F : e.st = "answered" => e.no < d.no
    BY DEF InOrderIn
  <1>2. \A e \in F : e # c /\ e.st = "sent" => d.no < e.no
    BY DEF Fine
  <1> QED
    BY <1>1, <1>2 DEF InOrderIn

LEMMA GoodServed ==
    ASSUME NEW F, Fine(F), NEW s \in Seq(Rows), NEW i, NEW f, Good(F, s, i, f), NEW g,
           NEW c \in F, c.st = "sent", \A e \in F : e.st = "sent" => c.no <= e.no,
           NEW d, d.no = c.no, d.kind = c.kind, d.of = c.of, d.ids = c.ids, d.st = "answered", d.ok = TRUE,
           \A e \in F : e.kind = "peers" => e.rows \in Seq(Rows),
           \/ c.kind \in {"ifaces", "newif"} /\ g = f
           \/ c.kind = "peers" /\ LeadsIn(d.rows, c.of, {}, g)
           \/ c.kind \in {"delif", "defaults"}
           \/ /\ c.kind \in Edits
              /\ \A p \in Peers : g[p] = IF p \in Touched(c) THEN Saved(c) ELSE f[p]
              /\ \A p \in Touched(c) : c.kind \in Pushes <=> f[p] = 0
    PROVE  Good((F \ {c}) \cup {d}, s, i, g)
  <1> DEFINE G == (F \ {c}) \cup {d}
  <1> SUFFICES ASSUME ~DoomedIn(G)
               PROVE  /\ InOrderIn(G)
                      /\ ~ReloadingIn(G) =>
                            /\ RepliesIn(G) = {} => LeadsIn(s, i, WroteIn(G), g)
                            /\ \A b \in RepliesIn(G) : Newest(b, RepliesIn(G)) => LeadsIn(b.rows, OfReply(b), WroteIn(G), g)
    BY DEF Good
  <1>1. ~DoomedIn(F)
    BY DEF DoomedIn
  <1>2. InOrderIn(F)
    BY <1>1 DEF Good
  <1>3. InOrderIn(G) /\ \A e \in F : e.st = "answered" => e.no < d.no
    BY <1>2, ServedOrder
  <1>4. d.no \in Nat /\ \A e \in F : e.no \in Nat
    BY DEF Fine
  <1> SUFFICES ASSUME ~ReloadingIn(G)
               PROVE  /\ RepliesIn(G) = {} => LeadsIn(s, i, WroteIn(G), g)
                      /\ \A b \in RepliesIn(G) : Newest(b, RepliesIn(G)) => LeadsIn(b.rows, OfReply(b), WroteIn(G), g)
    BY <1>3
  <1>5. c.kind \notin {"ifaces", "defaults"} /\ (c.kind \notin {"peers", "delif"} => ~ReloadingIn(F))
    BY DEF ReloadingIn
  <1>6. CASE c.kind \in {"peers", "delif"}
    <2>1. d \in RepliesIn(G) /\ \A e \in RepliesIn(G) : e # d => e.no < d.no
      BY <1>3, <1>6 DEF RepliesIn
    <2>2. WroteIn(G) = {}
      <3> SUFFICES ASSUME NEW e \in WroteIn(G) PROVE FALSE
        OBVIOUS
      <3>1. e \in G /\ e.st = "answered" /\ d.no < e.no /\ e.kind \in Edits
        BY <2>1 DEF WroteIn
      <3>2. e # d
        BY <1>4, <3>1
      <3>3. e.no < d.no /\ e.no \in Nat
        BY <1>3, <1>4, <3>1, <3>2
      <3> QED
        BY <1>4, <3>1, <3>3
    <2>3. \A b \in RepliesIn(G) : Newest(b, RepliesIn(G)) => b = d
      <3> SUFFICES ASSUME NEW b \in RepliesIn(G), Newest(b, RepliesIn(G)), b # d PROVE FALSE
        OBVIOUS
      <3>1. b.no < d.no /\ d.no <= b.no /\ b.no \in Nat
        BY <1>4, <2>1 DEF Newest, RepliesIn
      <3> QED
        BY <1>4, <3>1
    <2>4. LeadsIn(d.rows, OfReply(d), {}, g)
      <3>1. CASE c.kind = "peers"
        BY <3>1 DEF OfReply, Edits
      <3>2. CASE c.kind = "delif"
        BY <3>2 DEF OfReply, LeadsIn
      <3> QED
        BY <1>6, <3>1, <3>2
    <2> HIDE DEF G
    <2> QED
      BY <2>1, <2>2, <2>3, <2>4
  <1>7. CASE c.kind \in Edits
    <2>0. c.kind \notin {"peers", "delif", "newif"} /\ ~ReloadingIn(F)
      BY <1>5, <1>7 DEF Edits
    <2>1. RepliesIn(G) = RepliesIn(F)
      BY <2>0 DEF RepliesIn
    <2>2. WroteIn(G) = WroteIn(F) \cup {d}
      <3>1. \A b \in RepliesIn(F) : b.no < d.no
        BY <1>3 DEF RepliesIn
      <3>2. \A e : e \in WroteIn(G) <=> e \in G /\ e.kind \in Edits /\ e.st = "answered" /\ \A b \in RepliesIn(F) : b.no < e.no
        BY <2>1 DEF WroteIn
      <3>3. \A e : e \in WroteIn(F) <=> e \in F /\ e.kind \in Edits /\ e.st = "answered" /\ \A b \in RepliesIn(F) : b.no < e.no
        BY DEF WroteIn
      <3> QED
        BY <1>7, <3>1, <3>2, <3>3
    <2>3. \A e \in WroteIn(F) : e.no \in Nat /\ e.no < d.no
      BY <1>3, <1>4 DEF WroteIn
    <2>4. Touched(d) = Touched(c) /\ Saved(d) = Saved(c)
      BY DEF Touched, Saved
    <2>5. /\ \A p \in Peers : g[p] = IF p \in Touched(d) THEN Saved(d) ELSE f[p]
          /\ \A p \in Touched(d) : d.kind \in Pushes <=> f[p] = 0
      BY <1>7, <2>0, <2>4, <1>5
    <2> DEFINE W == WroteIn(F)
    <2> HIDE DEF G, W
    <2>6. ASSUME NEW r \in Seq(Rows), NEW j, LeadsIn(r, j, W, f) PROVE LeadsIn(r, j, W \cup {d}, g)
      BY <1>4, <2>3, <2>5, <2>6, LeadsWrote DEF W
    <2>7. /\ RepliesIn(F) = {} => LeadsIn(s, i, W, f)
          /\ \A b \in RepliesIn(F) : Newest(b, RepliesIn(F)) => LeadsIn(b.rows, OfReply(b), W, f)
      BY <1>1, <2>0 DEF Good, W
    <2>8. ASSUME NEW b \in RepliesIn(F), Newest(b, RepliesIn(F)) PROVE LeadsIn(b.rows, OfReply(b), W \cup {d}, g)
      <3>1. CASE b.kind = "peers"
        <4>1. b.rows \in Seq(Rows)
          BY <3>1 DEF RepliesIn
        <4> QED
          BY <2>6, <2>7, <2>8, <4>1
      <3>2. CASE b.kind # "peers"
        BY <3>2 DEF OfReply, LeadsIn
      <3> QED
        BY <3>1, <3>2
    <2> QED
      BY <2>1, <2>2, <2>6, <2>7, <2>8 DEF W
  <1>8. CASE c.kind = "newif" /\ g = f
    <2>1. RepliesIn(G) = RepliesIn(F) /\ ~ReloadingIn(F)
      BY <1>5, <1>8 DEF RepliesIn
    <2>2. c.kind \notin Edits
      BY <1>8 DEF Edits
    <2>3. WroteIn(G) = WroteIn(F)
      BY <2>1, <2>2 DEF WroteIn
    <2> HIDE DEF G
    <2> QED
      BY <1>1, <1>8, <2>1, <2>3 DEF Good
  <1> QED
    BY <1>5, <1>6, <1>7, <1>8

\* What taking the oldest answer does to the order.
LEMMA TakenOrder ==
    ASSUME NEW F, Fine(F), NEW c \in F, c.st = "answered", c.ok = TRUE, \A e \in F : c.no <= e.no,
           NEW s, NEW i, NEW f, Good(F, s, i, f), ~DoomedIn(F \ {c})
    PROVE  /\ ~DoomedIn(F) /\ InOrderIn(F) /\ InOrderIn(F \ {c})
           /\ \A e \in F : e # c => c.no < e.no
           /\ c.kind \notin {"ifaces", "defaults"} => (ReloadingIn(F) <=> ReloadingIn(F \ {c}))
  <1>1. ~DoomedIn(F)
    BY DEF DoomedIn
  <1>2. InOrderIn(F)
    BY <1>1 DEF Good
  <1>3. InOrderIn(F \ {c})
    BY <1>2 DEF InOrderIn
  <1>4. \A e \in F : e # c => c.no < e.no
    BY DEF Fine
  <1>5. c.kind \notin {"ifaces", "defaults"} => (ReloadingIn(F) <=> ReloadingIn(F \ {c}))
    BY DEF ReloadingIn
  <1> QED
    BY <1>1, <1>2, <1>3, <1>4, <1>5

\* The next load follows.
LEMMA GoodFollowed ==
    ASSUME NEW F, Fine(F), NEW c \in F, c.st = "answered", c.ok = TRUE, \A e \in F : c.no <= e.no,
           NEW s, NEW i, NEW f, Good(F, s, i, f), NEW k, k.kind = "peers", k.st = "sent", \A e \in F : e.no < k.no,
           NEW t, NEW j, NEW g
    PROVE  Good((F \ {c}) \cup {k}, t, j, g)
  <1> DEFINE G == (F \ {c}) \cup {k}
  <1>1. ReloadingIn(G)
    BY DEF ReloadingIn
  <1>2. ASSUME ~DoomedIn(G) PROVE InOrderIn(G)
    <2>1. ~DoomedIn(F \ {c})
      BY <1>2 DEF DoomedIn
    <2>2. InOrderIn(F \ {c})
      BY <2>1, TakenOrder
    <2> QED
      BY <2>2 DEF InOrderIn
  <1> QED
    BY <1>1, <1>2 DEF Good

\* The answer that replaces the list is taken, or the one that leaves it to
\* nobody, or one that does not touch it.
LEMMA GoodTaken ==
    ASSUME NEW F, Fine(F), NEW c \in F, c.st = "answered", c.ok = TRUE, \A e \in F : c.no <= e.no,
           NEW s, NEW i, NEW f, Good(F, s, i, f), NEW t, NEW j,
           \/ c.kind = "peers" /\ t = c.rows /\ j = c.of
           \/ c.kind = "delif" /\ j = None
           \/ c.kind = "newif" /\ t = s /\ j = i
    PROVE  Good(F \ {c}, t, j, f)
  <1> DEFINE G == F \ {c}
  <1> SUFFICES ASSUME ~DoomedIn(G)
               PROVE  /\ InOrderIn(G)
                      /\ ~ReloadingIn(G) =>
                            /\ RepliesIn(G) = {} => LeadsIn(t, j, WroteIn(G), f)
                            /\ \A b \in RepliesIn(G) : Newest(b, RepliesIn(G)) => LeadsIn(b.rows, OfReply(b), WroteIn(G), f)
    BY DEF Good
  <1>1. /\ ~DoomedIn(F) /\ InOrderIn(G) /\ (\A e \in F : e # c => c.no < e.no) /\ (ReloadingIn(F) <=> ReloadingIn(G))
    BY TakenOrder
  <1> SUFFICES ASSUME ~ReloadingIn(G)
               PROVE  /\ RepliesIn(G) = {} => LeadsIn(t, j, WroteIn(G), f)
                      /\ \A b \in RepliesIn(G) : Newest(b, RepliesIn(G)) => LeadsIn(b.rows, OfReply(b), WroteIn(G), f)
    BY <1>1
  <1>2. RepliesIn(G) = RepliesIn(F) \ {c} /\ c.kind \notin Edits
    BY DEF RepliesIn, Edits
  <1>3. WroteIn(G) = WroteIn(F)
    <2>1. \A e : e \in WroteIn(G) <=> e \in F /\ e # c /\ e.kind \in Edits /\ e.st = "answered" /\ \A b \in RepliesIn(F) \ {c} : b.no < e.no
      BY <1>2 DEF WroteIn
    <2>2. \A e : e \in WroteIn(F) <=> e \in F /\ e.kind \in Edits /\ e.st = "answered" /\ \A b \in RepliesIn(F) : b.no < e.no
      BY DEF WroteIn
    <2> QED
      BY <1>1, <1>2, <2>1, <2>2
  <1>4. /\ RepliesIn(F) = {} => LeadsIn(s, i, WroteIn(F), f)
        /\ \A b \in RepliesIn(F) : Newest(b, RepliesIn(F)) => LeadsIn(b.rows, OfReply(b), WroteIn(F), f)
    BY <1>1 DEF Good
  <1>5. ASSUME NEW b \in RepliesIn(G), Newest(b, RepliesIn(G)) PROVE LeadsIn(b.rows, OfReply(b), WroteIn(F), f)
    <2>1. b \in F /\ c.no <= b.no
      BY DEF RepliesIn
    <2>2. Newest(b, RepliesIn(F))
      BY <1>2, <1>5, <2>1 DEF Newest
    <2> QED
      BY <1>2, <1>4, <1>5, <2>2
  <1>6. ASSUME RepliesIn(G) = {} PROVE LeadsIn(t, j, WroteIn(F), f)
    <2>1. CASE c.kind = "peers" /\ t = c.rows /\ j = c.of
      <3>1. c \in RepliesIn(F) /\ \A b \in RepliesIn(F) : b = c
        BY <1>2, <1>6, <2>1 DEF RepliesIn
      <3>2. c.no <= c.no
        BY DEF Fine
      <3>3. Newest(c, RepliesIn(F))
        BY <3>1, <3>2 DEF Newest
      <3> QED
        BY <1>4, <2>1, <3>1, <3>3 DEF OfReply
    <2>2. CASE j = None
      BY <2>2 DEF LeadsIn
    <2>3. CASE c.kind = "newif" /\ t = s /\ j = i
      <3>1. c \notin RepliesIn(F)
        BY <2>3 DEF RepliesIn
      <3> QED
        BY <1>2, <1>4, <1>6, <2>3, <3>1
    <2> QED
      BY <2>1, <2>2, <2>3
  <1> QED
    BY <1>3, <1>5, <1>6

\* The answer of an edit is applied to the list, which the answer of a newer
\* load replaces if there is one.
LEMMA GoodEdited ==
    ASSUME NEW F, Fine(F), NEW c \in F, c.st = "answered", c.ok = TRUE, \A e \in F : c.no <= e.no,
           NEW s \in Seq(Rows), NEW i, NEW f, Good(F, s, i, f), c.kind \in Edits, NEW t, NEW j,
           ASSUME NEW W, c \in W, W \subseteq F, LeadsIn(s, i, W, f) PROVE LeadsIn(t, j, W \ {c}, f)
    PROVE  Good(F \ {c}, t, j, f)
  <1> DEFINE G == F \ {c}
  <1> SUFFICES ASSUME ~DoomedIn(G)
               PROVE  /\ InOrderIn(G)
                      /\ ~ReloadingIn(G) =>
                            /\ RepliesIn(G) = {} => LeadsIn(t, j, WroteIn(G), f)
                            /\ \A b \in RepliesIn(G) : Newest(b, RepliesIn(G)) => LeadsIn(b.rows, OfReply(b), WroteIn(G), f)
    BY DEF Good
  <1>0. c.kind \notin {"peers", "delif", "ifaces", "defaults"}
    BY DEF Edits
  <1>1. /\ ~DoomedIn(F) /\ InOrderIn(G) /\ (\A e \in F : e # c => c.no < e.no) /\ (ReloadingIn(F) <=> ReloadingIn(G))
    BY <1>0, TakenOrder
  <1> SUFFICES ASSUME ~ReloadingIn(G)
               PROVE  /\ RepliesIn(G) = {} => LeadsIn(t, j, WroteIn(G), f)
                      /\ \A b \in RepliesIn(G) : Newest(b, RepliesIn(G)) => LeadsIn(b.rows, OfReply(b), WroteIn(G), f)
    BY <1>1
  <1>2. RepliesIn(G) = RepliesIn(F)
    BY <1>0 DEF RepliesIn
  <1>3. WroteIn(G) = WroteIn(F) \ {c}
    BY <1>2 DEF WroteIn
  <1>4. /\ RepliesIn(F) = {} => LeadsIn(s, i, WroteIn(F), f)
        /\ \A b \in RepliesIn(F) : Newest(b, RepliesIn(F)) => LeadsIn(b.rows, OfReply(b), WroteIn(F), f)
    BY <1>1 DEF Good
  <1>5. CASE RepliesIn(F) = {}
    <2> DEFINE W == WroteIn(F)
    <2>1. c \in W /\ W \subseteq F
      BY <1>5 DEF WroteIn
    <2> HIDE DEF W
    <2>2. LeadsIn(s, i, W, f)
      BY <1>4, <1>5 DEF W
    <2>3. LeadsIn(t, j, W \ {c}, f)
      BY <2>1, <2>2
    <2> QED
      BY <1>2, <1>3, <1>5, <2>3 DEF W
  <1>6. CASE RepliesIn(F) # {}
    <2>1. c \notin WroteIn(F)
      <3> SUFFICES ASSUME c \in WroteIn(F) PROVE FALSE
        OBVIOUS
      <3>1. PICK b \in RepliesIn(F) : TRUE
        BY <1>6
      <3>2. b.no < c.no /\ c.no <= b.no /\ b.no \in Nat /\ c.no \in Nat
        BY <3>1 DEF WroteIn, RepliesIn, Fine
      <3> QED
        BY <3>2
    <2>2. WroteIn(G) = WroteIn(F)
      BY <1>3, <2>1
    <2> QED
      BY <1>2, <1>4, <1>6, <2>2
  <1> QED
    BY <1>5, <1>6

-----------------------------------------------------------------------------
(* The list of peers *)

ListKinds == {"ifaces", "peers", "defaults", "newif", "delif"} \cup Edits

LEMMA ListFine ==
    ASSUME Sound
    PROVE  /\ Fine(InFlight("list")) /\ srv \in [Peers -> Nat] /\ peers \in Seq(Rows)
           /\ \A c \in InFlight("list") : /\ c \in calls /\ c.kind \in ListKinds /\ About(c) /\ c \in Calls /\ c.no # 0
                                          /\ c.ids \in SUBSET Peers /\ c.no \in Nat
           /\ \A c \in InFlight("list") : c.kind = "peers" => c.rows \in Seq(Rows) /\ c.of \in IfaceSet
  <1>1. TypeOK /\ CallsTold
    BY DEF Sound
  <1>2. /\ \A c, d \in calls : c.no = d.no => c = d
        /\ \A c \in calls : /\ c \in Calls /\ c.no \in Nat /\ c.no >= 1 /\ c.kind \in Kinds
                            /\ c.st \in {"sent", "answered"} /\ c.ok \in BOOLEAN
    BY <1>1, Numbered
  <1>3. \A c \in InFlight("list") : c \in calls /\ Group(c.kind) = "list"
    BY InGroup
  <1>4. Fine(InFlight("list"))
    BY <1>2, <1>3 DEF Fine
  <1>5. \A c \in InFlight("list") : c.kind \in ListKinds
    BY <1>2, <1>3, GroupKinds DEF ListKinds
  <1>6. \A c \in calls : About(c)
    BY <1>1, ToldAbout
  <1>7. \A c \in calls : c.ids \in SUBSET Peers /\ c.no # 0
    BY <1>2 DEF Calls
  <1>8. \A c \in calls : c.kind = "peers" => c.rows \in Seq(Rows) /\ c.of \in IfaceSet
    BY AnsweredAbout DEF OfPeer
  <1>9. srv \in [Peers -> Nat] /\ peers \in Seq(Rows)
    BY <1>1 DEF TypeOK
  <1> QED
    BY <1>2, <1>3, <1>4, <1>5, <1>6, <1>7, <1>8, <1>9

LEMMA ListKept ==
    ASSUME ListPending, Untouched("list"), UNCHANGED <<srv, peers, asked>>
    PROVE  ListPending'
  <1>1. "list" \in orderly' => Good(InFlight("list"), peers, asked, srv)
    BY GoodOf DEF Untouched
  <1>2. InFlight("list")' = InFlight("list")
    BY DEF Untouched
  <1> QED
    BY <1>1, <1>2, GoodNext

LEMMA ListJoined ==
    ASSUME Sound, ListPending, NEW k, Joined("list", k), k.kind \in ListKinds, UNCHANGED <<srv, peers, asked>>
    PROVE  ListPending'
  <1> DEFINE F == InFlight("list")
  <1>1. Fine(F) /\ InFlight("list")' = F \cup {k} /\ k.st = "sent" /\ \A c \in F : c.no < k.no
    BY ListFine DEF Joined
  <1>2. ASSUME "list" \in orderly' PROVE Good(F, peers, asked, srv) \/ (F = {} /\ k.kind \in {"ifaces", "peers"})
    <2>1. "list" \in orderly \/ (F = {} /\ k.kind \in Loads)
      BY <1>2 DEF Joined
    <2>2. k.kind \in Loads => k.kind \in {"ifaces", "peers"}
      BY DEF ListKinds, Loads, Edits
    <2> QED
      BY <2>1, <2>2, GoodOf
  <1> HIDE DEF F
  <1>3. ASSUME "list" \in orderly' PROVE Good(F \cup {k}, peers, asked, srv)
    BY <1>1, <1>2, <1>3, GoodJoined DEF ListKinds
  <1> QED
    BY <1>1, <1>3, GoodNext

LEMMA ListServed ==
    ASSUME Sound, ListPending, NEW c \in calls, NEW d, Served(c, d), Serves(c, d), Group(c.kind) # "list" => srv' = srv
    PROVE  ListPending'
  <1> DEFINE F == InFlight("list")
  <1>1. Swapped(Group(c.kind), c, d) /\ (\A h : h # Group(c.kind) => Untouched(h)) /\ UNCHANGED <<peers, asked>>
    BY DEF Served, lists
  <1>2. CASE Group(c.kind) # "list"
    BY <1>1, <1>2, ListKept
  <1>3. CASE Group(c.kind) = "list"
    <2>1. c \in F /\ InFlight("list")' = (F \ {c}) \cup {d} /\ Same(c, d) /\ ("list" \in orderly' => "list" \in orderly)
      BY <1>1, <1>3 DEF Swapped
    <2>2. /\ d.no = c.no /\ d.kind = c.kind /\ d.of = c.of /\ d.ids = c.ids /\ d.st = "answered"
      BY <2>1 DEF Same
    <2>3. /\ Fine(F) /\ srv \in [Peers -> Nat] /\ peers \in Seq(Rows) /\ c.kind \in ListKinds
          /\ \A e \in F : e.kind = "peers" => e.rows \in Seq(Rows)
      BY <2>1, ListFine
    <2> SUFFICES ASSUME "list" \in orderly' PROVE Good((F \ {c}) \cup {d}, peers, asked, srv')
      BY <1>1, <2>1, GoodNext
    <2>4. Good(F, peers, asked, srv)
      BY <2>1, GoodOf
    <2>5. CASE d.ok = FALSE
      <3> DEFINE G == (F \ {c}) \cup {d}
      <3>1. d \in G
        OBVIOUS
      <3> HIDE DEF G, F
      <3>2. Good(G, peers, asked, srv')
        BY <2>2, <2>5, <3>1, GoodFailed
      <3> QED
        BY <3>2 DEF G
    <2>6. CASE d.ok # FALSE
      <3>1. /\ d.ok = TRUE /\ c.st = "sent" /\ \A e \in F : e.st = "sent" => c.no <= e.no
        BY <1>3, <2>6 DEF Serves
      <3>2. \/ c.kind \notin Edits \cup {"peers", "delif", "defaults"} /\ srv' = srv
            \/ c.kind = "peers" /\ srv' = srv /\ d.rows = Order(RowsOf(c.of))
            \/ c.kind \in {"delif", "defaults"}
            \/ /\ c.kind \in Edits
               /\ \A p \in Peers : srv'[p] = IF p \in Touched(c) THEN Saved(c) ELSE srv[p]
               /\ \A p \in Touched(c) : c.kind \in Pushes <=> srv[p] = 0
        BY <2>6 DEF Serves
      <3>3. c.kind \notin Edits \cup {"peers", "delif", "defaults"} => c.kind \in {"ifaces", "newif"}
        BY <2>3 DEF ListKinds
      <3>4. LeadsIn(Order(RowsOf(c.of)), c.of, {}, srv)
        BY <2>3, LeadsLoaded
      <3> DEFINE g == srv'
      <3>5. \/ c.kind \in {"ifaces", "newif"} /\ g = srv
            \/ c.kind = "peers" /\ LeadsIn(d.rows, c.of, {}, g)
            \/ c.kind \in {"delif", "defaults"}
            \/ /\ c.kind \in Edits
               /\ \A p \in Peers : g[p] = IF p \in Touched(c) THEN Saved(c) ELSE srv[p]
               /\ \A p \in Touched(c) : c.kind \in Pushes <=> srv[p] = 0
        BY <3>2, <3>3, <3>4
      <3> HIDE DEF F, g
      <3>6. Good((F \ {c}) \cup {d}, peers, asked, g)
        BY <2>1, <2>2, <2>3, <2>4, <3>1, <3>5, GoodServed
      <3> QED
        BY <3>6 DEF g
    <2> QED
      BY <2>5, <2>6
  <1> QED
    BY <1>2, <1>3

\* The calls that are not about the lists write nothing.
LEMMA OthersWriteNothing ==
    ASSUME NEW c, Handle(c) \/ HandlePartly(c) \/ Lose(c), Group(c.kind) # "list"
    PROVE  srv' = srv
  <1>1. c.kind \notin {"update", "delete", "create", "multi", "defaults", "newif", "delif"}
    BY DEF Group
  <1>2. CASE Handle(c)
    <2>1. HandleLoad(c) \/ HandleMissing(c)
      BY <1>1, <1>2 DEF Handle, HandlePeer, HandleInterface
    <2> QED
      BY <2>1 DEF HandleLoad, HandleMissing, server
  <1>3. CASE HandlePartly(c)
    BY <1>1, <1>3 DEF HandlePartly
  <1>4. CASE Lose(c)
    BY <1>4 DEF Lose, server
  <1> QED
    BY <1>2, <1>3, <1>4

\* The next load follows the answer.
LEMMA ListFollowed ==
    ASSUME Sound, ListPending, NEW c, NEW k, Followed("list", c, k), k.kind = "peers"
    PROVE  ListPending'
  <1> DEFINE F == InFlight("list")
  <1>1. /\ Fine(F) /\ c \in F /\ c.st = "answered" /\ InFlight("list")' = (F \ {c}) \cup {k} /\ k.st = "sent"
        /\ \A e \in F : e.no < k.no
    BY ListFine DEF Followed
  <1> SUFFICES ASSUME "list" \in orderly' PROVE Good((F \ {c}) \cup {k}, peers', asked', srv')
    BY <1>1, GoodNext
  <1>2. Good(F, peers, asked, srv) /\ c.ok = TRUE /\ \A e \in F : c.no <= e.no
    <2>1. "list" \in orderly /\ ~Fails(c) /\ \A e \in F : c.no <= e.no
      BY DEF Followed
    <2>2. c.ok = TRUE
      BY <1>1, <2>1 DEF Fails, Fine
    <2> QED
      BY <2>1, <2>2, GoodOf
  <1> DEFINE t == peers'
             j == asked'
             g == srv'
  <1> HIDE DEF F, t, j, g
  <1>3. Good((F \ {c}) \cup {k}, t, j, g)
    BY <1>1, <1>2, GoodFollowed
  <1> QED
    BY <1>3 DEF t, j, g

\* What is known when an answer is taken in order.
LEMMA ListTaken ==
    ASSUME Sound, ListPending, NEW c, Taken("list", c), "list" \in orderly'
    PROVE  /\ Good(InFlight("list"), peers, asked, srv) /\ c \in InFlight("list") /\ c.st = "answered" /\ c.ok = TRUE
           /\ \A e \in InFlight("list") : c.no <= e.no
  <1>1. "list" \in orderly /\ ~Fails(c) /\ c \in InFlight("list") /\ c.st = "answered" /\ \A e \in InFlight("list") : c.no <= e.no
    BY DEF Taken
  <1>2. c.ok = TRUE
    BY <1>1, ListFine DEF Fails, Fine
  <1> QED
    BY <1>1, <1>2, GoodOf

\* An answer that replaces the list, leaves it to nobody or does not touch it.
LEMMA ListReplaced ==
    ASSUME Sound, ListPending, NEW c, Taken("list", c), srv' = srv,
           \/ c.kind = "peers" /\ (c.ok => peers' = c.rows) /\ asked' = c.of
           \/ c.kind = "delif" /\ (c.ok => asked' = None)
           \/ c.kind = "newif" /\ UNCHANGED <<peers, asked>>
    PROVE  ListPending'
  <1> DEFINE F == InFlight("list")
             t == peers'
             j == asked'
  <1>1. InFlight("list")' = F \ {c} /\ Fine(F)
    BY ListFine DEF Taken
  <1> SUFFICES ASSUME "list" \in orderly' PROVE Good(F \ {c}, t, j, srv)
    BY <1>1, GoodNext
  <1>2. /\ Good(F, peers, asked, srv) /\ c \in F /\ c.st = "answered" /\ c.ok = TRUE /\ \A e \in F : c.no <= e.no
    BY ListTaken
  <1>3. \/ c.kind = "peers" /\ t = c.rows /\ j = c.of
        \/ c.kind = "delif" /\ j = None
        \/ c.kind = "newif" /\ t = peers /\ j = asked
    BY <1>2
  <1> HIDE DEF F, t, j
  <1> QED
    BY <1>1, <1>2, <1>3, GoodTaken

\* An edit is applied.
LEMMA ListEdited ==
    ASSUME Sound, ListPending, NEW c, ApplyUpdate(c) \/ ApplyCreate(c) \/ ApplyDelete(c)
    PROVE  ListPending'
  <1> DEFINE F == InFlight("list")
             s == peers
             t == peers'
             i == asked
             j == asked'
             f == srv
  <1>1. /\ c.kind \in Edits /\ Taken("list", c) /\ srv' = srv /\ (c.kind \notin Pushes => j = i)
        /\ c.kind \in Pushes => t = s \o c.rows /\ j = IF c.ok /\ c.of # i THEN None ELSE i
    BY EditStep
  <1>2. InFlight("list")' = F \ {c} /\ Fine(F) /\ s \in Seq(Rows)
    BY <1>1, ListFine DEF Taken
  <1> SUFFICES ASSUME "list" \in orderly' PROVE Good(F \ {c}, t, j, f)
    BY <1>1, <1>2, GoodNext
  <1>3. /\ Good(F, s, i, f) /\ c \in F /\ c.st = "answered" /\ c.ok = TRUE /\ \A e \in F : c.no <= e.no
    BY <1>1, ListTaken
  <1>4. About(c) /\ c.no # 0 /\ c.no \in Nat /\ c.ids \in SUBSET Peers
    BY <1>3, ListFine
  <1>5. /\ c.kind = "update" => c.rows = <<[id |-> c.of, ver |-> c.no]>>
        /\ c.kind \in Pushes => c.rows = Order(Stamped(c.ids, c.no))
        /\ \A p \in c.ids : Home[p] = c.of
    BY <1>3, <1>4 DEF About
  <1>6. /\ c.kind = "update" => t = [n \in DOMAIN s |-> IF s[n].id = c.of /\ \A m \in 1 .. n - 1 : s[m].id # c.of THEN c.rows[1] ELSE s[n]]
        /\ c.kind = "delete" => t = RowsAt(s, {n \in DOMAIN s : s[n].id # c.of})
    BY <1>3 DEF ApplyUpdate, ApplyCreate, ApplyDelete, Applies, Pushes
  <1>7. \A e \in F : e.no \in Nat /\ (e.no = c.no => e = c)
    BY <1>2, <1>3 DEF Fine
  <1> HIDE DEF F, s, t, i, j, f
  <1>8. ASSUME NEW W, c \in W, W \subseteq F, LeadsIn(s, i, W, f) PROVE LeadsIn(t, j, W \ {c}, f)
    <2>1. Oldest(c, W) /\ (\A e \in W : e.no \in Nat) /\ (\A e \in W : e.no = c.no => e = c)
      BY <1>3, <1>7, <1>8 DEF Oldest
    <2>2. CASE c.kind \in Pushes /\ c.of # i
      <3>1. j = None
        BY <1>1, <1>3, <2>2
      <3> QED
        BY <3>1 DEF LeadsIn
    <2>3. CASE c.kind \in Pushes /\ c.of = i
      <3>1. j = i /\ t = s \o c.rows
        BY <1>1, <2>3
      <3>2. LeadsIn(s \o c.rows, i, W \ {c}, f)
        BY <1>2, <1>4, <1>5, <1>8, <2>1, <2>3, LeadsPushed
      <3> QED
        BY <3>1, <3>2
    <2>4. CASE c.kind = "update"
      <3> DEFINE r == c.rows[1]
      <3>1. r.id = c.of /\ r.ver = c.no /\ j = i
        BY <1>1, <1>5, <2>4 DEF Pushes
      <3>2. t = [n \in DOMAIN s |-> IF s[n].id = c.of /\ \A m \in 1 .. n - 1 : s[m].id # c.of THEN r ELSE s[n]]
        BY <1>6, <2>4
      <3> HIDE DEF r
      <3>3. LeadsIn(t, i, W \ {c}, f)
        BY <1>2, <1>4, <1>8, <2>1, <2>4, <3>1, <3>2, LeadsUpdated
      <3> QED
        BY <3>1, <3>3
    <2>5. CASE c.kind = "delete"
      <3> DEFINE K == {n \in DOMAIN s : s[n].id # c.of}
      <3>1. j = i /\ t = RowsAt(s, K)
        BY <1>1, <1>6, <2>5 DEF Pushes
      <3>2. LeadsIn(RowsAt(s, K), i, W \ {c}, f)
        BY <1>2, <1>8, <2>1, <2>5, LeadsDeleted
      <3> HIDE DEF K
      <3> QED
        BY <3>1, <3>2
    <2> QED
      BY <1>1, <2>2, <2>3, <2>4, <2>5 DEF Edits, Pushes
  <1> QED
    BY <1>1, <1>2, <1>3, <1>8, GoodEdited

LEMMA ListNext == Sound /\ ListPending /\ [Next]_vars => ListPending'
  <1> SUFFICES ASSUME Sound, ListPending, [Next]_vars PROVE ListPending'
    OBVIOUS
  <1>1. CASE Person
    <2>1. CASE Looking
      <3>1. UNCHANGED <<srv, peers, asked>>
        BY <2>1 DEF Looking, lists, server
      <3> QED
        BY <2>1, <3>1, LookingStep, ListKept
    <2>2. ASSUME NEW a, Asking(a) PROVE ListPending'
      <3>1. PICK k : Called(a, k) /\ Joined(Group(a.kind), k) /\ \A h : h # Group(a.kind) => Untouched(h)
        BY <2>2, AskingStep
      <3>2. UNCHANGED <<srv, peers, asked>> /\ k.kind = a.kind /\ a.kind \in Kinds
        BY <2>2, <3>1, AskingStep DEF Asking, lists, server, Called, AskOK
      <3>3. CASE Group(a.kind) = "list"
        <4>1. k.kind \in ListKinds
          BY <3>2, <3>3, GroupKinds DEF ListKinds
        <4> QED
          BY <3>1, <3>2, <3>3, <4>1, ListJoined
      <3>4. CASE Group(a.kind) # "list"
        BY <3>1, <3>2, <3>4, ListKept
      <3> QED
        BY <3>3, <3>4
    <2>3. ASSUME NEW i \in IfaceSet, Select(i) PROVE ListPending'
      <3>1. PICK k, l : k.kind = "peers" /\ Joined("list", k)
        BY <2>3, SelectStep
      <3>2. UNCHANGED <<srv, peers, asked>> /\ k.kind \in ListKinds
        BY <2>3, <3>1, SelectStep DEF Select, server, ListKinds
      <3> QED
        BY <3>1, <3>2, ListJoined
    <2> QED
      BY <1>1, <2>1, <2>2, <2>3, PersonCases
  <1>2. ASSUME NEW c \in calls, Handle(c) \/ HandlePartly(c) \/ Lose(c) PROVE ListPending'
    <2>1. PICK d : Served(c, d) /\ Serves(c, d)
      BY <1>2, ServerStep
    <2>2. Group(c.kind) # "list" => srv' = srv
      BY <1>2, OthersWriteNothing
    <2> QED
      BY <2>1, <2>2, ListServed
  <1>3. ASSUME NEW c \in calls, Apply(c) PROVE ListPending'
    <2>0. "list" # "stats"
      OBVIOUS
    <2>1. CASE ApplyInterfaces(c)
      <3>1. \/ selected' = None /\ Taken("list", c)
            \/ \E k : Followed("list", c, k) /\ k.kind = "peers"
        BY <2>1, InterfacesStep
      <3>2. CASE selected' = None /\ Taken("list", c)
        <4>1. interfaces' = (IF c.ok THEN c.rows ELSE <<>>) /\ selected' = First(interfaces') /\ c.kind = "ifaces"
          BY <2>1, InterfacesStep DEF ApplyInterfaces
        <4>2. interfaces' \in Seq(IfaceSet)
          BY <2>1, InterfacesStep DEF Sound, TypeOK
        <4>3. interfaces' = <<>>
          BY <3>2, <4>1, <4>2, FirstOf
        <4>4. Fails(c)
          BY <4>1, <4>3 DEF Fails
        <4>5. "list" \notin orderly'
          BY <3>2, <4>4 DEF Taken
        <4> QED
          BY <4>5 DEF ListPending
      <3> QED
        BY <3>1, <3>2, ListFollowed
    <2>2. CASE ApplyPeers(c)
      <3>1. Taken("list", c) /\ srv' = srv /\ c.kind = "peers" /\ (c.ok => peers' = c.rows) /\ asked' = c.of
        BY <2>2, PeersStep
      <3> QED
        BY <3>1, ListReplaced
    <2>3. CASE ApplyStats(c)
      <3>1. Untouched("list") /\ UNCHANGED <<srv, peers, asked>>
        BY <2>0, <2>3, StatsStep
      <3> QED
        BY <3>1, ListKept
    <2>4. CASE ApplyUpdate(c) \/ ApplyCreate(c) \/ ApplyDelete(c)
      BY <2>4, ListEdited
    <2>5. CASE ApplyDefaults(c)
      <3>1. ("list" \notin orderly' /\ Taken("list", c)) \/ \E k : Followed("list", c, k) /\ k.kind = "peers"
        BY <2>5, DefaultsStep
      <3> QED
        BY <3>1, ListFollowed DEF ListPending
    <2>6. CASE ApplyNewInterface(c)
      <3>1. Taken("list", c) /\ srv' = srv /\ c.kind = "newif" /\ UNCHANGED <<peers, asked>>
        BY <2>6, NewInterfaceStep
      <3> QED
        BY <3>1, ListReplaced
    <2>7. CASE ApplyDeleteInterface(c)
      <3>1. Taken("list", c) /\ srv' = srv /\ c.kind = "delif" /\ (c.ok => asked' = None)
        BY <2>7, DeleteInterfaceStep
      <3> QED
        BY <3>1, ListReplaced
    <2>8. CASE ApplyConfig(c) \/ ApplyDownload(c)
      <3>1. /\ \A h : h # Group(c.kind) => Untouched(h)
            /\ UNCHANGED <<srv, peers, asked>> /\ c.kind \in {"peerconf", "ifconf", "download"}
        BY <2>8, ConfigStep
      <3>2. Group(c.kind) # "list"
        BY <3>1 DEF Group
      <3> QED
        BY <3>1, <3>2, ListKept
    <2> QED
      BY <1>3, <2>1, <2>2, <2>3, <2>4, <2>5, <2>6, <2>7, <2>8 DEF Apply
  <1>4. CASE UNCHANGED vars
    <2>1. UNCHANGED <<calls, orderly, srv, peers, asked>>
      BY <1>4 DEF vars
    <2>2. Untouched("list")
      BY <2>1 DEF Untouched, InFlight
    <2> QED
      BY <2>1, <2>2, ListKept
  <1> QED
    BY <1>1, <1>2, <1>3, <1>4 DEF Next

LEMMA InitList == Init => ListPending
  <1> SUFFICES ASSUME Init PROVE ListPending
    OBVIOUS
  <1>1. srv \in [Peers -> Nat] /\ calls = {} /\ peers = Order(RowsOf(selected)) /\ asked = selected
    BY DEF Init
  <1>2. InFlight("list") = {}
    BY <1>1 DEF InFlight
  <1>3. LeadsIn(peers, asked, {}, srv)
    BY <1>1, LeadsLoaded
  <1>4. RepliesIn({}) = {} /\ WroteIn({}) = {} /\ InOrderIn({})
    BY DEF RepliesIn, WroteIn, InOrderIn
  <1>5. Good({}, peers, asked, srv)
    BY <1>3, <1>4 DEF Good
  <1> QED
    BY <1>2, <1>5, GoodOf

\* The list when nothing is in flight.
LEMMA ListSettled ==
    ASSUME Sound, ListPending, "list" \in orderly, InFlight("list") = {}, asked # None
    PROVE  Rng(peers) = RowsOf(asked) /\ Len(peers) = Cardinality(RowsOf(asked))
  <1>0. srv \in [Peers -> Nat] /\ peers \in Seq(Rows)
    BY ListFine
  <1>1. LeadsIn(peers, asked, {}, srv)
    <2>1. RepliesIn({}) = {} /\ WroteIn({}) = {} /\ ~DoomedIn({}) /\ ~ReloadingIn({})
      BY DEF RepliesIn, WroteIn, DoomedIn, ReloadingIn
    <2>2. Good({}, peers, asked, srv)
      BY GoodOf
    <2> QED
      BY <2>1, <2>2 DEF Good
  <1>2. \A p, v, w : ChainIn(WritersOf(p, {}), v, w) => v = w
    BY DEF ChainIn, WritersOf
  <1>3. /\ \A m, n \in DOMAIN peers : peers[m].id = peers[n].id => m = n
        /\ \A n \in DOMAIN peers : Home[peers[n].id] = asked /\ peers[n].ver # 0 /\ peers[n].ver = srv[peers[n].id]
        /\ \A p \in Peers : Home[p] = asked /\ (\A n \in DOMAIN peers : peers[n].id # p) => srv[p] = 0
    BY <1>1, <1>2 DEF LeadsIn
  <1>4. \A n \in DOMAIN peers : peers[n].id \in Peers /\ peers[n] = [id |-> peers[n].id, ver |-> peers[n].ver]
    <2> SUFFICES ASSUME NEW n \in DOMAIN peers PROVE peers[n].id \in Peers /\ peers[n] = [id |-> peers[n].id, ver |-> peers[n].ver]
      OBVIOUS
    <2>1. peers[n] \in Rows
      BY <1>0
    <2> QED
      BY <2>1 DEF Rows
  <1>5. Rng(peers) = RowsOf(asked)
    <2>1. ASSUME NEW n \in DOMAIN peers PROVE peers[n] \in RowsOf(asked)
      BY <1>3, <1>4, <2>1 DEF RowsOf
    <2>2. ASSUME NEW p \in Peers, srv[p] # 0, Home[p] = asked PROVE [id |-> p, ver |-> srv[p]] \in Rng(peers)
      <3>1. PICK n \in DOMAIN peers : peers[n].id = p
        BY <1>3, <2>2
      <3>2. peers[n] = [id |-> p, ver |-> srv[p]]
        BY <1>3, <1>4, <3>1
      <3> QED
        BY <3>2 DEF Rng
    <2> QED
      BY <2>1, <2>2 DEF Rng, RowsOf
  <1>6. Len(peers) = Cardinality(RowsOf(asked))
    <2> DEFINE R == RowsOf(asked)
    <2>1. peers \in Surjection(1 .. Len(peers), R) /\ peers \in Injection(1 .. Len(peers), R)
      <3>1. peers \in [1 .. Len(peers) -> R] /\ DOMAIN peers = 1 .. Len(peers)
        BY <1>0, <1>5 DEF Rng
      <3>2. \A m, n \in 1 .. Len(peers) : peers[m] = peers[n] => m = n
        BY <1>3, <3>1
      <3>3. \A r \in R : \E n \in 1 .. Len(peers) : peers[n] = r
        BY <1>5, <3>1 DEF Rng
      <3> HIDE DEF R
      <3> QED
        BY <3>1, <3>2, <3>3 DEF Injection, Surjection, IsInjective
    <2>2. Len(peers) \in Nat
      BY <1>0
    <2> HIDE DEF R
    <2>3. IsFiniteSet(1 .. Len(peers)) /\ Cardinality(1 .. Len(peers)) = Len(peers)
      <3>1. ASSUME NEW n \in Nat PROVE IsFiniteSet(1 .. n) /\ Cardinality(1 .. n) = n
        <4>1. 1 \in Int /\ n \in Int
          OBVIOUS
        <4>2. IsFiniteSet(1 .. n) /\ Cardinality(1 .. n) = IF 1 > n THEN 0 ELSE n - 1 + 1
          BY <4>1, FS_Interval
        <4> QED
          BY <4>2
      <3> QED
        BY <2>2, <3>1
    <2>4. Cardinality(R) = Len(peers)
      BY <2>1, <2>3, FS_Surjection
    <2> QED
      BY <2>4 DEF R
  <1> QED
    BY <1>5, <1>6

\* When no call of the lists is in flight, and none crossed another or failed
\* since the last load, the peer list holds exactly the server's peers of the
\* selected interface in their last version, each once, and the statistics are
\* theirs: for every number of interfaces, peers, clicks and calls in flight.
THEOREM ListAgreesHolds == Spec => []ListAgrees
  <1>1. Sound /\ StatsPending /\ ListPending => ListAgrees
    <2> SUFFICES ASSUME Sound, StatsPending, ListPending, "list" \in orderly, InFlight("list") = {}, asked = GetSelected, asked # None
                 PROVE  /\ Rng(peers) = RowsOf(asked) /\ Len(peers) = Cardinality(RowsOf(asked))
                        /\ "stats" \in orderly /\ InFlight("stats") = {} => statsOf = asked
      BY DEF ListAgrees
    <2>1. ~Mounting
      BY DEF Mounting
    <2>2. "stats" \in orderly /\ InFlight("stats") = {} => statsOf = asked
      BY <2>1 DEF StatsPending
    <2> QED
      BY <2>2, ListSettled
  <1> QED
    BY <1>1, InitStats, InitList, StatsNext, ListNext, SoundHolds, SelectedListedHolds, PTL DEF Spec

\* The strengthening that makes the four properties of the interface page
\* inductive holds in every state the page and the server reach.
THEOREM PeersInvHolds == Spec => []PeersInv
  <1>1. Sound /\ SelectedListed /\ ConfInv /\ StatsPending /\ ListPending => PeersInv
    BY DEF Sound, ConfInv, SavedNamed, PeersInv
  <1>2. Init => ConfInv
    BY DEF Init, ConfInv, PeerConfPending, IfaceConfPending, SavedNamed, Shut
  <1> QED
    BY <1>1, <1>2, InitStats, InitList, StatsNext, ListNext, ConfNext, SoundHolds, SelectedListedHolds, PTL DEF Spec
=============================================================================
