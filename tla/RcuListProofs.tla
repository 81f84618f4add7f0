--------------------------- MODULE RcuListProofs ----------------------------
(***************************************************************************)
(* Facts about the two operations on valid_blk_list, stated for the        *)
(* sequence operators that RcuList uses, and cited by SyscallsProofs.      *)
(***************************************************************************)
EXTENDS RcuList, SequenceTheorems, TLAPS

\* Concatenation, element by element (the linked parts of a list before and behind a change).
LEMMA ConcatElements ==
    ASSUME NEW S, NEW a \in Seq(S), NEW b \in Seq(S)
    PROVE  /\ a \o b \in Seq(S)
           /\ Len(a \o b) = Len(a) + Len(b)
           /\ \A j \in 1..Len(a) : (a \o b)[j] = a[j]
           /\ \A j \in (Len(a) + 1)..(Len(a) + Len(b)) : (a \o b)[j] = b[j - Len(a)]
<1>1. a \o b \in Seq(S) /\ Len(a \o b) = Len(a) + Len(b)
  OBVIOUS
<1>2. \A j \in 1..Len(a) : (a \o b)[j] = a[j]
  OBVIOUS
<1>3. \A j \in (Len(a) + 1)..(Len(a) + Len(b)) : (a \o b)[j] = b[j - Len(a)]
  OBVIOUS
<1> QED
  BY <1>1, <1>2, <1>3

\* list_add_rcu that makes e the p-th element (rcu.c:91): the result's length and elements.
LEMMA ListAddProperties ==
    ASSUME NEW S, NEW s \in Seq(S), NEW p \in 1..(Len(s) + 1), NEW e \in S
    PROVE  /\ ListAdd(s, p, e) \in Seq(S)
           /\ Len(ListAdd(s, p, e)) = Len(s) + 1
           /\ \A j \in 1..(p - 1) : ListAdd(s, p, e)[j] = s[j]
           /\ ListAdd(s, p, e)[p] = e
           /\ \A j \in p..Len(s) : ListAdd(s, p, e)[j + 1] = s[j]
<1> DEFINE k == p - 1
           a == SubSeq(s, 1, k)
           b == SubSeq(s, p, Len(s))
           u == a \o <<e>>
           t == ListAdd(s, p, e)
<1>1. k \in Nat /\ p = k + 1 /\ Len(s) \in Nat /\ k <= Len(s) /\ Len(s) - k \in Nat
  BY LenProperties
<1>2. t = u \o b
  BY DEF ListAdd
<1>3. /\ a \in Seq(S) /\ Len(a) = k
      /\ \A j \in 1..k : a[j] = s[j]
  <2> HIDE DEF k
  <2> QED
    BY <1>1, SubSeqProperties
<1>4. /\ b \in Seq(S) /\ Len(b) = Len(s) - k
      /\ \A j \in 1..(Len(s) - k) : b[j] = s[k + j]
  <2> HIDE DEF k
  <2> QED
    BY <1>1, SubSeqProperties
<1>5. /\ u \in Seq(S) /\ Len(u) = k + 1
      /\ \A j \in 1..k : u[j] = s[j]
      /\ u[k + 1] = e
  <2> HIDE DEF k
  <2> QED
    BY <1>1, <1>3
<1> HIDE DEF a, b, u, t, k
<1>6. /\ u \o b \in Seq(S)
      /\ Len(u \o b) = Len(u) + Len(b)
      /\ \A j \in 1..Len(u) : (u \o b)[j] = u[j]
      /\ \A j \in (Len(u) + 1)..(Len(u) + Len(b)) : (u \o b)[j] = b[j - Len(u)]
  BY <1>4, <1>5, ConcatElements
<1>7. /\ t \in Seq(S)
      /\ Len(t) = Len(s) + 1
      /\ \A j \in 1..k : t[j] = s[j]
      /\ t[k + 1] = e
  BY <1>1, <1>2, <1>4, <1>5, <1>6
<1>8. ASSUME NEW j \in p..Len(s)
      PROVE  t[j + 1] = s[j]
  <2>1. j - k \in 1..(Len(s) - k) /\ k + (j - k) = j /\ (j + 1) - (k + 1) = j - k
    BY <1>1
  <2>2. t[j + 1] = b[(j + 1) - (k + 1)]
    BY <1>1, <1>2, <1>4, <1>5, <1>6
  <2> QED
    BY <2>1, <2>2, <1>4
<1>9. p - 1 = k
  BY <1>1
<1> QED
  BY <1>1, <1>7, <1>8, <1>9 DEF t

\* The same for the list itself.
LEMMA InsertInList ==
    ASSUME valid_blk_list \in Seq(Nodes), NEW p \in 1..(Len(valid_blk_list) + 1),
           NEW el \in Nodes, valid_blk_list' = ListAdd(valid_blk_list, p, el)
    PROVE  /\ valid_blk_list' \in Seq(Nodes)
           /\ Len(valid_blk_list') = Len(valid_blk_list) + 1
           /\ \A j \in 1..(p - 1) : valid_blk_list'[j] = valid_blk_list[j]
           /\ valid_blk_list'[p] = el
           /\ \A j \in p..Len(valid_blk_list) : valid_blk_list'[j + 1] = valid_blk_list[j]
<1>1. valid_blk_list' \in Seq(Nodes)
  BY ListAddProperties
<1>2. Len(valid_blk_list') = Len(valid_blk_list) + 1
  BY ListAddProperties
<1>3. \A j \in 1..(p - 1) : valid_blk_list'[j] = valid_blk_list[j]
  BY ListAddProperties
<1>4. valid_blk_list'[p] = el
  BY ListAddProperties
<1>5. \A j \in p..Len(valid_blk_list) : valid_blk_list'[j + 1] = valid_blk_list[j]
  BY ListAddProperties
<1> QED
  BY <1>1, <1>2, <1>3, <1>4, <1>5

\* list_del_rcu of position k (syscalls.c:354): the result's length and elements.
LEMMA ListDelProperties ==
    ASSUME NEW S, NEW s \in Seq(S), NEW k \in 1..Len(s)
    PROVE  /\ ListDel(s, k) \in Seq(S)
           /\ Len(ListDel(s, k)) = Len(s) - 1
           /\ \A j \in 1..(k - 1) : ListDel(s, k)[j] = s[j]
           /\ \A j \in k..(Len(s) - 1) : ListDel(s, k)[j] = s[j + 1]
<1> DEFINE a == SubSeq(s, 1, k - 1)
           b == SubSeq(s, k + 1, Len(s))
           t == ListDel(s, k)
<1>1. /\ k \in Nat /\ Len(s) \in Nat /\ 1 <= k /\ k <= Len(s)
      /\ k - 1 \in Nat /\ Len(s) - k \in Nat
  BY LenProperties
<1>2. t = a \o b
  BY DEF ListDel
<1>3. /\ a \in Seq(S) /\ Len(a) = k - 1
      /\ \A j \in 1..(k - 1) : a[j] = s[j]
  BY <1>1, SubSeqProperties
<1>4. /\ b \in Seq(S) /\ Len(b) = Len(s) - k
      /\ \A j \in 1..(Len(s) - k) : b[j] = s[k + j]
  BY <1>1, SubSeqProperties
<1> HIDE DEF a, b, t
<1>5. /\ a \o b \in Seq(S)
      /\ Len(a \o b) = Len(a) + Len(b)
      /\ \A j \in 1..Len(a) : (a \o b)[j] = a[j]
      /\ \A j \in (Len(a) + 1)..(Len(a) + Len(b)) : (a \o b)[j] = b[j - Len(a)]
  BY <1>3, <1>4, ConcatElements
<1>6. /\ t \in Seq(S)
      /\ Len(t) = Len(s) - 1
      /\ \A j \in 1..(k - 1) : t[j] = s[j]
  BY <1>1, <1>2, <1>3, <1>4, <1>5
<1>7. ASSUME NEW j \in k..(Len(s) - 1)
      PROVE  t[j] = s[j + 1]
  <2>1. j - (k - 1) \in 1..(Len(s) - k) /\ k + (j - (k - 1)) = j + 1
    BY <1>1
  <2>2. t[j] = b[j - (k - 1)]
    BY <1>1, <1>2, <1>3, <1>4, <1>5
  <2> QED
    BY <2>1, <2>2, <1>4
<1> QED
  BY <1>6, <1>7 DEF t

\* The in-order insertion (rcu.c:75-98) links exactly the new element, once, and
\* changes the fields of no other.
LEMMA InsertLinks ==
    ASSUME RcuTypeOK, Distinct,
           NEW el \in Nodes, el \notin Linked,
           NEW ndx \in Nat, NEW bytes \in Nat, NEW nsec \in Int,
           add_valid_block_in_order_secure(el, ndx, bytes, nsec)
    PROVE  /\ valid_blk_list' \in Seq(Nodes)
           /\ Linked' = Linked \cup {el}
           /\ Distinct'
<1> DEFINE s == valid_blk_list
<1>1. s \in Seq(Nodes) /\ Len(s) \in Nat
  BY LenProperties DEF RcuTypeOK
<1>2. PICK k \in 0..Len(s) : s' = ListAdd(s, k + 1, el)
  BY DEF add_valid_block_in_order_secure
<1>3. /\ s' \in Seq(Nodes)
      /\ Len(s') = Len(s) + 1
      /\ \A j \in 1..k : s'[j] = s[j]
      /\ s'[k + 1] = el
      /\ \A j \in (k + 1)..Len(s) : s'[j + 1] = s[j]
  <2>1. k + 1 \in 1..(Len(s) + 1) /\ (k + 1) - 1 = k
    BY <1>1
  <2> QED
    BY <1>1, <1>2, <2>1, InsertInList
<1>4. k \in Nat /\ k <= Len(s)
  BY <1>1
<1>5. Linked' = Linked \cup {el}
  <2>1. ASSUME NEW j \in 1..Len(s') PROVE s'[j] \in Linked \cup {el}
    <3>1. CASE j <= k
      <4>1. j \in 1..Len(s) /\ s'[j] = s[j]
        BY <3>1, <1>1, <1>3, <1>4
      <4> QED
        BY <4>1 DEF Linked
    <3>2. CASE j = k + 1
      BY <3>2, <1>3
    <3>3. CASE j >= k + 2
      <4>1. j - 1 \in 1..Len(s) /\ j - 1 \in (k + 1)..Len(s) /\ (j - 1) + 1 = j
        BY <3>3, <1>1, <1>3, <1>4
      <4>2. s'[j] = s[j - 1]
        BY <4>1, <1>3
      <4> QED
        BY <4>1, <4>2 DEF Linked
    <3> QED
      BY <3>1, <3>2, <3>3, <1>1, <1>3, <1>4
  <2>2. ASSUME NEW j \in 1..Len(s) PROVE s[j] \in Linked'
    <3>1. CASE j <= k
      <4>1. j \in 1..Len(s') /\ s'[j] = s[j]
        BY <3>1, <1>1, <1>3, <1>4
      <4> QED
        BY <4>1 DEF Linked
    <3>2. CASE j > k
      <4>1. j + 1 \in 1..Len(s') /\ s'[j + 1] = s[j]
        BY <3>2, <1>1, <1>3, <1>4
      <4> QED
        BY <4>1 DEF Linked
    <3> QED
      BY <3>1, <3>2, <1>1, <1>4
  <2>3. el \in Linked'
    BY <1>1, <1>3, <1>4 DEF Linked
  <2> QED
    BY <2>1, <2>2, <2>3 DEF Linked
<1>6. Distinct'
  <2> SUFFICES ASSUME NEW i \in 1..Len(s'), NEW j \in 1..Len(s'), s'[i] = s'[j], i # j
               PROVE  FALSE
    BY DEF Distinct
  <2>1. \A m \in 1..Len(s) : s[m] # el
    BY DEF Linked
  <2>2. ASSUME NEW m \in 1..Len(s'), m # k + 1
        PROVE  \E o \in 1..Len(s) : s'[m] = s[o] /\ o = IF m <= k THEN m ELSE m - 1
    <3>1. CASE m <= k
      BY <3>1, <1>1, <1>3, <1>4
    <3>2. CASE m >= k + 2
      <4>1. /\ m - 1 \in 1..Len(s) /\ m - 1 \in (k + 1)..Len(s)
            /\ (m - 1) + 1 = m /\ ~(m <= k)
        BY <3>2, <1>1, <1>3, <1>4
      <4>2. s'[m] = s[m - 1]
        BY <4>1, <1>3
      <4> QED
        BY <4>1, <4>2
    <3> QED
      BY <3>1, <3>2, <2>2, <1>1, <1>3, <1>4
  <2>3. i # k + 1 /\ j # k + 1
    BY <2>1, <2>2, <1>1, <1>3, <1>4
  <2>4. PICK p \in 1..Len(s) : s'[i] = s[p] /\ p = IF i <= k THEN i ELSE i - 1
    BY <2>2, <2>3
  <2>5. PICK q \in 1..Len(s) : s'[j] = s[q] /\ q = IF j <= k THEN j ELSE j - 1
    BY <2>2, <2>3
  <2>6. p = q
    BY <2>4, <2>5 DEF Distinct
  <2> QED
    BY <2>3, <2>4, <2>5, <2>6, <1>1, <1>3, <1>4
<1> QED
  BY <1>3, <1>5, <1>6

\* The in-order insertion keeps the list in timestamp order.
LEMMA InsertSorted ==
    ASSUME RcuTypeOK, ListSorted,
           NEW el \in Nodes, el \notin Linked,
           NEW ndx \in Nat, NEW bytes \in Nat, NEW nsec \in Int,
           add_valid_block_in_order_secure(el, ndx, bytes, nsec)
    PROVE  ListSorted'
<1> DEFINE s == valid_blk_list
<1>1. s \in Seq(Nodes) /\ Len(s) \in Nat /\ elem \in [Nodes -> ElemType]
  BY LenProperties DEF RcuTypeOK
<1>2. PICK k \in 0..Len(s) :
         /\ k > 0 => elem[s[k]].nsec < nsec
         /\ \A j \in (k + 1)..Len(s) : elem[s[j]].nsec >= nsec
         /\ s' = ListAdd(s, k + 1, el)
  BY DEF add_valid_block_in_order_secure
<1>3. /\ s' \in Seq(Nodes)
      /\ Len(s') = Len(s) + 1
      /\ \A j \in 1..k : s'[j] = s[j]
      /\ s'[k + 1] = el
      /\ \A j \in (k + 1)..Len(s) : s'[j + 1] = s[j]
  <2>1. k + 1 \in 1..(Len(s) + 1) /\ (k + 1) - 1 = k
    BY <1>1
  <2> QED
    BY <1>1, <1>2, <2>1, InsertInList
<1>4. k \in Nat /\ k <= Len(s)
  BY <1>1
<1> DEFINE ts(j) == elem[s[j]].nsec
           ts2(j) == elem'[s'[j]].nsec
<1>5. /\ elem'[el].nsec = nsec
      /\ \A n \in Nodes \ {el} : elem'[n] = elem[n]
  BY <1>1 DEF add_valid_block_in_order_secure, ElemType
<1>6. \A j \in 1..Len(s) : s[j] \in Nodes \ {el} /\ ts(j) \in Int
  <2> SUFFICES ASSUME NEW j \in 1..Len(s)
               PROVE  s[j] \in Nodes \ {el} /\ ts(j) \in Int
    OBVIOUS
  <2>1. s[j] \in Nodes
    BY <1>1
  <2>2. s[j] \in Linked
    BY DEF Linked
  <2>3. elem[s[j]] \in ElemType
    BY <1>1, <2>1
  <2>4. elem[s[j]].nsec \in Int
    BY <2>3 DEF ElemType
  <2> QED
    BY <2>1, <2>2, <2>4
<1>7. /\ \A j \in 1..k : ts2(j) = ts(j)
      /\ ts2(k + 1) = nsec
      /\ \A j \in (k + 1)..Len(s) : ts2(j + 1) = ts(j)
  <2>1. \A j \in 1..k : ts2(j) = ts(j)
    BY <1>1, <1>3, <1>4, <1>5, <1>6
  <2>2. ts2(k + 1) = nsec
    BY <1>3, <1>5
  <2>3. ASSUME NEW j \in (k + 1)..Len(s) PROVE ts2(j + 1) = ts(j)
    <3>1. j \in 1..Len(s) /\ s'[j + 1] = s[j]
      BY <1>1, <1>3, <1>4
    <3> QED
      BY <3>1, <1>5, <1>6
  <2> QED
    BY <2>1, <2>2, <2>3
<1>8. \A i, j \in 1..Len(s) : i < j => ts(i) <= ts(j)
  BY DEF ListSorted
<1>9. k > 0 => ts(k) < nsec
  BY <1>2
<1>10. \A j \in (k + 1)..Len(s) : ts(j) >= nsec
  BY <1>2
<1> HIDE DEF ts, ts2
<1>11. \A j \in 1..k : ts(j) <= nsec
  BY <1>1, <1>4, <1>6, <1>8, <1>9
<1>12. \A i, j \in 1..(Len(s) + 1) : i < j => ts2(i) <= ts2(j)
  <2> SUFFICES ASSUME NEW i \in 1..(Len(s) + 1), NEW j \in 1..(Len(s) + 1), i < j
               PROVE  ts2(i) <= ts2(j)
    OBVIOUS
  <2>1. CASE j <= k
    BY <2>1, <1>1, <1>4, <1>7, <1>8
  <2>2. CASE j = k + 1
    BY <2>2, <1>1, <1>4, <1>7, <1>11
  <2>3. CASE j >= k + 2
    <3>0. j - 1 \in (k + 1)..Len(s) /\ j - 1 \in 1..Len(s) /\ (j - 1) + 1 = j
      BY <2>3, <1>1, <1>4
    <3>1. j - 1 \in (k + 1)..Len(s) /\ j - 1 \in 1..Len(s) /\ ts2(j) = ts(j - 1)
      BY <3>0, <1>7
    <3>2. CASE i <= k
      BY <3>1, <3>2, <1>1, <1>4, <1>7, <1>8
    <3>3. CASE i = k + 1
      BY <3>1, <3>3, <1>7, <1>10
    <3>4. CASE i >= k + 2
      <4>0. i - 1 \in (k + 1)..Len(s) /\ i - 1 \in 1..Len(s) /\ (i - 1) + 1 = i
        BY <3>4, <1>1, <1>4
      <4>1. i - 1 \in 1..Len(s) /\ ts2(i) = ts(i - 1) /\ i - 1 < j - 1
        BY <4>0, <1>7
      <4> QED
        BY <3>1, <4>1, <1>8
    <3> QED
      BY <3>2, <3>3, <3>4, <1>1, <1>4
  <2> QED
    BY <2>1, <2>2, <2>3, <1>1, <1>4
<1> QED
  BY <1>3, <1>12 DEF ListSorted, ts2

\* list_del_rcu (syscalls.c:354) unlinks exactly one element, keeps the order of the
\* others and leaves its successor in its next pointer.
LEMMA RemoveUnlinks ==
    ASSUME RcuTypeOK, Distinct, NEW k \in 1..Len(valid_blk_list), list_del_rcu(k)
    PROVE  /\ valid_blk_list' \in Seq(Nodes)
           /\ valid_blk_list[k] \in Nodes \cap Linked
           /\ Linked' = Linked \ {valid_blk_list[k]}
           /\ Distinct'
           /\ NextAt(k) \in Linked' \cup {HEAD}
           /\ ListSorted /\ UNCHANGED elem => ListSorted'
<1> DEFINE s == valid_blk_list
<1>1. s \in Seq(Nodes) /\ Len(s) \in Nat
  BY LenProperties DEF RcuTypeOK
<1>2. s' = ListDel(s, k)
  BY DEF list_del_rcu
<1>3. /\ s' \in Seq(Nodes)
      /\ Len(s') = Len(s) - 1
      /\ \A j \in 1..(k - 1) : s'[j] = s[j]
      /\ \A j \in k..(Len(s) - 1) : s'[j] = s[j + 1]
  BY <1>1, <1>2, ListDelProperties
<1>4. k \in Nat /\ 1 <= k /\ k <= Len(s)
  BY <1>1
<1>5. s[k] \in Nodes \cap Linked
  BY <1>1 DEF Linked
<1>6. Linked' = Linked \ {s[k]}
  <2>1. ASSUME NEW j \in 1..Len(s') PROVE s'[j] \in Linked \ {s[k]}
    <3>1. CASE j < k
      BY <3>1, <1>1, <1>3, <1>4 DEF Linked, Distinct
    <3>2. CASE j >= k
      <4>1. j + 1 \in 1..Len(s) /\ s'[j] = s[j + 1] /\ j + 1 # k
        BY <3>2, <1>1, <1>3, <1>4
      <4> QED
        BY <4>1 DEF Linked, Distinct
    <3> QED
      BY <3>1, <3>2, <1>1, <1>4
  <2>2. ASSUME NEW j \in 1..Len(s), j # k PROVE s[j] \in Linked'
    <3>1. CASE j < k
      <4>1. j \in 1..Len(s') /\ s'[j] = s[j]
        BY <3>1, <1>1, <1>3, <1>4
      <4> QED
        BY <4>1 DEF Linked
    <3>2. CASE j > k
      <4>1. j - 1 \in 1..Len(s') /\ s'[j - 1] = s[(j - 1) + 1] /\ (j - 1) + 1 = j
        BY <3>2, <1>1, <1>3, <1>4
      <4> QED
        BY <4>1 DEF Linked
    <3> QED
      BY <3>1, <3>2, <2>2, <1>1, <1>4
  <2> QED
    BY <2>1, <2>2 DEF Linked
<1>7. Distinct'
  <2> SUFFICES ASSUME NEW i \in 1..Len(s'), NEW j \in 1..Len(s'), s'[i] = s'[j]
               PROVE  i = j
    BY DEF Distinct
  <2>1. ASSUME NEW m \in 1..Len(s')
        PROVE  \E o \in 1..Len(s) : s'[m] = s[o] /\ o = IF m < k THEN m ELSE m + 1
    BY <1>1, <1>3, <1>4
  <2>2. PICK p \in 1..Len(s) : s'[i] = s[p] /\ p = IF i < k THEN i ELSE i + 1
    BY <2>1
  <2>3. PICK q \in 1..Len(s) : s'[j] = s[q] /\ q = IF j < k THEN j ELSE j + 1
    BY <2>1
  <2>4. p = q
    BY <2>2, <2>3 DEF Distinct
  <2> QED
    BY <2>2, <2>3, <2>4, <1>1, <1>3, <1>4
<1>8. NextAt(k) \in Linked' \cup {HEAD}
  <2>1. CASE k < Len(s)
    <3>1. k + 1 \in 1..Len(s) /\ s[k + 1] # s[k]
      BY <2>1, <1>1, <1>4 DEF Distinct
    <3> QED
      BY <2>1, <3>1, <1>6 DEF NextAt, Linked
  <2>2. CASE ~(k < Len(s))
    BY <2>2 DEF NextAt
  <2> QED
    BY <2>1, <2>2
<1>9. ListSorted /\ UNCHANGED elem => ListSorted'
  <2> SUFFICES ASSUME ListSorted, UNCHANGED elem,
                      NEW i \in 1..Len(s'), NEW j \in 1..Len(s'), i < j
               PROVE  elem[s'[i]].nsec <= elem[s'[j]].nsec
    BY DEF ListSorted
  <2>1. ASSUME NEW m \in 1..Len(s')
        PROVE  \E o \in 1..Len(s) : s'[m] = s[o] /\ o = IF m < k THEN m ELSE m + 1
    BY <1>1, <1>3, <1>4
  <2>2. PICK p \in 1..Len(s) : s'[i] = s[p] /\ p = IF i < k THEN i ELSE i + 1
    BY <2>1
  <2>3. PICK q \in 1..Len(s) : s'[j] = s[q] /\ q = IF j < k THEN j ELSE j + 1
    BY <2>1
  <2>4. p < q
    BY <2>2, <2>3, <1>1, <1>3, <1>4
  <2> QED
    BY <2>2, <2>3, <2>4 DEF ListSorted
<1> QED
  BY <1>3, <1>5, <1>6, <1>7, <1>8, <1>9
=============================================================================
