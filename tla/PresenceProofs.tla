--------------------------- MODULE PresenceProofs ---------------------------
(***************************************************************************)
(* Proofs about Presence, for every set of names, every spelling of them   *)
(* and every set of idle times.  A list without duplicates is determined   *)
(* by Has and Get; the lemmas below say what each list operation does to   *)
(* these two, and the theorems never look at a position again.             *)
(***************************************************************************)
EXTENDS Presence, SequenceTheorems, WellFoundedInduction, TLAPS

(***************************************************************************)
(* Sequences: removing and inserting one position.                         *)
(***************************************************************************)

\* Removing position i keeps the order of the others: the unlinking of a
\* node by imcomm_internal_delete_buddy, buddy_offline and remove_from_list.
LEMMA RemoveAtProperties ==
  ASSUME NEW S, NEW s \in Seq(S), NEW i \in 1..Len(s)
  PROVE  /\ RemoveAt(s, i) \in Seq(S)
         /\ Len(RemoveAt(s, i)) = Len(s) - 1
         /\ \A j \in 1..(Len(s) - 1) :
              RemoveAt(s, i)[j] = IF j < i THEN s[j] ELSE s[j + 1]
<1> DEFINE a == SubSeq(s, 1, i - 1)
           b == SubSeq(s, i + 1, Len(s))
<1>1. /\ a \in Seq(S)
      /\ Len(a) = i - 1
      /\ \A j \in 1..(i - 1) : a[j] = s[j]
  BY SubSeqProperties, ElementOfSeq, LenProperties
<1>2. /\ b \in Seq(S)
      /\ Len(b) = Len(s) - i
      /\ \A j \in 1..(Len(s) - i) : b[j] = s[i + j]
  <2>1. \A j \in (i + 1)..Len(s) : s[j] \in S
    BY ElementOfSeq, LenProperties
  <2>2. i + 1 \in Int /\ Len(s) \in Int
    BY LenProperties
  <2> QED BY <2>1, <2>2, SubSeqProperties, LenProperties
<1>3. RemoveAt(s, i) = a \o b
  BY DEF RemoveAt
<1> HIDE DEF a, b
<1>4. /\ a \o b \in Seq(S)
      /\ Len(a \o b) = Len(a) + Len(b)
      /\ \A j \in 1..(Len(a) + Len(b)) :
           (a \o b)[j] = IF j <= Len(a) THEN a[j] ELSE b[j - Len(a)]
  BY <1>1, <1>2, ConcatProperties
<1>5. Len(s) \in Nat
  BY LenProperties
<1> QED
  BY <1>1, <1>2, <1>3, <1>4, <1>5

\* Inserting at i shifts the rest by one: the linking of buddy_online.
LEMMA InsertAtProperties ==
  ASSUME NEW S, NEW s \in Seq(S), NEW i \in 1..(Len(s) + 1), NEW e \in S
  PROVE  /\ InsertAt(s, i, e) \in Seq(S)
         /\ Len(InsertAt(s, i, e)) = Len(s) + 1
         /\ \A j \in 1..(Len(s) + 1) :
              InsertAt(s, i, e)[j] = IF j < i THEN s[j]
                                     ELSE IF j = i THEN e ELSE s[j - 1]
<1> DEFINE a == SubSeq(s, 1, i - 1)
           b == SubSeq(s, i, Len(s))
           c == a \o <<e>>
<1>1. /\ a \in Seq(S)
      /\ Len(a) = i - 1
      /\ \A j \in 1..(i - 1) : a[j] = s[j]
  BY SubSeqProperties, ElementOfSeq, LenProperties
<1>2. /\ b \in Seq(S)
      /\ Len(b) = Len(s) - i + 1
      /\ \A j \in 1..(Len(s) - i + 1) : b[j] = s[i + j - 1]
  <2>1. \A j \in i..Len(s) : s[j] \in S
    BY ElementOfSeq, LenProperties
  <2>2. i \in Int /\ Len(s) \in Int
    BY LenProperties
  <2> QED BY <2>1, <2>2, SubSeqProperties, LenProperties
<1>3. /\ c \in Seq(S)
      /\ Len(c) = i
      /\ \A j \in 1..i : c[j] = IF j < i THEN s[j] ELSE e
  <2>1. <<e>> \in Seq(S) /\ Len(<<e>>) = 1 /\ <<e>>[1] = e
    OBVIOUS
  <2> HIDE DEF a
  <2> QED BY <1>1, <2>1, ConcatProperties
<1>4. InsertAt(s, i, e) = c \o b
  BY DEF InsertAt
<1> HIDE DEF a, b, c
<1>5. /\ c \o b \in Seq(S)
      /\ Len(c \o b) = Len(c) + Len(b)
      /\ \A j \in 1..(Len(c) + Len(b)) :
           (c \o b)[j] = IF j <= Len(c) THEN c[j] ELSE b[j - Len(c)]
  BY <1>2, <1>3, ConcatProperties
<1>6. Len(s) \in Nat
  BY LenProperties
<1> QED
  BY <1>2, <1>3, <1>4, <1>5, <1>6

(***************************************************************************)
(* Lists without duplicates.                                               *)
(***************************************************************************)

\* The traversal that stops at the first match finds the only one.
LEMMA OnlyMatch ==
  ASSUME NEW S, NEW list \in Seq(S), Unique(list),
         NEW i \in 1..Len(list)
  PROVE  /\ Has(list, list[i].sn)
         /\ First(list, list[i].sn) = i
         /\ Get(list, list[i].sn) = list[i]
<1> DEFINE P(k) == list[k].sn = list[i].sn /\ \A j \in 1..(k - 1) : list[j].sn # list[i].sn
<1>1. P(i)
  BY LenProperties DEF Unique
<1>2. \A k \in 1..Len(list) : P(k) => k = i
  BY DEF Unique
<1>3. (CHOOSE k \in 1..Len(list) : P(k)) = i
  <2> HIDE DEF P
  <2> QED BY <1>1, <1>2
<1> QED
  BY <1>3 DEF Has, First, Get

\* The same, from the name.
LEMMA FirstOfHas ==
  ASSUME NEW S, NEW list \in Seq(S), Unique(list), NEW sn, Has(list, sn)
  PROVE  /\ First(list, sn) \in 1..Len(list)
         /\ list[First(list, sn)].sn = sn
         /\ Get(list, sn) = list[First(list, sn)]
         /\ Get(list, sn).sn = sn
         /\ Get(list, sn) \in S
         /\ \A j \in 1..Len(list) : list[j].sn = sn => j = First(list, sn)
<1>1. PICK i \in 1..Len(list) : list[i].sn = sn
  BY DEF Has
<1>2. First(list, sn) = i
  BY <1>1, OnlyMatch
<1> QED
  BY <1>1, <1>2, ElementOfSeq DEF Get, Unique

\* r is list with e in the place of, or added as, the entry named sn.
Puts(r, list, sn, e) ==
  /\ Has(r, sn)
  /\ Get(r, sn) = e
  /\ \A x : x # sn => /\ Has(r, x) <=> Has(list, x)
                      /\ Has(list, x) => Get(r, x) = Get(list, x)

\* r is list without the entry named sn.
Drops(r, list, sn) ==
  /\ ~Has(r, sn)
  /\ \A x : x # sn => /\ Has(r, x) <=> Has(list, x)
                      /\ Has(list, x) => Get(r, x) = Get(list, x)

\* Unlinking the first match removes the name and nothing else.
LEMMA UnlinkProperties ==
  ASSUME NEW S, NEW list \in Seq(S), Unique(list), NEW sn
  PROVE  /\ Unlink(list, sn) \in Seq(S)
         /\ Unique(Unlink(list, sn))
         /\ Drops(Unlink(list, sn), list, sn)
         /\ Len(Unlink(list, sn)) = IF Has(list, sn) THEN Len(list) - 1 ELSE Len(list)
         /\ Sorted(list) => Sorted(Unlink(list, sn))
<1>1. CASE ~Has(list, sn)
  BY <1>1 DEF Unlink, Drops
<1>2. CASE Has(list, sn)
  <2> DEFINE k == First(list, sn)
             r == Unlink(list, sn)
  <2>1. /\ k \in 1..Len(list)
        /\ list[k].sn = sn
        /\ \A j \in 1..Len(list) : list[j].sn = sn => j = k
    BY <1>2, FirstOfHas
  <2>2. r = RemoveAt(list, k)
    BY <1>2 DEF Unlink
  <2> HIDE DEF k, r
  <2>3. Len(list) \in Nat
    BY LenProperties
  <2>4. /\ r \in Seq(S)
        /\ Len(r) = Len(list) - 1
        /\ \A j \in 1..(Len(list) - 1) : r[j] = IF j < k THEN list[j] ELSE list[j + 1]
    BY <2>1, <2>2, RemoveAtProperties
  <2>5. Unique(r)
    BY <2>1, <2>3, <2>4 DEF Unique
  <2>6. Sorted(list) => Sorted(r)
    BY <2>1, <2>3, <2>4 DEF Sorted
  <2>7. ~Has(r, sn)
    BY <2>1, <2>3, <2>4 DEF Has
  <2>8. ASSUME NEW x, x # sn
        PROVE  /\ Has(r, x) => Has(list, x)
               /\ Has(list, x) => Has(r, x) /\ Get(r, x) = Get(list, x)
    <3>1. Has(r, x) => Has(list, x)
      BY <2>1, <2>3, <2>4 DEF Has
    <3>2. ASSUME Has(list, x)
          PROVE  Has(r, x) /\ Get(r, x) = Get(list, x)
      <4>1. PICK i \in 1..Len(list) : list[i].sn = x
        BY <3>2 DEF Has
      <4>2. i # k
        BY <4>1, <2>1, <2>8
      <4> DEFINE m == IF i < k THEN i ELSE i - 1
      <4>3. m \in 1..Len(r) /\ r[m] = list[i]
        BY <2>1, <2>3, <2>4, <4>2
      <4> HIDE DEF m
      <4>4. Has(r, r[m].sn) /\ Get(r, r[m].sn) = r[m]
        BY <2>4, <2>5, <4>3, OnlyMatch
      <4>5. Get(list, list[i].sn) = list[i]
        BY OnlyMatch
      <4> QED BY <4>1, <4>3, <4>4, <4>5
    <3> QED BY <3>1, <3>2
  <2> QED
    BY <1>2, <2>4, <2>5, <2>6, <2>7, <2>8 DEF Drops, r
<1> QED BY <1>1, <1>2

\* Changing the first match in place changes that name and nothing else.
LEMMA ReplaceProperties ==
  ASSUME NEW S, NEW list \in Seq(S), Unique(list),
         NEW sn, Has(list, sn), NEW e \in S, e.sn = sn
  PROVE  LET r == [list EXCEPT ![First(list, sn)] = e]
         IN  /\ r \in Seq(S)
             /\ Unique(r)
             /\ Puts(r, list, sn, e)
             /\ Len(r) = Len(list)
             /\ Sorted(list) => Sorted(r)
<1> DEFINE k == First(list, sn)
           r == [list EXCEPT ![k] = e]
<1>1. /\ k \in 1..Len(list)
      /\ list[k].sn = sn
      /\ \A j \in 1..Len(list) : list[j].sn = sn => j = k
  BY FirstOfHas
<1> HIDE DEF k
<1>2. /\ r \in Seq(S)
      /\ Len(r) = Len(list)
      /\ \A j \in 1..Len(list) : r[j] = IF j = k THEN e ELSE list[j]
  BY <1>1, ExceptSeq
<1> HIDE DEF r
<1>3. \A j \in 1..Len(list) : r[j].sn = list[j].sn
  BY <1>1, <1>2
<1>4. Unique(r)
  BY <1>2, <1>3 DEF Unique
<1>5. Sorted(list) => Sorted(r)
  BY <1>2, <1>3 DEF Sorted
<1>6. Has(r, sn) /\ Get(r, sn) = e
  <2>1. r[k] = e /\ r[k].sn = sn /\ k \in 1..Len(r)
    BY <1>1, <1>2
  <2> QED BY <1>2, <1>4, <2>1, OnlyMatch
<1>7. ASSUME NEW x, x # sn
      PROVE  /\ Has(r, x) => Has(list, x)
             /\ Has(list, x) => Has(r, x) /\ Get(r, x) = Get(list, x)
  <2>1. Has(r, x) => Has(list, x)
    BY <1>2, <1>3 DEF Has
  <2>2. ASSUME Has(list, x)
        PROVE  Has(r, x) /\ Get(r, x) = Get(list, x)
    <3>1. PICK i \in 1..Len(list) : list[i].sn = x
      BY <2>2 DEF Has
    <3>2. i # k /\ i \in 1..Len(r) /\ r[i] = list[i]
      BY <3>1, <1>1, <1>2, <1>7
    <3>3. Has(r, r[i].sn) /\ Get(r, r[i].sn) = r[i]
      BY <1>2, <1>4, <3>2, OnlyMatch
    <3>4. Get(list, list[i].sn) = list[i]
      BY OnlyMatch
    <3> QED BY <3>1, <3>2, <3>3, <3>4
  <2> QED BY <2>1, <2>2
<1> QED
  BY <1>2, <1>4, <1>5, <1>6, <1>7 DEF Puts, r, k

\* A new name put at any position is added and nothing else changes.
LEMMA InsertProperties ==
  ASSUME NEW S, NEW list \in Seq(S), Unique(list),
         NEW e \in S, ~Has(list, e.sn), NEW k \in 1..(Len(list) + 1),
         NEW r \in Seq(S), Len(r) = Len(list) + 1,
         \A j \in 1..(Len(list) + 1) :
            r[j] = IF j < k THEN list[j] ELSE IF j = k THEN e ELSE list[j - 1]
  PROVE  /\ Unique(r)
         /\ Puts(r, list, e.sn, e)
<1>1. Len(list) \in Nat
  BY LenProperties
<1>2. \A j \in 1..Len(list) : list[j].sn # e.sn
  BY DEF Has
<1>3. Unique(r)
  <2> SUFFICES ASSUME NEW i \in 1..Len(r), NEW j \in 1..Len(r), r[i].sn = r[j].sn
               PROVE  i = j
    BY DEF Unique
  <2> DEFINE old(m) == IF m < k THEN m ELSE m - 1
  <2>1. \A m \in 1..Len(r) :
           m # k => old(m) \in 1..Len(list) /\ r[m] = list[old(m)]
    BY <1>1
  <2>2. r[k] = e
    BY <1>1
  <2>3. i = k <=> j = k
    <3> HIDE DEF old
    <3>1. \A m \in 1..Len(r) : m # k => r[m].sn # r[k].sn
      BY <1>2, <2>1, <2>2
    <3> QED BY <3>1
  <2>4. ASSUME i # k, j # k PROVE i = j
    <3>1. old(i) \in 1..Len(list) /\ r[i] = list[old(i)]
      BY <2>1, <2>4
    <3>2. old(j) \in 1..Len(list) /\ r[j] = list[old(j)]
      BY <2>1, <2>4
    <3>3. old(i) = old(j)
      BY <3>1, <3>2 DEF Unique
    <3> QED BY <3>3, <2>4, <1>1
  <2> QED BY <2>3, <2>4
<1>4. Has(r, e.sn) /\ Get(r, e.sn) = e
  <2>1. k \in 1..Len(r) /\ r[k] = e
    BY <1>1
  <2> QED BY <2>1, <1>3, OnlyMatch
<1>5. ASSUME NEW x, x # e.sn
      PROVE  /\ Has(r, x) => Has(list, x)
             /\ Has(list, x) => Has(r, x) /\ Get(r, x) = Get(list, x)
  <2>1. ASSUME Has(r, x) PROVE Has(list, x)
    <3>1. PICK i \in 1..Len(r) : r[i].sn = x
      BY <2>1 DEF Has
    <3>2. i # k
      BY <3>1, <1>5
    <3> DEFINE m == IF i < k THEN i ELSE i - 1
    <3>3. m \in 1..Len(list) /\ list[m] = r[i]
      BY <3>2, <1>1
    <3> QED BY <3>1, <3>3 DEF Has
  <2>2. ASSUME Has(list, x)
        PROVE  Has(r, x) /\ Get(r, x) = Get(list, x)
    <3>1. PICK i \in 1..Len(list) : list[i].sn = x
      BY <2>2 DEF Has
    <3> DEFINE m == IF i < k THEN i ELSE i + 1
    <3>2. m \in 1..Len(r) /\ r[m] = list[i]
      BY <1>1
    <3> HIDE DEF m
    <3>3. Has(r, r[m].sn) /\ Get(r, r[m].sn) = r[m]
      BY <1>3, <3>2, OnlyMatch
    <3>4. Get(list, list[i].sn) = list[i]
      BY OnlyMatch
    <3> QED BY <3>1, <3>2, <3>3, <3>4
  <2> QED BY <2>1, <2>2
<1> QED BY <1>3, <1>4, <1>5 DEF Puts

\* A nonempty set of positions has a least element.
LEMMA LeastPosition ==
  ASSUME NEW T, T \subseteq Nat, T # {}
  PROVE  \E i \in T : \A j \in T : i <= j
<1>1. PICK i \in T : \A j \in T : ~(<<j, i>> \in OpToRel(<, Nat))
  BY WFMin, NatLessThanWellFounded
<1>2. \A j \in T : ~(j < i)
  BY <1>1 DEF OpToRel
<1>3. \A j \in T : i <= j
  BY <1>2
<1> QED BY <1>3

\* A strictly sorted list has no duplicates.
LEMMA SortedUnique ==
  ASSUME NEW S, NEW list \in Seq(S), \A e \in S : e.sn \in Nat, Sorted(list)
  PROVE  Unique(list)
<1> SUFFICES ASSUME NEW i \in 1..Len(list), NEW j \in 1..Len(list), list[i].sn = list[j].sn
             PROVE  i = j
  BY DEF Unique
<1>1. list[i].sn \in Nat /\ list[j].sn \in Nat
  BY ElementOfSeq
<1>2. ~(i < j) /\ ~(j < i)
  BY <1>1 DEF Sorted
<1> QED BY <1>2, LenProperties

\* Simplified names are numbers.
LEMMA SnsNat == Sns \subseteq Nat
  BY NamesAssumption DEF Sns

\* So a sorted program list has none.
LEMMA BuddiesUnique ==
  ASSUME NEW list \in Seq(Buddy), Sorted(list)
  PROVE  Unique(list)
<1>1. \A b \in Buddy : b.sn \in Nat
  BY SnsNat DEF Buddy
<1> QED BY <1>1, SortedUnique

(***************************************************************************)
(* The library's operations.                                               *)
(***************************************************************************)

\* imcomm_internal_add_buddy adds a name that was not there.
LEMMA AddBuddy ==
  ASSUME buddies_online \in Seq(LibBuddy), Unique(buddies_online),
         NEW sn \in Sns, ~Has(buddies_online, sn),
         NEW t \in Nat, NEW isaway \in BOOLEAN
  PROVE  LET r == imcomm_internal_add_buddy(sn, t, isaway)
         IN  /\ r \in Seq(LibBuddy)
             /\ Unique(r)
             /\ Puts(r, buddies_online, sn, [sn |-> sn, isaway |-> isaway, idletime |-> t])
<1> DEFINE e == [sn |-> sn, isaway |-> isaway, idletime |-> t]
           r == imcomm_internal_add_buddy(sn, t, isaway)
           n == Len(buddies_online)
<1>1. e \in LibBuddy /\ e.sn = sn
  BY DEF LibBuddy
<1>2. r = Append(buddies_online, e)
  BY DEF imcomm_internal_add_buddy
<1> HIDE DEF e, r
<1>3. n \in Nat
  BY LenProperties
<1>4. /\ r \in Seq(LibBuddy)
      /\ Len(r) = n + 1
      /\ \A j \in 1..n : r[j] = buddies_online[j]
      /\ r[n + 1] = e
  BY <1>1, <1>2, AppendProperties
<1>5. n + 1 \in 1..(n + 1)
  BY <1>3
<1>6. \A j \in 1..(n + 1) :
         r[j] = IF j < n + 1 THEN buddies_online[j]
                ELSE IF j = n + 1 THEN e ELSE buddies_online[j - 1]
  BY <1>3, <1>4
<1>7. ~Has(buddies_online, e.sn)
  BY <1>1
<1>8. Unique(r) /\ Puts(r, buddies_online, e.sn, e)
  BY <1>1, <1>4, <1>5, <1>6, <1>7, InsertProperties
<1> QED BY <1>1, <1>4, <1>8 DEF e, r

\* imcomm_update_buddy_times sets the idle time of a name that is there.
LEMMA UpdateTimes ==
  ASSUME NEW list \in Seq(LibBuddy), Unique(list), NEW sn, NEW t \in Nat
  PROVE  LET r == imcomm_update_buddy_times(list, sn, t)
         IN  /\ r \in Seq(LibBuddy)
             /\ Unique(r)
             /\ ~Has(list, sn) => r = list
             /\ Has(list, sn) => Puts(r, list, sn, [Get(list, sn) EXCEPT !.idletime = t])
<1> DEFINE r == imcomm_update_buddy_times(list, sn, t)
<1>0. /\ Len(list) \in Nat
      /\ list \in [1..Len(list) -> LibBuddy]
  BY LenProperties
<1>1. CASE ~Has(list, sn)
  <2>1. r = list
    BY <1>0, <1>1 DEF imcomm_update_buddy_times, Has
  <2> QED BY <1>1, <2>1
<1>2. CASE Has(list, sn)
  <2> DEFINE k == First(list, sn)
             e == [Get(list, sn) EXCEPT !.idletime = t]
  <2>1. /\ k \in 1..Len(list)
        /\ list[k].sn = sn
        /\ Get(list, sn) = list[k]
        /\ Get(list, sn) \in LibBuddy
        /\ \A j \in 1..Len(list) : list[j].sn = sn => j = k
    BY <1>2, FirstOfHas
  <2>2. e \in LibBuddy /\ e.sn = sn
    BY <2>1 DEF LibBuddy
  <2>3. r = [list EXCEPT ![k] = e]
    <3> HIDE DEF k
    <3> QED BY <1>0, <2>1 DEF imcomm_update_buddy_times
  <2> HIDE DEF e
  <2>4. LET q == [list EXCEPT ![First(list, sn)] = e]
        IN  q \in Seq(LibBuddy) /\ Unique(q) /\ Puts(q, list, sn, e)
    BY <1>2, <2>2, ReplaceProperties
  <2> HIDE DEF r
  <2>5. r \in Seq(LibBuddy) /\ Unique(r) /\ Puts(r, list, sn, e)
    BY <2>3, <2>4
  <2> QED BY <1>2, <2>5 DEF e, r
<1> QED BY <1>1, <1>2

\* imcomm_update_buddy_away sets the flag, and Differ tells whether it turned.
LEMMA UpdateAway ==
  ASSUME NEW list \in Seq(LibBuddy), Unique(list), NEW sn, Has(list, sn),
         NEW isaway \in BOOLEAN
  PROVE  LET r == imcomm_update_buddy_away(list, sn, isaway)
         IN  /\ r \in Seq(LibBuddy)
             /\ Unique(r)
             /\ Differ(list, sn, isaway) = {} <=> Get(list, sn).isaway = isaway
             /\ Puts(r, list, sn, [Get(list, sn) EXCEPT !.isaway = isaway])
<1> DEFINE k == First(list, sn)
           e == [Get(list, sn) EXCEPT !.isaway = isaway]
           r == imcomm_update_buddy_away(list, sn, isaway)
           D == Differ(list, sn, isaway)
<1>0. /\ Len(list) \in Nat
      /\ list \in [1..Len(list) -> LibBuddy]
  BY LenProperties
<1>1. /\ k \in 1..Len(list)
      /\ list[k].sn = sn
      /\ Get(list, sn) = list[k]
      /\ Get(list, sn) \in LibBuddy
      /\ \A j \in 1..Len(list) : list[j].sn = sn => j = k
  BY FirstOfHas
<1>2. e \in LibBuddy /\ e.sn = sn
  BY <1>1 DEF LibBuddy
<1>3. D = IF Get(list, sn).isaway = isaway THEN {} ELSE {k}
  <2> HIDE DEF k
  <2> QED BY <1>1 DEF Differ
<1>4. r = [list EXCEPT ![k] = e]
  <2> HIDE DEF k
  <2>1. CASE Get(list, sn).isaway = isaway
    <3>1. r = list
      BY <1>3, <2>1 DEF imcomm_update_buddy_away
    <3>2. e = list[k]
      BY <1>1, <2>1 DEF LibBuddy
    <3> QED BY <1>0, <1>1, <3>1, <3>2
  <2>2. CASE Get(list, sn).isaway # isaway
    <3>1. D = {k}
      BY <1>3, <2>2
    <3>2. (CHOOSE m \in {k} : \A j \in {k} : m <= j) = k
      BY <1>0, <1>1
    <3> QED BY <1>0, <1>1, <3>1, <3>2 DEF imcomm_update_buddy_away
  <2> QED BY <2>1, <2>2
<1> HIDE DEF e
<1>5. LET q == [list EXCEPT ![First(list, sn)] = e]
      IN  q \in Seq(LibBuddy) /\ Unique(q) /\ Puts(q, list, sn, e)
  BY <1>2, ReplaceProperties
<1> HIDE DEF r
<1>6. r \in Seq(LibBuddy) /\ Unique(r) /\ Puts(r, list, sn, e)
  BY <1>4, <1>5
<1>7. D = {} <=> Get(list, sn).isaway = isaway
  BY <1>3
<1> QED BY <1>6, <1>7 DEF e, r

(***************************************************************************)
(* The program's operations.                                               *)
(***************************************************************************)

\* The entry that buddy_online links in.
Fresh(sn) == [sn |-> sn, away |-> FALSE, idle |-> FALSE, idletime |-> 0]

\* buddy_online keeps a sorted list sorted when the name is not on it yet.
LEMMA BuddyOnline ==
  ASSUME NEW list \in Seq(Buddy), Sorted(list), NEW sn \in Sns, ~Has(list, sn)
  PROVE  LET r == buddy_online(list, sn)
         IN  /\ r \in Seq(Buddy)
             /\ Sorted(r)
             /\ Puts(r, list, sn, Fresh(sn))
             /\ Len(r) = Len(list) + 1
<1> DEFINE larger == {i \in 1..Len(list) : sn < list[i].sn}
           pos    == IF larger = {} THEN Len(list) + 1
                     ELSE CHOOSE i \in larger : \A j \in larger : i <= j
           r == buddy_online(list, sn)
           e == Fresh(sn)
<1>1. /\ Len(list) \in Nat
      /\ list \in [1..Len(list) -> Buddy]
  BY LenProperties
<1>2. sn \in Nat /\ \A b \in Buddy : b.sn \in Nat
  BY SnsNat DEF Buddy
<1>3. \A i \in 1..Len(list) : list[i].sn \in Nat /\ list[i].sn # sn
  BY <1>1, <1>2 DEF Has
<1>4. /\ pos \in 1..(Len(list) + 1)
      /\ \A i \in 1..Len(list) : i < pos => list[i].sn < sn
      /\ \A i \in 1..Len(list) : i >= pos => sn < list[i].sn
  <2>1. CASE larger = {}
    BY <2>1, <1>1, <1>2, <1>3
  <2>2. CASE larger # {}
    <3>1. larger \subseteq Nat
      BY <1>1
    <3>2. \E i \in larger : \A j \in larger : i <= j
      <4> HIDE DEF larger
      <4> QED BY <2>2, <3>1, LeastPosition
    <3>3. pos \in larger /\ \A j \in larger : pos <= j
      <4> HIDE DEF larger
      <4> QED BY <2>2, <3>2
    <3> HIDE DEF pos
    <3>4. \A i \in 1..Len(list) : i < pos => list[i].sn < sn
      BY <3>1, <3>3, <1>2, <1>3
    <3>5. ASSUME NEW i \in 1..Len(list), i >= pos
          PROVE  sn < list[i].sn
      <4>1. pos \in 1..Len(list) /\ sn < list[pos].sn
        BY <3>3
      <4>2. i = pos \/ list[pos].sn < list[i].sn
        BY <3>5, <4>1, <1>1 DEF Sorted
      <4> QED BY <4>1, <4>2, <1>2, <1>3
    <3> QED BY <1>1, <3>3, <3>4, <3>5
  <2> QED BY <2>1, <2>2
<1>5. e \in Buddy /\ e.sn = sn
  BY DEF Fresh, Buddy
<1>6. r = InsertAt(list, pos, e)
  BY DEF buddy_online, Fresh
<1> HIDE DEF larger, pos, r, e
<1>7. /\ r \in Seq(Buddy)
      /\ Len(r) = Len(list) + 1
      /\ \A j \in 1..(Len(list) + 1) :
           r[j] = IF j < pos THEN list[j] ELSE IF j = pos THEN e ELSE list[j - 1]
  <2>1. pos \in 1..(Len(list) + 1) /\ e \in Buddy
    BY <1>4, <1>5
  <2>2. InsertAt(list, pos, e) \in Seq(Buddy)
    BY <2>1, InsertAtProperties
  <2>3. Len(InsertAt(list, pos, e)) = Len(list) + 1
    BY <2>1, InsertAtProperties
  <2>4. \A j \in 1..(Len(list) + 1) :
           InsertAt(list, pos, e)[j] =
              IF j < pos THEN list[j] ELSE IF j = pos THEN e ELSE list[j - 1]
    BY <2>1, InsertAtProperties
  <2> QED BY <1>6, <2>2, <2>3, <2>4
<1>8. Unique(list)
  BY <1>2, SortedUnique
<1>9. Puts(r, list, sn, e)
  <2>1. ~Has(list, e.sn)
    BY <1>5
  <2>2. Puts(r, list, e.sn, e)
    BY <1>4, <1>5, <1>7, <1>8, <2>1, InsertProperties
  <2> QED BY <1>5, <2>2
<1>10. Sorted(r)
  <2> SUFFICES ASSUME NEW i \in 1..Len(r), NEW j \in 1..Len(r), i < j
               PROVE  r[i].sn < r[j].sn
    BY DEF Sorted
  <2>1. CASE j < pos
    BY <2>1, <1>1, <1>4, <1>7 DEF Sorted
  <2>2. CASE j = pos
    <3>1. r[i] = list[i] /\ r[j] = e /\ i \in 1..Len(list)
      BY <2>2, <1>1, <1>4, <1>7
    <3> QED BY <3>1, <2>2, <1>4, <1>5
  <2>3. CASE j > pos
    <3>1. r[j] = list[j - 1] /\ j - 1 \in 1..Len(list) /\ j - 1 >= pos
      BY <2>3, <1>1, <1>4, <1>7
    <3>2. CASE i < pos
      <4>1. r[i] = list[i] /\ i \in 1..Len(list) /\ i < j - 1
        BY <3>2, <2>3, <1>1, <1>4, <1>7
      <4> QED BY <4>1, <3>1 DEF Sorted
    <3>3. CASE i = pos
      <4>1. r[i] = e
        BY <3>3, <1>4, <1>7
      <4> QED BY <4>1, <3>1, <1>4, <1>5
    <3>4. CASE i > pos
      <4>1. r[i] = list[i - 1] /\ i - 1 \in 1..Len(list) /\ i - 1 < j - 1
        BY <3>4, <1>1, <1>4, <1>7
      <4> QED BY <4>1, <3>1 DEF Sorted
    <3> QED BY <3>2, <3>3, <3>4, <1>4
  <2> QED BY <2>1, <2>2, <2>3, <1>4, <1>7
<1> QED BY <1>7, <1>9, <1>10 DEF e, r

\* What an in-place change of one entry of a sorted program list preserves.
Edits(r, list, sn, e) ==
  /\ r \in Seq(Buddy)
  /\ Sorted(r)
  /\ Puts(r, list, sn, e)
  /\ Len(r) = Len(list)

\* Any in-place change of the entry of a name on the list is an edit.
LEMMA EditProperties ==
  ASSUME NEW list \in Seq(Buddy), Sorted(list), NEW sn, Has(list, sn),
         NEW e \in Buddy, e.sn = sn
  PROVE  Edits([list EXCEPT ![First(list, sn)] = e], list, sn, e)
<1>1. Unique(list)
  BY BuddiesUnique
<1> QED BY <1>1, ReplaceProperties DEF Edits

\* The entry found is well formed and carries the name.
LEMMA GetBuddy ==
  ASSUME NEW list \in Seq(Buddy), Sorted(list), NEW sn, Has(list, sn)
  PROVE  /\ Get(list, sn) \in Buddy
         /\ Get(list, sn).sn = sn
         /\ First(list, sn) \in 1..Len(list)
         /\ Get(list, sn) = list[First(list, sn)]
<1>1. Unique(list)
  BY BuddiesUnique
<1> QED BY <1>1, FirstOfHas

\* buddy_idle sets the idle time and the mark that follows from it.
LEMMA BuddyIdle ==
  ASSUME NEW list \in Seq(Buddy), Sorted(list), NEW sn, Has(list, sn), NEW t \in Nat
  PROVE  Edits(buddy_idle(list, sn, t), list, sn,
               [Get(list, sn) EXCEPT !.idletime = t, !.idle = (t >= IdleAfter)])
<1> DEFINE m == (t >= IdleAfter)
           e == [Get(list, sn) EXCEPT !.idletime = t, !.idle = m]
<1>1. /\ Get(list, sn) \in Buddy
      /\ Get(list, sn).sn = sn
      /\ First(list, sn) \in 1..Len(list)
      /\ Get(list, sn) = list[First(list, sn)]
  BY GetBuddy
<1>2. m \in BOOLEAN
  BY DEF IdleAfter
<1>3. buddy_idle(list, sn, t) = [list EXCEPT ![First(list, sn)] = e]
  BY <1>1, LenProperties DEF buddy_idle, Get
<1> HIDE DEF m
<1>4. e \in Buddy
  BY <1>1, <1>2 DEF Buddy
<1>5. e.sn = sn
  BY <1>1 DEF Buddy
<1> HIDE DEF e
<1>6. Edits([list EXCEPT ![First(list, sn)] = e], list, sn, e)
  BY <1>4, <1>5, EditProperties
<1>7. Edits(buddy_idle(list, sn, t), list, sn, e)
  BY <1>3, <1>6
<1> QED BY <1>7 DEF e, m

\* buddy_away and buddy_unaway set the flag.
LEMMA BuddyAway ==
  ASSUME NEW list \in Seq(Buddy), Sorted(list), NEW sn, Has(list, sn)
  PROVE  /\ Edits(buddy_away(list, sn), list, sn, [Get(list, sn) EXCEPT !.away = TRUE])
         /\ Edits(buddy_unaway(list, sn), list, sn, [Get(list, sn) EXCEPT !.away = FALSE])
<1>1. /\ Get(list, sn) \in Buddy
      /\ Get(list, sn).sn = sn
      /\ First(list, sn) \in 1..Len(list)
      /\ Get(list, sn) = list[First(list, sn)]
  BY GetBuddy
<1> DEFINE e(b) == [Get(list, sn) EXCEPT !.away = b]
<1>2. \A b \in BOOLEAN : e(b) \in Buddy /\ e(b).sn = sn
  BY <1>1 DEF Buddy
<1>3. /\ buddy_away(list, sn) = [list EXCEPT ![First(list, sn)] = e(TRUE)]
      /\ buddy_unaway(list, sn) = [list EXCEPT ![First(list, sn)] = e(FALSE)]
  BY <1>1, LenProperties DEF buddy_away, buddy_unaway
<1> HIDE DEF e
<1>4. ASSUME NEW b \in BOOLEAN
      PROVE  Edits([list EXCEPT ![First(list, sn)] = e(b)], list, sn, e(b))
  <2>1. e(b) \in Buddy /\ e(b).sn = sn
    BY <1>2
  <2> QED BY <2>1, EditProperties
<1>5. /\ Edits(buddy_away(list, sn), list, sn, e(TRUE))
      /\ Edits(buddy_unaway(list, sn), list, sn, e(FALSE))
  BY <1>3, <1>4
<1> QED BY <1>5 DEF e

(***************************************************************************)
(* The inductive invariant.  Four parts of it are asked about by no run:   *)
(* the idle mark follows from the idle time of the same entry, the lists   *)
(* are related while the connection is down too, and then nothing is told  *)
(* of anybody, so that the next session starts from a clean slate, and     *)
(* without a connection handle the program's list is empty.                *)
(***************************************************************************)

Agree(lib, list) ==
  /\ Unique(lib)
  /\ \A sn \in Sns :
       /\ Has(lib, sn) <=> Has(list, sn)
       /\ Has(lib, sn) =>
            /\ Get(list, sn).away = Get(lib, sn).isaway
            /\ Get(list, sn).idletime = Get(lib, sn).idletime

Marked(list) ==
  \A sn \in Sns : Has(list, sn) =>
      Get(list, sn).idle = (Get(list, sn).idletime >= IdleAfter)

Good(lib, list, n) ==
  /\ lib \in Seq(LibBuddy)
  /\ list \in Seq(Buddy)
  /\ n = Len(list)
  /\ Agree(lib, list)
  /\ Sorted(list)
  /\ Marked(list)

Telling(t, list) ==
  \A sn \in Sns :
    t[sn] = IF Has(list, sn)
            THEN [on |-> TRUE, away |-> Get(list, sn).away, idle |-> Get(list, sn).idle]
            ELSE Unseen

IInv ==
  /\ Good(buddies_online, buddylist, buddiesonline)
  /\ link \in {"up", "lost", "dead", "none"}
  /\ told \in [Sns -> Notice]
  /\ link = "up" => Telling(told, buddylist)
  /\ link # "up" => \A sn \in Sns : told[sn] = Unseen
  /\ link = "none" => buddylist = <<>>

\* Empty lists are good.
LEMMA GoodEmpty == Good(<<>>, <<>>, 0)
<1>1. \A sn : ~Has(<<>>, sn)
  BY DEF Has
<1>2. Unique(<<>>) /\ Sorted(<<>>)
  BY DEF Unique, Sorted
<1>3. Len(<<>>) = 0 /\ <<>> \in Seq(LibBuddy) /\ <<>> \in Seq(Buddy)
  OBVIOUS
<1> QED BY <1>1, <1>2, <1>3 DEF Good, Agree, Marked

\* Setting the entry of one name on both lists to the same presence.
LEMMA GoodPut ==
  ASSUME NEW lib, NEW list, NEW n, Good(lib, list, n), NEW sn \in Sns,
         NEW r \in Seq(LibBuddy), Unique(r), NEW e, Puts(r, lib, sn, e),
         NEW q \in Seq(Buddy), Sorted(q), NEW f, Puts(q, list, sn, f),
         f.away = e.isaway, f.idletime = e.idletime,
         f.idle = (f.idletime >= IdleAfter)
  PROVE  Good(r, q, Len(q))
<1>1. Agree(r, q)
  <2> SUFFICES ASSUME NEW x \in Sns
               PROVE  /\ Has(r, x) <=> Has(q, x)
                      /\ Has(r, x) => /\ Get(q, x).away = Get(r, x).isaway
                                      /\ Get(q, x).idletime = Get(r, x).idletime
    BY DEF Agree
  <2>1. CASE x = sn
    BY <2>1 DEF Puts
  <2>2. CASE x # sn
    BY <2>2 DEF Puts, Good, Agree
  <2> QED BY <2>1, <2>2
<1>2. Marked(q)
  <2> SUFFICES ASSUME NEW x \in Sns, Has(q, x)
               PROVE  Get(q, x).idle = (Get(q, x).idletime >= IdleAfter)
    BY DEF Marked
  <2>1. CASE x = sn
    BY <2>1 DEF Puts
  <2>2. CASE x # sn
    <3>1. Has(list, x) /\ Get(q, x) = Get(list, x)
      BY <2>2 DEF Puts
    <3> QED BY <3>1 DEF Good, Marked
  <2> QED BY <2>1, <2>2
<1> QED BY <1>1, <1>2 DEF Good

\* Dropping one name from both lists.
LEMMA GoodDrop ==
  ASSUME NEW lib, NEW list, NEW n, Good(lib, list, n), NEW sn \in Sns
  PROVE  /\ Good(Unlink(lib, sn), Unlink(list, sn),
                 IF Has(list, sn) THEN n - 1 ELSE n)
         /\ Drops(Unlink(list, sn), list, sn)
<1> DEFINE r == Unlink(lib, sn)
           q == Unlink(list, sn)
<1>0. lib \in Seq(LibBuddy) /\ Unique(lib) /\ list \in Seq(Buddy) /\ Sorted(list)
  BY DEF Good, Agree
<1>1. r \in Seq(LibBuddy) /\ Unique(r) /\ Drops(r, lib, sn)
  BY <1>0, UnlinkProperties
<1>2. /\ q \in Seq(Buddy) /\ Sorted(q) /\ Drops(q, list, sn)
      /\ Len(q) = IF Has(list, sn) THEN Len(list) - 1 ELSE Len(list)
  BY <1>0, BuddiesUnique, UnlinkProperties
<1> HIDE DEF r, q
<1>3. Agree(r, q)
  BY <1>1, <1>2 DEF Agree, Good, Drops
<1>4. Marked(q)
  <2> SUFFICES ASSUME NEW x \in Sns, Has(q, x)
               PROVE  Get(q, x).idle = (Get(q, x).idletime >= IdleAfter)
    BY DEF Marked
  <2>1. Has(list, x) /\ Get(q, x) = Get(list, x)
    BY <1>2 DEF Drops
  <2> QED BY <2>1 DEF Good, Marked
<1>5. Good(r, q, IF Has(list, sn) THEN n - 1 ELSE n)
  BY <1>1, <1>2, <1>3, <1>4 DEF Good
<1> QED BY <1>2, <1>5 DEF r, q

\* The notices about one name were read.
LEMMA TellPut ==
  ASSUME NEW t, NEW list, Telling(t, list), NEW sn, NEW f,
         NEW q, Puts(q, list, sn, f),
         NEW u, u[sn] = [on |-> TRUE, away |-> f.away, idle |-> f.idle],
         \A x \in Sns : x # sn => u[x] = t[x]
  PROVE  Telling(u, q)
<1> SUFFICES ASSUME NEW x \in Sns
             PROVE  u[x] = IF Has(q, x)
                           THEN [on |-> TRUE, away |-> Get(q, x).away, idle |-> Get(q, x).idle]
                           ELSE Unseen
  BY DEF Telling
<1>1. CASE x = sn
  BY <1>1 DEF Puts
<1>2. CASE x # sn
  BY <1>2 DEF Puts, Telling
<1> QED BY <1>1, <1>2

\* The notice that one name left was read.
LEMMA TellDrop ==
  ASSUME NEW t, NEW list, Telling(t, list), NEW sn, NEW q, Drops(q, list, sn),
         NEW u, u[sn] = Unseen, \A x \in Sns : x # sn => u[x] = t[x]
  PROVE  Telling(u, q)
<1> SUFFICES ASSUME NEW x \in Sns
             PROVE  u[x] = IF Has(q, x)
                           THEN [on |-> TRUE, away |-> Get(q, x).away, idle |-> Get(q, x).idle]
                           ELSE Unseen
  BY DEF Telling
<1>1. CASE x = sn
  BY <1>1 DEF Drops
<1>2. CASE x # sn
  BY <1>2 DEF Drops, Telling
<1> QED BY <1>1, <1>2

(***************************************************************************)
(* Every step preserves it.                                                *)
(***************************************************************************)

\* Two changes of the same entry, one after the other.
LEMMA PutsTwice ==
  ASSUME NEW list, NEW q, NEW r, NEW sn, NEW d, NEW e,
         Puts(q, list, sn, d), Puts(r, q, sn, e)
  PROVE  Puts(r, list, sn, e)
BY DEF Puts

\* The presence f is away and idle as the packet says.
Reads(f, isaway, t) ==
  /\ f \in Buddy
  /\ f.away = isaway
  /\ f.idletime = t
  /\ f.idle = (t >= IdleAfter)

\* The callbacks of a repeated sign-on leave the program's entry as the
\* packet says, whether or not the away flag turned.
LEMMA TurnedEntry ==
  ASSUME NEW list \in Seq(Buddy), Sorted(list), NEW sn, Has(list, sn),
         NEW t \in Nat, NEW isaway \in BOOLEAN, NEW q,
         \/ q = buddy_idle(list, sn, t) /\ Get(list, sn).away = isaway
         \/ isaway /\ q = buddy_away(buddy_idle(list, sn, t), sn)
         \/ ~isaway /\ q = buddy_unaway(buddy_idle(list, sn, t), sn)
  PROVE  \E f : Reads(f, isaway, t) /\ Edits(q, list, sn, f)
<1> DEFINE m == (t >= IdleAfter)
           p == buddy_idle(list, sn, t)
           d == [Get(list, sn) EXCEPT !.idletime = t, !.idle = m]
<1>1. Get(list, sn) \in Buddy
  BY GetBuddy
<1>2. Edits(p, list, sn, d)
  BY BuddyIdle
<1>3. m \in BOOLEAN
  BY DEF IdleAfter
<1> HIDE DEF m
<1>4. /\ d \in Buddy
      /\ d.away = Get(list, sn).away
      /\ d.idletime = t
      /\ d.idle = m
  BY <1>1, <1>3 DEF Buddy
<1> HIDE DEF p, d
<1>5. CASE q = p /\ Get(list, sn).away = isaway
  BY <1>2, <1>4, <1>5 DEF Reads, m
<1>6. CASE isaway /\ q = buddy_away(p, sn)
  <2>1. p \in Seq(Buddy) /\ Sorted(p) /\ Has(p, sn) /\ Get(p, sn) = d
    BY <1>2 DEF Edits, Puts
  <2> DEFINE f == [d EXCEPT !.away = TRUE]
  <2>2. Edits(q, p, sn, f)
    BY <1>6, <2>1, BuddyAway
  <2>3. f \in Buddy /\ f.away = TRUE /\ f.idletime = t /\ f.idle = m
    BY <1>4 DEF Buddy
  <2> HIDE DEF f
  <2>4. Edits(q, list, sn, f)
    BY <1>2, <2>2, PutsTwice DEF Edits
  <2> QED BY <2>3, <2>4, <1>6 DEF Reads, m
<1>7. CASE ~isaway /\ q = buddy_unaway(p, sn)
  <2>1. p \in Seq(Buddy) /\ Sorted(p) /\ Has(p, sn) /\ Get(p, sn) = d
    BY <1>2 DEF Edits, Puts
  <2> DEFINE f == [d EXCEPT !.away = FALSE]
  <2>2. Edits(q, p, sn, f)
    BY <1>7, <2>1, BuddyAway
  <2>3. f \in Buddy /\ f.away = FALSE /\ f.idletime = t /\ f.idle = m
    BY <1>4 DEF Buddy
  <2> HIDE DEF f
  <2>4. Edits(q, list, sn, f)
    BY <1>2, <2>2, PutsTwice DEF Edits
  <2> QED BY <2>3, <2>4, <1>7 DEF Reads, m
<1> QED BY <1>5, <1>6, <1>7 DEF p

\* The user knows of sn what the fields say, and nothing new of the others.
Says(u, t, sn, on, away, idle) ==
  /\ u \in [Sns -> Notice]
  /\ u[sn].on = on
  /\ u[sn].away = away
  /\ u[sn].idle = idle
  /\ \A x \in Sns : x # sn => u[x] = t[x]

\* A notice changes one field of what the user was told.
LEMMA NoticeChanges ==
  ASSUME NEW t \in [Sns -> Notice], NEW sn \in Sns, NEW b \in BOOLEAN
  PROVE  /\ Says([t EXCEPT ![sn].idle = b], t, sn, t[sn].on, t[sn].away, b)
         /\ Says([t EXCEPT ![sn].away = b], t, sn, t[sn].on, b, t[sn].idle)
<1>1. LET u == [t EXCEPT ![sn].idle = b]
      IN  /\ u \in [Sns -> Notice]
          /\ u[sn].on = t[sn].on
          /\ u[sn].away = t[sn].away
          /\ u[sn].idle = b
          /\ \A x \in Sns : x # sn => u[x] = t[x]
  BY DEF Notice
<1>2. LET u == [t EXCEPT ![sn].away = b]
      IN  /\ u \in [Sns -> Notice]
          /\ u[sn].on = t[sn].on
          /\ u[sn].away = b
          /\ u[sn].idle = t[sn].idle
          /\ \A x \in Sns : x # sn => u[x] = t[x]
  BY DEF Notice
<1> QED BY <1>1, <1>2 DEF Says

\* Said in three fields or in one record.
LEMMA NoticeRecord ==
  ASSUME NEW u \in [Sns -> Notice], NEW sn \in Sns
  PROVE  u[sn] = [on |-> u[sn].on, away |-> u[sn].away, idle |-> u[sn].idle]
BY DEF Notice

\* The idle notice, whether or not it is printed, leaves the user informed.
LEMMA IdleTold ==
  ASSUME NEW t \in [Sns -> Notice], NEW sn \in Sns, NEW list, Has(list, sn),
         t[sn].idle = Get(list, sn).idle, NEW k \in Nat
  PROVE  Says(IdleNotice(t, list, sn, k), t, sn, t[sn].on, t[sn].away, k >= IdleAfter)
<1> DEFINE m == (k >= IdleAfter)
<1>1. m \in BOOLEAN
  BY DEF IdleAfter
<1>2. IdleNotice(t, list, sn, k) =
        IF Get(list, sn).idle # m THEN [t EXCEPT ![sn].idle = m] ELSE t
  BY DEF IdleNotice
<1> HIDE DEF m
<1>3. Says([t EXCEPT ![sn].idle = m], t, sn, t[sn].on, t[sn].away, m)
  BY <1>1, NoticeChanges
<1>4. Get(list, sn).idle = m => Says(t, t, sn, t[sn].on, t[sn].away, m)
  BY DEF Says
<1>5. Says(IdleNotice(t, list, sn, k), t, sn, t[sn].on, t[sn].away, m)
  BY <1>2, <1>3, <1>4
<1> QED BY <1>5 DEF m

\* What a sign-on does, in terms of names: the entry of sn on both lists is
\* what the packet says, and so is what the user was told of sn.
SignonEffect(sn, isaway, t) ==
  /\ Good(buddies_online', buddylist', buddiesonline')
  /\ told' \in [Sns -> Notice]
  /\ Telling(told', buddylist')
  /\ \E f : Reads(f, isaway, t) /\ Puts(buddylist', buddylist, sn, f)

\* A sign-on of a name on the lists.
LEMMA SignonAgainEffect ==
  ASSUME IInv, link = "up", NEW sn \in Sns, NEW isaway \in BOOLEAN, NEW t \in Nat,
         SignonAgain(sn, isaway, t)
  PROVE  SignonEffect(sn, isaway, t)
<1> DEFINE b1 == imcomm_update_buddy_times(buddies_online, sn, t)
           e1 == [Get(buddies_online, sn) EXCEPT !.idletime = t]
           e2 == [Get(b1, sn) EXCEPT !.isaway = isaway]
           turned == Differ(buddies_online, sn, isaway) # {}
           m == (t >= IdleAfter)
<1>1. /\ Good(buddies_online, buddylist, buddiesonline)
      /\ buddies_online \in Seq(LibBuddy)
      /\ Unique(buddies_online)
      /\ buddylist \in Seq(Buddy)
      /\ Sorted(buddylist)
      /\ buddiesonline = Len(buddylist)
      /\ told \in [Sns -> Notice]
      /\ Telling(told, buddylist)
      /\ Has(buddies_online, sn)
      /\ Has(buddylist, sn)
      /\ Get(buddylist, sn).away = Get(buddies_online, sn).isaway
  BY DEF IInv, Good, Agree, SignonAgain
<1>2. /\ b1 \in Seq(LibBuddy)
      /\ Unique(b1)
      /\ Puts(b1, buddies_online, sn, e1)
  BY <1>1, UpdateTimes
<1>3. Get(buddies_online, sn) \in LibBuddy
  BY <1>1, FirstOfHas
<1>4. e1 \in LibBuddy /\ e1.idletime = t
  BY <1>3 DEF LibBuddy
<1>5. Has(b1, sn) /\ Get(b1, sn) = e1
  BY <1>2 DEF Puts
<1> HIDE DEF b1, e1
<1>6. /\ buddies_online' \in Seq(LibBuddy)
      /\ Unique(buddies_online')
      /\ Puts(buddies_online', b1, sn, e2)
  BY <1>2, <1>5, UpdateAway DEF SignonAgain, b1
<1>7. e2.isaway = isaway /\ e2.idletime = t
  BY <1>4, <1>5 DEF LibBuddy
<1> HIDE DEF e2
<1>8. Puts(buddies_online', buddies_online, sn, e2)
  BY <1>2, <1>6, PutsTwice
<1>9. ~turned <=> Get(buddies_online, sn).isaway = isaway
  BY <1>1, UpdateAway
<1>10. PICK f : Reads(f, isaway, t) /\ Edits(buddylist', buddylist, sn, f)
  <2>1. \/ buddylist' = buddy_idle(buddylist, sn, t) /\ Get(buddylist, sn).away = isaway
        \/ isaway /\ buddylist' = buddy_away(buddy_idle(buddylist, sn, t), sn)
        \/ ~isaway /\ buddylist' = buddy_unaway(buddy_idle(buddylist, sn, t), sn)
    BY <1>1, <1>9 DEF SignonAgain
  <2> QED BY <1>1, <2>1, TurnedEntry
<1>11. Good(buddies_online', buddylist', buddiesonline')
  <2>1. Good(buddies_online', buddylist', Len(buddylist'))
    BY <1>1, <1>6, <1>7, <1>8, <1>10, GoodPut DEF Edits, Reads
  <2>2. buddiesonline' = Len(buddylist')
    BY <1>1, <1>10 DEF Edits, SignonAgain
  <2> QED BY <2>1, <2>2
<1>12. Says(told', told, sn, TRUE, isaway, m)
  <2> DEFINE u == IdleNotice(told, buddylist, sn, t)
  <2>1. /\ told[sn].on = TRUE
        /\ told[sn].away = Get(buddylist, sn).away
        /\ told[sn].idle = Get(buddylist, sn).idle
    BY <1>1 DEF Telling
  <2>2. Says(u, told, sn, told[sn].on, told[sn].away, m)
    BY <1>1, <2>1, IdleTold
  <2>3. told' = IF turned THEN [u EXCEPT ![sn].away = isaway] ELSE u
    BY DEF SignonAgain, AwayNotice
  <2>4. turned \/ Get(buddylist, sn).away = isaway
    BY <1>1, <1>9
  <2> HIDE DEF turned, u, m
  <2>5. CASE turned
    <3>1. u \in [Sns -> Notice] /\ u[sn].on = TRUE /\ u[sn].idle = m
      BY <2>1, <2>2 DEF Says
    <3>2. Says([u EXCEPT ![sn].away = isaway], u, sn, u[sn].on, isaway, u[sn].idle)
      BY <3>1, NoticeChanges
    <3> QED BY <2>2, <2>3, <2>5, <3>1, <3>2 DEF Says
  <2>6. CASE ~turned
    BY <2>1, <2>2, <2>3, <2>4, <2>6 DEF Says
  <2> QED BY <2>5, <2>6
<1>13. Telling(told', buddylist')
  <2>1. told'[sn] = [on |-> TRUE, away |-> f.away, idle |-> f.idle]
    <3>1. told' \in [Sns -> Notice]
      BY <1>12 DEF Says
    <3>2. told'[sn].on = TRUE /\ told'[sn].away = isaway /\ told'[sn].idle = m
      BY <1>12 DEF Says
    <3>3. f.away = isaway /\ f.idle = m
      BY <1>10 DEF Reads
    <3>4. told'[sn] = [on |-> told'[sn].on, away |-> told'[sn].away,
                       idle |-> told'[sn].idle]
      BY <3>1, NoticeRecord
    <3> HIDE DEF m
    <3> QED BY <3>2, <3>3, <3>4
  <2> QED BY <1>1, <1>10, <1>12, <2>1, TellPut DEF Edits, Says
<1> QED BY <1>10, <1>11, <1>12, <1>13 DEF SignonEffect, Edits, Says

\* A sign-on of a name that is new to the lists.
LEMMA SignonNewEffect ==
  ASSUME IInv, link = "up", NEW sn \in Sns, NEW isaway \in BOOLEAN, NEW t \in Nat,
         SignonNew(sn, isaway, t)
  PROVE  SignonEffect(sn, isaway, t)
<1> DEFINE e == [sn |-> sn, isaway |-> isaway, idletime |-> t]
           added == buddy_online(buddylist, sn)
           m == (t >= IdleAfter)
<1>1. /\ Good(buddies_online, buddylist, buddiesonline)
      /\ buddies_online \in Seq(LibBuddy)
      /\ Unique(buddies_online)
      /\ buddylist \in Seq(Buddy)
      /\ Sorted(buddylist)
      /\ buddiesonline = Len(buddylist)
      /\ told \in [Sns -> Notice]
      /\ Telling(told, buddylist)
      /\ ~Has(buddies_online, sn)
      /\ ~Has(buddylist, sn)
  BY DEF IInv, Good, Agree, SignonNew
<1>2. /\ buddies_online' \in Seq(LibBuddy)
      /\ Unique(buddies_online')
      /\ Puts(buddies_online', buddies_online, sn, e)
  BY <1>1, AddBuddy DEF SignonNew
<1>3. /\ added \in Seq(Buddy)
      /\ Sorted(added)
      /\ Puts(added, buddylist, sn, Fresh(sn))
      /\ Len(added) = Len(buddylist) + 1
  BY <1>1, BuddyOnline
<1>4. Has(added, sn) /\ Get(added, sn) = Fresh(sn)
  BY <1>3 DEF Puts
<1>5. buddylist' = IF isaway THEN buddy_away(buddy_idle(added, sn, t), sn)
                   ELSE buddy_idle(added, sn, t)
  BY DEF SignonNew
<1>6. told' = LET v == [told EXCEPT ![sn] = [Unseen EXCEPT !.on = TRUE]]
                  u == IdleNotice(v, added, sn, t)
              IN  IF isaway THEN AwayNotice(u, sn, TRUE) ELSE u
  BY DEF SignonNew
<1> HIDE DEF added
<1>7. PICK f : Reads(f, isaway, t) /\ Edits(buddylist', added, sn, f)
  <2>1. \/ buddylist' = buddy_idle(added, sn, t) /\ Get(added, sn).away = isaway
        \/ isaway /\ buddylist' = buddy_away(buddy_idle(added, sn, t), sn)
        \/ ~isaway /\ buddylist' = buddy_unaway(buddy_idle(added, sn, t), sn)
    <3>1. Get(added, sn).away = FALSE
      BY <1>4 DEF Fresh
    <3>2. CASE isaway
      BY <1>5, <3>2
    <3>3. CASE ~isaway
      BY <1>5, <3>1, <3>3
    <3> QED BY <3>2, <3>3
  <2> QED BY <1>3, <1>4, <2>1, TurnedEntry
<1>8. Puts(buddylist', buddylist, sn, f)
  BY <1>3, <1>7, PutsTwice DEF Edits
<1>9. Good(buddies_online', buddylist', buddiesonline')
  <2>1. e.isaway = isaway /\ e.idletime = t
    OBVIOUS
  <2> HIDE DEF e
  <2>2. Good(buddies_online', buddylist', Len(buddylist'))
    BY <1>1, <1>2, <1>7, <1>8, <2>1, GoodPut DEF Edits, Reads
  <2>3. buddiesonline' = Len(buddylist')
    BY <1>1, <1>3, <1>7 DEF Edits, SignonNew
  <2> QED BY <2>2, <2>3
<1>10. Says(told', told, sn, TRUE, isaway, m)
  <2> DEFINE v == [told EXCEPT ![sn] = [Unseen EXCEPT !.on = TRUE]]
             u == IdleNotice(v, added, sn, t)
  <2>1. Says(v, told, sn, TRUE, FALSE, FALSE)
    BY <1>1 DEF Notice, Unseen, Says
  <2> HIDE DEF v
  <2>2. v \in [Sns -> Notice] /\ v[sn].idle = Get(added, sn).idle
    <3>1. Get(added, sn).idle = FALSE
      BY <1>4 DEF Fresh
    <3>2. v \in [Sns -> Notice] /\ v[sn].idle = FALSE
      BY <2>1 DEF Says
    <3> QED BY <3>1, <3>2
  <2>3. Says(u, v, sn, v[sn].on, v[sn].away, m)
    BY <1>4, <2>2, IdleTold
  <2>4. told' = IF isaway THEN [u EXCEPT ![sn].away = TRUE] ELSE u
    BY <1>6 DEF AwayNotice, v
  <2> HIDE DEF m, u
  <2>5. Says(u, told, sn, TRUE, FALSE, m)
    BY <2>1, <2>3 DEF Says
  <2>6. CASE isaway
    <3>1. u \in [Sns -> Notice] /\ u[sn].on = TRUE /\ u[sn].idle = m
      BY <2>5 DEF Says
    <3>2. Says([u EXCEPT ![sn].away = TRUE], u, sn, u[sn].on, TRUE, u[sn].idle)
      BY <3>1, NoticeChanges
    <3> QED BY <2>4, <2>5, <2>6, <3>1, <3>2 DEF Says
  <2>7. CASE ~isaway
    BY <2>4, <2>5, <2>7 DEF Says
  <2> QED BY <2>6, <2>7
<1>11. Telling(told', buddylist')
  <2>1. told'[sn] = [on |-> TRUE, away |-> f.away, idle |-> f.idle]
    <3>1. told' \in [Sns -> Notice]
      BY <1>10 DEF Says
    <3>2. told'[sn].on = TRUE /\ told'[sn].away = isaway /\ told'[sn].idle = m
      BY <1>10 DEF Says
    <3>3. f.away = isaway /\ f.idle = m
      BY <1>7 DEF Reads
    <3>4. told'[sn] = [on |-> told'[sn].on, away |-> told'[sn].away,
                       idle |-> told'[sn].idle]
      BY <3>1, NoticeRecord
    <3> HIDE DEF m
    <3> QED BY <3>2, <3>3, <3>4
  <2> QED BY <1>1, <1>8, <1>10, <2>1, TellPut DEF Says
<1> QED BY <1>7, <1>8, <1>9, <1>10, <1>11 DEF SignonEffect, Says

\* A message that is no automatic reply, from a name on the lists: its entry
\* keeps the away flag and is not idle any more.
LEMMA SpeakEffect ==
  ASSUME IInv, NEW n \in Names, snac_get_incoming_im(n, FALSE),
         Has(buddies_online, simplify_sn[n])
  PROVE  SignonEffect(simplify_sn[n], Get(buddylist, simplify_sn[n]).away, 0)
<1> DEFINE sn == simplify_sn[n]
           away == Get(buddylist, sn).away
           e == [Get(buddies_online, sn) EXCEPT !.idletime = 0]
<1>1. /\ Good(buddies_online, buddylist, buddiesonline)
      /\ buddies_online \in Seq(LibBuddy)
      /\ Unique(buddies_online)
      /\ buddylist \in Seq(Buddy)
      /\ Sorted(buddylist)
      /\ buddiesonline = Len(buddylist)
      /\ told \in [Sns -> Notice]
      /\ Telling(told, buddylist)
      /\ sn \in Sns
      /\ Has(buddylist, sn)
      /\ away = Get(buddies_online, sn).isaway
  BY DEF IInv, Good, Agree, snac_get_incoming_im, Sns
<1>2. /\ buddies_online' = imcomm_update_buddy_times(buddies_online, sn, 0)
      /\ buddylist' = buddy_idle(buddylist, sn, 0)
      /\ told' = IdleNotice(told, buddylist, sn, 0)
      /\ buddiesonline' = buddiesonline
  BY DEF snac_get_incoming_im
<1> HIDE DEF sn
<1>3. Has(buddies_online, sn)
  BY DEF sn
<1>4. /\ buddies_online' \in Seq(LibBuddy)
      /\ Unique(buddies_online')
      /\ Puts(buddies_online', buddies_online, sn, e)
  BY <1>1, <1>2, <1>3, UpdateTimes
<1>5. e.isaway = away /\ e.idletime = 0
  <2>1. Get(buddies_online, sn) \in LibBuddy
    BY <1>1, <1>3, FirstOfHas
  <2> QED BY <1>1, <2>1 DEF LibBuddy
<1> HIDE DEF e
<1>6. away \in BOOLEAN
  BY <1>1, GetBuddy DEF Buddy
<1>7. PICK f : Reads(f, away, 0) /\ Edits(buddylist', buddylist, sn, f)
  BY <1>1, <1>2, <1>6, TurnedEntry
<1>8. Good(buddies_online', buddylist', buddiesonline')
  <2>1. Good(buddies_online', buddylist', Len(buddylist'))
    BY <1>1, <1>4, <1>5, <1>7, GoodPut DEF Edits, Reads
  <2> QED BY <2>1, <1>1, <1>2, <1>7 DEF Edits
<1>9. Says(told', told, sn, TRUE, away, 0 >= IdleAfter)
  <2>1. /\ told[sn].on = TRUE
        /\ told[sn].away = away
        /\ told[sn].idle = Get(buddylist, sn).idle
    BY <1>1 DEF Telling
  <2>2. Says(IdleNotice(told, buddylist, sn, 0), told, sn,
             told[sn].on, told[sn].away, 0 >= IdleAfter)
    BY <1>1, <2>1, IdleTold
  <2> QED BY <1>2, <2>1, <2>2 DEF Says
<1>10. Telling(told', buddylist')
  <2> DEFINE m == (0 >= IdleAfter)
  <2>1. told' \in [Sns -> Notice]
    BY <1>9 DEF Says
  <2>2. told'[sn].on = TRUE /\ told'[sn].away = away /\ told'[sn].idle = m
    BY <1>9 DEF Says
  <2>3. f.away = away /\ f.idle = m
    BY <1>7 DEF Reads
  <2>4. told'[sn] = [on |-> told'[sn].on, away |-> told'[sn].away,
                     idle |-> told'[sn].idle]
    BY <1>1, <2>1, NoticeRecord
  <2> HIDE DEF m, away
  <2>5. told'[sn] = [on |-> TRUE, away |-> f.away, idle |-> f.idle]
    BY <2>2, <2>3, <2>4
  <2> QED BY <1>1, <1>7, <1>9, <2>5, TellPut DEF Edits, Says
<1> QED BY <1>7, <1>8, <1>9, <1>10 DEF SignonEffect, Edits, Says, sn

\* Any other message changes nothing.
LEMMA OtherMessage ==
  ASSUME IInv, NEW n \in Names, NEW auto \in BOOLEAN, snac_get_incoming_im(n, auto),
         auto \/ ~Has(buddies_online, simplify_sn[n])
  PROVE  UNCHANGED <<buddies_online, buddylist, buddiesonline, told, link>>
<1>1. buddies_online \in Seq(LibBuddy) /\ Unique(buddies_online)
  BY DEF IInv, Good, Agree
<1>2. ~auto => buddies_online' = buddies_online
  BY <1>1, UpdateTimes DEF snac_get_incoming_im
<1> QED BY <1>2 DEF snac_get_incoming_im

\* A name leaves both lists, by the server's word or by the user's.
LEMMA DropEffect ==
  ASSUME IInv, NEW n \in Names, snac_get_signoff(n) \/ input_delete_buddy(n)
  PROVE  IInv' /\ Drops(buddylist', buddylist, simplify_sn[n])
<1> DEFINE sn == simplify_sn[n]
<1>1. /\ Good(buddies_online, buddylist, buddiesonline)
      /\ told \in [Sns -> Notice]
      /\ link \in {"up", "lost", "dead", "none"}
      /\ sn \in Sns
      /\ link = "up" => Telling(told, buddylist)
      /\ link # "up" => \A x \in Sns : told[x] = Unseen
  BY DEF IInv, Sns
<1>2. /\ buddies_online' = Unlink(buddies_online, sn)
      /\ buddylist' = Unlink(buddylist, sn)
      /\ buddiesonline' = IF Has(buddylist, sn) THEN buddiesonline - 1 ELSE buddiesonline
      /\ link' = link
  BY DEF snac_get_signoff, input_delete_buddy, imcomm_internal_delete_buddy,
         buddy_offline, remove_from_list
<1>3. told' = [told EXCEPT ![sn] = Unseen] \/ (~Has(buddylist, sn) /\ told' = told)
  BY DEF snac_get_signoff, input_delete_buddy
<1> HIDE DEF sn
<1>4. Good(buddies_online', buddylist', buddiesonline') /\ Drops(buddylist', buddylist, sn)
  BY <1>1, <1>2, GoodDrop
<1>5. told' \in [Sns -> Notice] /\ \A x \in Sns : x # sn => told'[x] = told[x]
  <2>1. Unseen \in Notice
    BY DEF Notice, Unseen
  <2> QED BY <1>1, <1>3, <2>1
<1>6. link = "up" => told'[sn] = Unseen
  BY <1>1, <1>3 DEF Telling
<1>7. link' = "up" => Telling(told', buddylist')
  <2> SUFFICES ASSUME link = "up" PROVE Telling(told', buddylist')
    BY <1>2
  <2> QED BY <1>1, <1>4, <1>5, <1>6, TellDrop
<1>8. link' # "up" => \A x \in Sns : told'[x] = Unseen
  BY <1>1, <1>2, <1>3
<1>9. link' # "none"
  BY <1>2 DEF snac_get_signoff, input_delete_buddy
<1> QED BY <1>1, <1>2, <1>4, <1>5, <1>7, <1>8, <1>9 DEF IInv, sn

\* Empty lists and an uninformed user, whatever the connection.
LEMMA CleanSlate ==
  ASSUME buddies_online' = <<>>, buddylist' = <<>>, buddiesonline' = 0,
         link' \in {"up", "lost", "dead", "none"},
         told' \in [Sns -> Notice], \A sn \in Sns : told'[sn] = Unseen
  PROVE  IInv'
<1>1. \A sn : ~Has(buddylist', sn)
  BY DEF Has
<1>2. Telling(told', buddylist')
  BY <1>1 DEF Telling
<1>3. Good(buddies_online', buddylist', buddiesonline')
  BY GoodEmpty
<1> QED BY <1>2, <1>3 DEF IInv

\* The invariant holds at the start.
LEMMA InitIInv == Init => IInv
<1> SUFFICES ASSUME Init PROVE IInv
  OBVIOUS
<1>1. told \in [Sns -> Notice] /\ \A sn \in Sns : told[sn] = Unseen
  BY DEF Init, Notice, Unseen
<1>2. \A sn : ~Has(buddylist, sn)
  BY DEF Init, Has
<1> QED BY <1>1, <1>2, GoodEmpty DEF Init, IInv, Telling

\* And every step keeps it.
LEMMA NextIInv == IInv /\ [Next]_vars => IInv'
<1> SUFFICES ASSUME IInv, [Next]_vars PROVE IInv'
  OBVIOUS
<1>1. ASSUME NEW n \in Names, NEW isaway \in BOOLEAN, NEW t \in IdleTimes,
             snac_get_signon(n, isaway, t)
      PROVE  IInv'
  <2>1. simplify_sn[n] \in Sns /\ t \in Nat
    BY IdleTimesAssumption DEF Sns
  <2>2. link = "up" /\ link' = link
    BY <1>1 DEF snac_get_signon
  <2>3. SignonEffect(simplify_sn[n], isaway, t)
    BY <1>1, <2>1, <2>2, SignonAgainEffect, SignonNewEffect DEF snac_get_signon
  <2> QED BY <2>2, <2>3 DEF SignonEffect, IInv
<1>2. ASSUME NEW n \in Names, snac_get_signoff(n) PROVE IInv'
  BY <1>2, DropEffect
<1>3. ASSUME NEW n \in Names, NEW auto \in BOOLEAN, snac_get_incoming_im(n, auto)
      PROVE  IInv'
  <2>1. CASE auto \/ ~Has(buddies_online, simplify_sn[n])
    <3>1. UNCHANGED <<buddies_online, buddylist, buddiesonline, told, link>>
      BY <1>3, <2>1, OtherMessage
    <3> QED BY <3>1 DEF IInv
  <2>2. CASE ~auto /\ Has(buddies_online, simplify_sn[n])
    <3>1. SignonEffect(simplify_sn[n], Get(buddylist, simplify_sn[n]).away, 0)
      BY <1>3, <2>2, SpeakEffect
    <3>2. link' = link /\ link = "up"
      BY <1>3 DEF snac_get_incoming_im
    <3> QED BY <3>1, <3>2 DEF SignonEffect, IInv
  <2> QED BY <2>1, <2>2
<1>4. ASSUME NEW n \in Names, input_delete_buddy(n) PROVE IInv'
  BY <1>4, DropEffect
<1>5. CASE Disconnected
  <2>1. told' \in [Sns -> Notice] /\ \A sn \in Sns : told'[sn] = Unseen
    BY <1>5 DEF Disconnected, Notice, Unseen
  <2> QED BY <1>5, <2>1 DEF Disconnected, IInv
<1>6. CASE OtherSignon
  <2>1. told' \in [Sns -> Notice] /\ \A sn \in Sns : told'[sn] = Unseen
    BY <1>6 DEF OtherSignon, Notice, Unseen
  <2> QED BY <1>6, <2>1 DEF OtherSignon, IInv
<1>7. CASE handle_deleted
  <2>1. buddies_online' = <<>> /\ buddylist' = <<>> /\ buddiesonline' = 0
    BY <1>7 DEF handle_deleted
  <2>2. told' \in [Sns -> Notice] /\ \A sn \in Sns : told'[sn] = Unseen
    BY <1>7 DEF handle_deleted, IInv
  <2>3. link' \in {"up", "none"}
    BY <1>7 DEF handle_deleted
  <2> QED BY <2>1, <2>2, <2>3, CleanSlate
<1>8. CASE input_reconnect
  <2>1. buddies_online' = <<>> /\ buddylist' = <<>> /\ buddiesonline' = 0
    BY <1>8 DEF input_reconnect, IInv, Good
  <2>2. told' \in [Sns -> Notice] /\ \A sn \in Sns : told'[sn] = Unseen
    BY <1>8 DEF input_reconnect, Notice, Unseen
  <2> QED BY <1>8, <2>1, <2>2, CleanSlate DEF input_reconnect
<1>9. CASE UNCHANGED vars
  BY <1>9 DEF vars, IInv
<1> QED BY <1>1, <1>2, <1>3, <1>4, <1>5, <1>6, <1>7, <1>8, <1>9 DEF Next

(***************************************************************************)
(* The properties.                                                         *)
(***************************************************************************)

\* The invariant is one.
LEMMA Inductive == Spec => []IInv
BY InitIInv, NextIInv, PTL DEF Spec

\* The two lists and what was told of them are well formed.
THEOREM TypeCorrect == Spec => []TypeOK
<1>1. IInv => TypeOK
  <2> SUFFICES ASSUME IInv PROVE TypeOK
    OBVIOUS
  <2>1. Len(buddylist) \in Nat
    BY LenProperties DEF IInv, Good
  <2> QED BY <2>1 DEF IInv, Good, TypeOK
<1> QED BY <1>1, Inductive, PTL

\* The library's list and the program's list agree on every name, in every
\* state of the connection (imcomm.c and aim.c keep them separately).
THEOREM ListsAlwaysAgree == Spec => []ListsAgree
<1>1. IInv => ListsAgree
  BY DEF IInv, Good, Agree, ListsAgree
<1> QED BY <1>1, Inductive, PTL

\* The program's list is sorted.
THEOREM AlwaysSorted == Spec => []ListSorted
<1>1. IInv => ListSorted
  BY DEF IInv, Good, ListSorted
<1> QED BY <1>1, Inductive, PTL

\* conn->buddiesonline, which several functions raise, lower and reset, is
\* always the length of the list.
THEOREM AlwaysCounted == Spec => []CountExact
<1>1. IInv => CountExact
  BY DEF IInv, Good, CountExact
<1> QED BY <1>1, Inductive, PTL

\* While the connection is up the notices printed so far tell the list.
THEOREM NoticesTell == Spec => []NoticesTellTheList
<1>1. IInv => NoticesTellTheList
  BY DEF IInv, Telling, NoticesTellTheList
<1> QED BY <1>1, Inductive, PTL

(***************************************************************************)
(* Refinement: the two lists implement the one map of PresenceAbs.         *)
(***************************************************************************)

\* The map after one entry changed.
LEMMA ShownPut ==
  ASSUME NEW sn \in Sns, NEW f, Puts(buddylist', buddylist, sn, f)
  PROVE  shown' = [shown EXCEPT ![sn] =
                     [away |-> f.away, idletime |-> f.idletime, idle |-> f.idle]]
<1>1. \A x \in Sns : x # sn => shown'[x] = shown[x]
  BY DEF shown, Puts
<1>2. shown'[sn] = [away |-> f.away, idletime |-> f.idletime, idle |-> f.idle]
  BY DEF shown, Puts
<1>3. shown = [x \in Sns |-> shown[x]] /\ shown' = [x \in Sns |-> shown'[x]]
  BY DEF shown
<1> QED BY <1>1, <1>2, <1>3

\* The map after one entry left.
LEMMA ShownDrop ==
  ASSUME NEW sn \in Sns, Drops(buddylist', buddylist, sn)
  PROVE  shown' = [shown EXCEPT ![sn] = Offline]
<1>1. \A x \in Sns : x # sn => shown'[x] = shown[x]
  BY DEF shown, Drops
<1>2. shown'[sn] = Offline
  BY DEF shown, Drops
<1>3. shown = [x \in Sns |-> shown[x]] /\ shown' = [x \in Sns |-> shown'[x]]
  BY DEF shown
<1> QED BY <1>1, <1>2, <1>3

\* A name on the list is not shown as offline.
LEMMA ShownOnline ==
  ASSUME IInv, NEW sn \in Sns
  PROVE  shown[sn] = Offline <=> ~Has(buddylist, sn)
<1>1. ASSUME Has(buddylist, sn) PROVE shown[sn] # Offline
  <2>1. Get(buddylist, sn) \in Buddy
    BY <1>1, GetBuddy DEF IInv, Good
  <2>2. shown[sn] \in [away : BOOLEAN, idletime : Nat, idle : BOOLEAN]
    BY <1>1, <2>1 DEF shown, Buddy
  <2> QED BY <2>2, OfflineAssumption
<1>2. ~Has(buddylist, sn) => shown[sn] = Offline
  BY DEF shown
<1> QED BY <1>1, <1>2

\* Every step of the lists is a step of the map or leaves it alone.
LEMMA NextAbs == IInv /\ [Next]_vars => [Abs!AbsNext]_(Abs!absVars)
<1> SUFFICES ASSUME IInv, [Next]_vars PROVE [Abs!AbsNext]_(Abs!absVars)
  OBVIOUS
<1>1. ASSUME NEW n \in Names, NEW isaway \in BOOLEAN, NEW t \in IdleTimes,
             snac_get_signon(n, isaway, t)
      PROVE  Abs!AbsNext
  <2> DEFINE sn == simplify_sn[n]
  <2>1. sn \in Sns /\ t \in Nat
    BY IdleTimesAssumption DEF Sns
  <2>2. link = "up"
    BY <1>1 DEF snac_get_signon
  <2>3. SignonEffect(sn, isaway, t)
    BY <1>1, <2>1, <2>2, SignonAgainEffect, SignonNewEffect DEF snac_get_signon
  <2>4. PICK f : Reads(f, isaway, t) /\ Puts(buddylist', buddylist, sn, f)
    BY <2>3 DEF SignonEffect
  <2>5. shown' = [shown EXCEPT ![sn] = [away |-> isaway, idletime |-> t,
                                        idle |-> (t >= IdleAfter)]]
    BY <2>1, <2>4, ShownPut DEF Reads
  <2>6. ev' = [type |-> "signon", sn |-> sn, away |-> isaway, idletime |-> t]
    BY <1>1 DEF snac_get_signon
  <2>7. Abs!Arrive(sn, isaway, t)
    BY <2>5, <2>6 DEF Abs!Arrive, Abs!Put, Abs!Online
  <2> QED BY <2>1, <2>7 DEF Abs!AbsNext
<1>2. ASSUME NEW n \in Names, snac_get_signoff(n) \/ input_delete_buddy(n)
      PROVE  Abs!AbsNext
  <2> DEFINE sn == simplify_sn[n]
  <2>1. sn \in Sns
    BY DEF Sns
  <2>2. shown' = [shown EXCEPT ![sn] = Offline]
    BY <1>2, <2>1, DropEffect, ShownDrop
  <2>3. PICK type \in {"signoff", "removed"} : ev' = [type |-> type, sn |-> sn]
    BY <1>2 DEF snac_get_signoff, input_delete_buddy
  <2>4. Abs!Leave(sn, type)
    BY <2>2, <2>3 DEF Abs!Leave, Abs!Put
  <2> QED BY <2>1, <2>4 DEF Abs!AbsNext
<1>3. ASSUME NEW n \in Names, NEW auto \in BOOLEAN, snac_get_incoming_im(n, auto)
      PROVE  Abs!AbsNext
  <2> DEFINE sn == simplify_sn[n]
  <2>1. sn \in Sns
    BY DEF Sns
  <2>2. Has(buddies_online, sn) <=> shown[sn] # Offline
    BY <2>1, ShownOnline DEF IInv, Good, Agree
  <2>3. ev' = [type |-> "im", sn |-> sn, auto |-> auto]
    BY <1>3 DEF snac_get_incoming_im
  <2>4. shown' = IF auto \/ shown[sn] = Offline THEN shown
                 ELSE [shown EXCEPT ![sn] = Abs!Online(shown[sn].away, 0)]
    <3>1. CASE auto \/ ~Has(buddies_online, sn)
      <4>1. buddylist' = buddylist
        BY <1>3, <3>1, OtherMessage
      <4>2. shown' = shown
        BY <4>1 DEF shown
      <4> QED BY <2>2, <3>1, <4>2
    <3>2. CASE ~auto /\ Has(buddies_online, sn)
      <4>1. SignonEffect(sn, Get(buddylist, sn).away, 0)
        BY <1>3, <3>2, SpeakEffect
      <4>2. PICK f : Reads(f, Get(buddylist, sn).away, 0) /\ Puts(buddylist', buddylist, sn, f)
        BY <4>1 DEF SignonEffect
      <4>3. Has(buddylist, sn)
        BY <2>1, <3>2 DEF IInv, Good, Agree
      <4>4. shown[sn].away = Get(buddylist, sn).away
        BY <2>1, <4>3 DEF shown
      <4>5. shown' = [shown EXCEPT ![sn] = [away |-> Get(buddylist, sn).away,
                        idletime |-> 0, idle |-> (0 >= IdleAfter)]]
        BY <2>1, <4>2, ShownPut DEF Reads
      <4> QED BY <2>2, <3>2, <4>4, <4>5 DEF Abs!Online
    <3> QED BY <3>1, <3>2
  <2>5. Abs!Speak(sn, auto)
    BY <2>3, <2>4 DEF Abs!Speak, Abs!Put
  <2> QED BY <2>1, <2>5 DEF Abs!AbsNext
<1>4. CASE Disconnected \/ OtherSignon
  <2>1. shown' = shown
    BY <1>4 DEF Disconnected, OtherSignon, shown
  <2>2. PICK type \in {"lost", "othersignon"} : ev' = [type |-> type]
    BY <1>4 DEF Disconnected, OtherSignon
  <2>3. Abs!Lose(type)
    BY <2>1, <2>2 DEF Abs!Lose
  <2> QED BY <2>3 DEF Abs!AbsNext
<1>5. CASE handle_deleted \/ input_reconnect
  <2>1. buddylist' = <<>>
    BY <1>5 DEF handle_deleted, input_reconnect, IInv
  <2>2. shown' = [sn \in Sns |-> Offline]
    <3>1. \A sn : ~Has(buddylist', sn)
      BY <2>1 DEF Has
    <3> QED BY <3>1 DEF shown
  <2>3. PICK type \in {"trimmed", "reconnect"} : ev' = [type |-> type]
    BY <1>5 DEF handle_deleted, input_reconnect
  <2>4. Abs!Clear(type)
    BY <2>2, <2>3 DEF Abs!Clear, Abs!Nobody
  <2> QED BY <2>4 DEF Abs!AbsNext
<1>6. CASE UNCHANGED vars
  BY <1>6 DEF vars, shown, Abs!absVars
<1> QED BY <1>1, <1>2, <1>3, <1>4, <1>5, <1>6 DEF Next

\* The map starts empty.
LEMMA InitAbs == Init => Abs!AbsInit
<1> SUFFICES ASSUME Init PROVE Abs!AbsInit
  OBVIOUS
<1>1. \A sn : ~Has(buddylist, sn)
  BY DEF Init, Has
<1> QED BY <1>1 DEF Init, Abs!AbsInit, Abs!Nobody, shown

\* After every packet or command the list shows of each name what the last
\* message about it said, and nothing after the session ended.
THEOREM Refinement == Spec => AbsSpec
BY InitAbs, NextAbs, Inductive, PTL DEF Spec, AbsSpec, Abs!AbsSpec

\* Sessions end and begin for the lists as the abstract connection says.
THEOREM KeepsToLink == Spec => LinkSpec
<1>1. Init => L!LinkInit
  BY DEF Init, L!LinkInit
<1>2. [Next]_vars => [L!LinkNext]_link
  <2> SUFFICES ASSUME [Next]_vars PROVE L!LinkNext \/ link' = link
    OBVIOUS
  <2>1. ASSUME NEW n \in Names, NEW isaway, NEW t, snac_get_signon(n, isaway, t)
        PROVE  link' = link
    BY <2>1 DEF snac_get_signon
  <2>2. ASSUME NEW n \in Names, snac_get_signoff(n) PROVE link' = link
    BY <2>2 DEF snac_get_signoff
  <2>3. ASSUME NEW n \in Names, NEW auto, snac_get_incoming_im(n, auto)
        PROVE  link' = link
    BY <2>3 DEF snac_get_incoming_im
  <2>4. ASSUME NEW n \in Names, input_delete_buddy(n) PROVE link' = link
    BY <2>4 DEF input_delete_buddy
  <2>5. Disconnected => L!Disconnected
    BY DEF Disconnected, L!Disconnected
  <2>6. OtherSignon => L!ClosedByServer
    BY DEF OtherSignon, L!ClosedByServer
  <2>7. handle_deleted => L!Dial \/ L!Trimmed
    BY DEF handle_deleted, L!Dial, L!Trimmed
  <2>8. input_reconnect => L!Dial
    BY DEF input_reconnect, L!Dial
  <2>9. UNCHANGED vars => link' = link
    BY DEF vars
  <2> QED BY <2>1, <2>2, <2>3, <2>4, <2>5, <2>6, <2>7, <2>8, <2>9
          DEF Next, L!LinkNext
<1> QED BY <1>1, <1>2, PTL DEF Spec, LinkSpec, L!LinkSpec

=============================================================================
