--------------------------- MODULE EVMStoreProofs ---------------------------
(* What the operations on the state database of the EVM preserve, for any     *)
(* sets of contracts and slots and any prices: the sum of the balances, the   *)
(* access list, one store, and the stack of stores with the frames on it.     *)
EXTENDS EVM, FiniteSetTheorems, WellFoundedInduction, TLAPS

----------------------------------------------------------------------------
(* Folds over finite sets                                                     *)

Choice(s) == CHOOSE x \in s : TRUE

\* A set of numbers that has 0 and with each number the next one has them all.
LEMMA CountUp ==
    ASSUME NEW G, 0 \in G, \A n \in Nat : n \in G => n + 1 \in G
    PROVE  Nat \subseteq G
<1>. DEFINE T == Nat \ G
            R == {ss \in Nat \X Nat : ss[1] < ss[2]}
<1>. SUFFICES ASSUME T # {} PROVE FALSE
  BY Zenon
<1>1. IsWellFoundedOn(R, Nat)
  BY NatLessThanWellFounded, Zenon DEF OpToRel
<1>2. \A x, y \in Nat : y < x => <<y, x>> \in R
  BY Zenon
<1>3. PICK n \in T : \A y \in T : ~(<<y, n>> \in R)
  <2>. HIDE DEF R
  <2>1. T \subseteq Nat
    BY Zenon
  <2>. HIDE DEF T
  <2>. QED BY <1>1, <2>1, WFMin, Zenon
<1>4. n \in Nat /\ n # 0
  BY Zenon
<1>5. n - 1 \in Nat /\ n - 1 < n
  BY <1>4
<1>6. n - 1 \in G
  <2>. HIDE DEF R
  <2>. QED BY <1>2, <1>3, <1>4, <1>5, Zenon
<1>. QED BY <1>4, <1>5, <1>6

\* A property of sets that adding the chosen element keeps holds of all finite sets.
LEMMA SubsetInduction ==
    ASSUME NEW S, IsFiniteSet(S), NEW G, {} \in G,
           \A s \in SUBSET S : s # {} /\ s \ {Choice(s)} \in G => s \in G
    PROVE  S \in G
<1>. DEFINE Sized(n) == {s \in SUBSET S : Cardinality(s) = n}
            H == {n \in Nat : Sized(n) \subseteq G}
<1>1. \A s \in SUBSET S : IsFiniteSet(s) /\ Cardinality(s) \in Nat
  BY FS_Subset, FS_CardinalityType, Zenon
<1>2. 0 \in H
  BY <1>1, FS_EmptySet, Zenon
<1>3. ASSUME NEW n \in Nat, n \in H PROVE n + 1 \in H
  <2>. SUFFICES ASSUME NEW s \in SUBSET S, Cardinality(s) = n + 1 PROVE s \in G
    OBVIOUS
  <2>1. s # {}
    BY FS_EmptySet
  <2>2. Choice(s) \in s
    BY <2>1, Zenon DEF Choice
  <2>3. Cardinality(s \ {Choice(s)}) = n
    BY <1>1, <2>2, FS_RemoveElement
  <2>. QED BY <1>3, <2>1, <2>3, Zenon
<1>4. Nat \subseteq H
  <2>. HIDE DEF H
  <2>. QED BY <1>2, <1>3, CountUp, Zenon
<1>. QED BY <1>1, <1>4, Zenon

\* The function a fold is defined by.
Folds(it, S, base, step) ==
    it = [s \in SUBSET S |-> IF s = {} THEN base ELSE step[<<Choice(s), it[s \ {Choice(s)}]>>]]

\* There is one: it is built up by the sizes of the sets.
LEMMA FoldExists ==
    ASSUME NEW S, IsFiniteSet(S), NEW T, NEW base \in T, NEW step \in [S \X T -> T]
    PROVE  \E it \in [SUBSET S -> T] : Folds(it, S, base, step)
<1>. DEFINE D(n) == {s \in SUBSET S : Cardinality(s) <= n}
            Value1(g, s) == IF s = {} THEN base ELSE step[<<Choice(s), g[s \ {Choice(s)}]>>]
            H == {n \in Nat : \E g \in [D(n) -> T] : \A s \in D(n) : g[s] = Value1(g, s)}
<1>1. \A s \in SUBSET S : IsFiniteSet(s) /\ Cardinality(s) \in Nat
  BY FS_Subset, FS_CardinalityType, Zenon
<1>2. \A s \in SUBSET S : s # {} => /\ Choice(s) \in s /\ Choice(s) \in S
                                    /\ s \ {Choice(s)} \in SUBSET S
                                    /\ Cardinality(s \ {Choice(s)}) = Cardinality(s) - 1
  <2>. TAKE s \in SUBSET S
  <2>. HAVE s # {}
  <2>1. Choice(s) \in s
    BY Zenon DEF Choice
  <2>. QED BY <1>1, <2>1, FS_RemoveElement, Zenon
<1>3. 0 \in H
  <2>1. D(0) = {{}}
    BY <1>1, FS_EmptySet
  <2>. DEFINE g == [s \in D(0) |-> base]
  <2>2. g \in [D(0) -> T] /\ \A s \in D(0) : g[s] = Value1(g, s)
    BY <2>1, Zenon
  <2>. QED BY <2>2, Zenon
<1>4. ASSUME NEW n \in Nat, n \in H PROVE n + 1 \in H
  <2>1. PICK g \in [D(n) -> T] : \A s \in D(n) : g[s] = Value1(g, s)
    BY <1>4, Zenon
  <2>. DEFINE h == [s \in D(n + 1) |-> Value1(g, s)]
  <2>2. ASSUME NEW s \in D(n + 1), s # {}
        PROVE  s \ {Choice(s)} \in D(n) /\ Choice(s) \in S
    BY <1>1, <1>2, <2>2
  <2>3. ASSUME NEW s \in D(n + 1) PROVE Value1(g, s) \in T
    BY <2>1, <2>2, Zenon
  <2>4. \A s \in D(n) : s \in D(n + 1) /\ h[s] = g[s]
    BY <1>1, <2>1
  <2>5. ASSUME NEW s \in D(n + 1) PROVE h[s] = Value1(h, s)
    <3>1. h[s] = Value1(g, s)
      BY Zenon
    <3>. HIDE DEF h, D
    <3>. QED BY <2>2, <2>4, <3>1, Zenon
  <2>6. h \in [D(n + 1) -> T]
    BY <2>3, Zenon
  <2>. HIDE DEF h, D, Value1
  <2>. QED BY <2>5, <2>6
<1>5. Cardinality(S) \in H
  <2>1. Nat \subseteq H
    <3>. HIDE DEF H
    <3>. QED BY <1>3, <1>4, CountUp, Zenon
  <2>. QED BY <1>1, <2>1, Zenon
<1>6. D(Cardinality(S)) = SUBSET S
  BY <1>1, FS_Subset, Zenon
<1>7. PICK it \in [SUBSET S -> T] : \A s \in SUBSET S : it[s] = Value1(it, s)
  <2>. HIDE DEF D, Value1
  <2>. QED BY <1>5, <1>6, Zenon
<1>8. it = [s \in SUBSET S |-> it[s]]
  BY Zenon
<1>9. it = [s \in SUBSET S |-> Value1(it, s)]
  <2>. HIDE DEF Value1
  <2>. QED BY <1>7, <1>8, Zenon
<1>. QED BY <1>9, Zenon DEF Folds

----------------------------------------------------------------------------
(* Balances                                                                   *)

\* The accounts whose balances make the supply are finitely many.
LEMMA AddrFinite == IsFiniteSet(Addr)
<1>1. IsFiniteSet({Sender, Validator})
  <2>1. {Sender, Validator} = {Sender} \cup {Validator}
    BY Zenon
  <2>2. IsFiniteSet({Sender})
    BY FS_Singleton, Zenon
  <2>. QED BY <2>1, <2>2, FS_AddElement, Zenon
<1>. QED BY <1>1, AccountsAssumption, FS_Union, Zenon DEF Addr, Coded

Sums(it, b) ==
    it = [s \in SUBSET Addr |-> IF s = {} THEN 0 ELSE b[Choice(s)] + it[s \ {Choice(s)}]]

\* What MapThenSumSet adds up, one address after the other.
LEMMA TotalUnfolds ==
    ASSUME NEW b \in [Addr -> Int]
    PROVE  \E it \in [SUBSET Addr -> Int] :
             /\ it[{}] = 0
             /\ \A s \in SUBSET Addr : s # {} => it[s] = b[Choice(s)] + it[s \ {Choice(s)}]
             /\ TotalOf(b) = it[Addr]
<1>. DEFINE step == [p \in Addr \X Int |-> b[p[1]] + p[2]]
            it == CHOOSE i : Sums(i, b)
<1>1. step \in [Addr \X Int -> Int] /\ 0 \in Int
  OBVIOUS
<1>2. PICK i \in [SUBSET Addr -> Int] : Folds(i, Addr, 0, step)
  <2>. HIDE DEF step
  <2>. QED BY <1>1, AddrFinite, FoldExists, ZenonT(40)
<1>3. \A s \in SUBSET Addr : s # {} => Choice(s) \in Addr /\ s \ {Choice(s)} \in SUBSET Addr
  BY Zenon DEF Choice
<1>4. \A s \in SUBSET Addr : s # {} => step[<<Choice(s), i[s \ {Choice(s)}]>>] = b[Choice(s)] + i[s \ {Choice(s)}]
  BY <1>3, Zenon
<1>5. Sums(i, b)
  <2>. HIDE DEF step
  <2>. QED BY <1>2, <1>4, Zenon DEF Folds, Sums
<1>6. Sums(it, b)
  BY <1>5, Zenon
<1>. HIDE DEF it
<1>7. it[{}] = 0 /\ \A s \in SUBSET Addr : s # {} => it[s] = b[Choice(s)] + it[s \ {Choice(s)}]
  BY <1>6, Zenon DEF Sums
<1>8. it \in [SUBSET Addr -> Int]
  <2>. DEFINE G == {s \in SUBSET Addr : it[s] \in Int}
  <2>1. ASSUME NEW t \in SUBSET Addr PROVE t \in G
    <3>1. IsFiniteSet(t)
      BY AddrFinite, FS_Subset, Zenon
    <3>2. {} \in G
      BY <1>7
    <3>3. \A s \in SUBSET t : s # {} /\ s \ {Choice(s)} \in G => s \in G
      BY <1>3, <1>7
    <3>. HIDE DEF G
    <3>. QED BY <3>1, <3>2, <3>3, SubsetInduction, Zenon
  <2>2. it = [s \in SUBSET Addr |-> it[s]]
    BY <1>6, Zenon DEF Sums
  <2>. QED BY <2>1, <2>2, Zenon
<1>9. TotalOf(b) = it[Addr]
  BY Zenon DEF TotalOf, MapThenSumSet, MapThenFoldSet, Sums, Choice, it
<1>. QED BY <1>7, <1>8, <1>9, Zenon

\* A change of one balance changes the total by as much.
LEMMA TotalShifts ==
    ASSUME NEW b \in [Addr -> Int], NEW x \in Addr, NEW d \in Int
    PROVE  TotalOf([b EXCEPT ![x] = @ + d]) = TotalOf(b) + d
<1>. DEFINE c == [b EXCEPT ![x] = @ + d]
<1>1. c \in [Addr -> Int] /\ c[x] = b[x] + d /\ \A a \in Addr \ {x} : c[a] = b[a]
  OBVIOUS
<1>. HIDE DEF c
<1>2. PICK i \in [SUBSET Addr -> Int] :
         /\ i[{}] = 0
         /\ \A s \in SUBSET Addr : s # {} => i[s] = b[Choice(s)] + i[s \ {Choice(s)}]
         /\ TotalOf(b) = i[Addr]
  BY TotalUnfolds, Zenon
<1>3. PICK j \in [SUBSET Addr -> Int] :
         /\ j[{}] = 0
         /\ \A s \in SUBSET Addr : s # {} => j[s] = c[Choice(s)] + j[s \ {Choice(s)}]
         /\ TotalOf(c) = j[Addr]
  BY <1>1, TotalUnfolds, Zenon
<1>. DEFINE G == {s \in SUBSET Addr : j[s] = i[s] + (IF x \in s THEN d ELSE 0)}
<1>4. {} \in G
  BY <1>2, <1>3
<1>5. ASSUME NEW s \in SUBSET Addr, s # {}, s \ {Choice(s)} \in G PROVE s \in G
  <2>1. Choice(s) \in s /\ Choice(s) \in Addr
    BY <1>5, Zenon DEF Choice
  <2>2. i[s \ {Choice(s)}] \in Int /\ b[Choice(s)] \in Int
    BY <2>1, Zenon
  <2>. QED BY <1>1, <1>2, <1>3, <1>5, <2>1, <2>2
<1>6. Addr \in G
  <2>. HIDE DEF G
  <2>. QED BY <1>4, <1>5, AddrFinite, SubsetInduction, Zenon
<1>. QED BY <1>2, <1>3, <1>6, Zenon DEF c

\* The total of the genesis.
LEMMA TotalAtFirst ==
    TotalOf([a \in Addr |-> CASE a = Sender -> Balance [] a \in Contracts -> 1 [] OTHER -> 0])
      = Balance + Cardinality(Contracts)
<1>. DEFINE b == [a \in Addr |-> CASE a = Sender -> Balance [] a \in Contracts -> 1 [] OTHER -> 0]
<1>1. /\ b \in [Addr -> Int] /\ b[Sender] = Balance
      /\ \A a \in Contracts : b[a] = 1
      /\ \A a \in Addr \ ({Sender} \cup Contracts) : b[a] = 0
  BY AccountsAssumption, AmountsAssumption DEF Addr, Coded
<1>. HIDE DEF b
<1>2. PICK i \in [SUBSET Addr -> Int] :
         /\ i[{}] = 0
         /\ \A s \in SUBSET Addr : s # {} => i[s] = b[Choice(s)] + i[s \ {Choice(s)}]
         /\ TotalOf(b) = i[Addr]
  BY <1>1, TotalUnfolds, Zenon
<1>3. \A s \in SUBSET Addr : IsFiniteSet(s \cap Contracts) /\ Cardinality(s \cap Contracts) \in Nat
  BY AddrFinite, FS_Subset, FS_CardinalityType, AccountsAssumption, Zenon
<1>. DEFINE G == {s \in SUBSET Addr : i[s] = (IF Sender \in s THEN Balance ELSE 0) + Cardinality(s \cap Contracts)}
<1>4. {} \in G
  <2>1. {} \cap Contracts = {}
    BY Zenon
  <2>. QED BY <1>2, <2>1, FS_EmptySet
<1>5. ASSUME NEW s \in SUBSET Addr, s # {}, s \ {Choice(s)} \in G PROVE s \in G
  <2>. DEFINE x == Choice(s)
              t == s \ {x}
  <2>1. x \in s /\ x \in Addr
    BY <1>5, Zenon DEF Choice
  <2>2. i[s] = b[x] + i[t] /\ t \in SUBSET Addr /\ x \notin t /\ \A a \in s : a = x \/ a \in t
    BY <1>2, <1>5, Zenon
  <2>3. i[t] = (IF Sender \in t THEN Balance ELSE 0) + Cardinality(t \cap Contracts)
    BY <1>5, Zenon
  <2>4. Cardinality(t \cap Contracts) \in Nat
    BY <1>3, <2>2, Zenon
  <2>. HIDE DEF t, x, Choice
  <2>5. CASE x = Sender
    <3>1. s \cap Contracts = t \cap Contracts
      BY <2>5, AccountsAssumption, Zenon DEF t, x
    <3>2. Cardinality(s \cap Contracts) = Cardinality(t \cap Contracts)
      BY <3>1, Zenon
    <3>. QED BY <1>1, <2>1, <2>2, <2>3, <2>4, <2>5, <3>2, AmountsAssumption
  <2>6. CASE x \in Contracts
    <3>1. s \cap Contracts = (t \cap Contracts) \cup {x} /\ x \notin t \cap Contracts /\ x # Sender
      BY <2>1, <2>6, AccountsAssumption, Zenon DEF t, x
    <3>2. Cardinality(s \cap Contracts) = Cardinality(t \cap Contracts) + 1
      BY <1>3, <2>2, <3>1, FS_AddElement, Zenon
    <3>3. Sender \in s <=> Sender \in t
      BY <3>1, Zenon DEF t, x
    <3>. QED BY <1>1, <2>1, <2>2, <2>3, <2>4, <2>6, <3>2, <3>3, AmountsAssumption
  <2>7. CASE x # Sender /\ x \notin Contracts
    <3>1. s \cap Contracts = t \cap Contracts /\ (Sender \in s <=> Sender \in t)
      BY <2>7, Zenon DEF t, x
    <3>2. Cardinality(s \cap Contracts) = Cardinality(t \cap Contracts)
      BY <3>1, Zenon
    <3>. QED BY <1>1, <2>1, <2>2, <2>3, <2>4, <2>7, <3>1, <3>2, AmountsAssumption
  <2>. QED BY <2>5, <2>6, <2>7, Zenon
<1>6. Addr \in G
  <2>. HIDE DEF G
  <2>. QED BY <1>4, <1>5, AddrFinite, SubsetInduction, Zenon
<1>7. Sender \in Addr /\ Addr \cap Contracts = Contracts
  BY Zenon DEF Addr, Coded
<1>. QED BY <1>2, <1>6, <1>7, Zenon DEF b

----------------------------------------------------------------------------
(* The access list                                                            *)

Lists == {al \in AccessList : Indexed(al)}

\* What is in a list that has no slot.
LEMMA NewListFits ==
    newAccessList \in Lists /\ \A a \in Addr, s \in Slot : ~ContainsSlot(newAccessList, a, s)
<1>1. newAccessList.slots \in Seq(SUBSET Slot) /\ Len(newAccessList.slots) = 0
  BY DEF newAccessList
<1>2. \A a \in Addr : newAccessList.addresses[a] = -1
  BY Zenon DEF newAccessList, absent
<1>3. newAccessList \in AccessList
  BY <1>1, Zenon DEF newAccessList, AccessList, absent
<1>. QED BY <1>1, <1>2, <1>3 DEF Lists, Indexed, ContainsSlot, absent, noSlots

\* AddAddress lists the address and loses nothing.
LEMMA AddAddressFits ==
    ASSUME NEW al \in Lists, NEW a \in Addr
    PROVE  /\ AddAddress(al, a) \in Lists
           /\ ContainsAddress(AddAddress(al, a), a)
           /\ \A b \in Addr : ContainsAddress(al, b) => ContainsAddress(AddAddress(al, a), b)
           /\ \A b \in Addr, s \in Slot : ContainsSlot(AddAddress(al, a), b, s) <=> ContainsSlot(al, b, s)
<1>1. al.addresses \in [Addr -> Nat \cup {-1}] /\ al.slots \in Seq(SUBSET Slot)
  BY Zenon DEF Lists, AccessList, absent
<1>2. CASE al.addresses[a] # absent
  BY <1>2, Zenon DEF AddAddress, ContainsAddress
<1>3. CASE al.addresses[a] = absent
  <2>. DEFINE n == AddAddress(al, a)
  <2>1. n = [al EXCEPT !.addresses[a] = noSlots]
    BY <1>3, Zenon DEF AddAddress
  <2>2. n = [addresses |-> [al.addresses EXCEPT ![a] = 0], slots |-> al.slots]
    BY <2>1, Zenon DEF Lists, AccessList, noSlots
  <2>3. n.slots = al.slots /\ n.addresses[a] = 0 /\ \A b \in Addr \ {a} : n.addresses[b] = al.addresses[b]
    BY <1>1, <2>2
  <2>4. n \in AccessList
    BY <1>1, <2>2 DEF AccessList, absent
  <2>. HIDE DEF n
  <2>5. Indexed(al) /\ Len(al.slots) \in Nat
    BY <1>1 DEF Lists
  <2>6. Indexed(n)
    BY <1>1, <2>3, <2>5, SMTT(30) DEF Indexed
  <2>7. \A b \in Addr : ContainsAddress(al, b) => ContainsAddress(n, b)
    BY <1>1, <2>3 DEF ContainsAddress, absent
  <2>8. \A b \in Addr, s \in Slot : ContainsSlot(n, b, s) <=> ContainsSlot(al, b, s)
    BY <1>1, <1>3, <2>3, Zenon DEF ContainsSlot, absent, noSlots
  <2>9. ContainsAddress(n, a)
    BY <2>3 DEF ContainsAddress, absent
  <2>. QED BY <2>4, <2>6, <2>7, <2>8, <2>9, Zenon DEF n, Lists
<1>. QED BY <1>2, <1>3, Zenon

\* AddSlot adds the one slot, whether or not the address had any.
LEMMA AddSlotFits ==
    ASSUME NEW al \in Lists, NEW a \in Addr, NEW x \in Slot
    PROVE  /\ AddSlot(al, a, x) \in Lists
           /\ \A b \in Addr : ContainsAddress(al, b) => ContainsAddress(AddSlot(al, a, x), b)
           /\ \A b \in Addr, s \in Slot :
                ContainsSlot(AddSlot(al, a, x), b, s) <=> ContainsSlot(al, b, s) \/ (b = a /\ s = x)
<1>. DEFINE n == AddSlot(al, a, x)
            k == Len(al.slots)
<1>1. al.addresses \in [Addr -> Nat \cup {-1}] /\ al.slots \in Seq(SUBSET Slot) /\ Indexed(al)
  BY Zenon DEF Lists, AccessList, absent
<1>2. k \in Nat
  BY <1>1
<1>3. CASE al.addresses[a] \in {absent, noSlots}
  <2>1. n = [addresses |-> [al.addresses EXCEPT ![a] = k + 1], slots |-> Append(al.slots, {x})]
    BY <1>3, Zenon DEF AddSlot
  <2>2. n.addresses[a] = k + 1 /\ \A b \in Addr \ {a} : n.addresses[b] = al.addresses[b]
    BY <1>1, <2>1
  <2>3. /\ n.slots \in Seq(SUBSET Slot) /\ Len(n.slots) = k + 1
        /\ n.slots[k + 1] = {x} /\ \A i \in 1 .. k : n.slots[i] = al.slots[i]
    BY <1>1, <2>1
  <2>4. n \in AccessList
    <3>1. n.addresses \in [Addr -> Nat \cup {-1}]
      BY <1>1, <1>2, <2>1
    <3>. QED BY <2>1, <2>3, <3>1, Zenon DEF AccessList, absent
  <2>. HIDE DEF n, k
  <2>5. \A b \in Addr : al.addresses[b] <= k
    BY <1>1, Zenon DEF Indexed, k
  <2>6. Indexed(n)
    BY <1>1, <1>2, <2>2, <2>3, <2>5, SMTT(30) DEF Indexed
  <2>7. \A b \in Addr : ContainsAddress(al, b) => ContainsAddress(n, b)
    BY <1>1, <1>2, <2>2 DEF ContainsAddress, absent
  <2>8. ASSUME NEW b \in Addr, NEW s \in Slot
        PROVE  ContainsSlot(n, b, s) <=> ContainsSlot(al, b, s) \/ (b = a /\ s = x)
    <3>1. CASE b = a
      BY <1>2, <1>3, <2>2, <2>3, <3>1 DEF ContainsSlot, absent, noSlots
    <3>2. CASE b # a
      <4>1. n.addresses[b] = al.addresses[b]
        BY <2>2, <3>2, Zenon
      <4>2. al.addresses[b] \notin {-1, 0} => al.addresses[b] \in 1 .. k
        BY <1>1, <1>2, <2>5
      <4>3. al.addresses[b] \notin {-1, 0} => n.slots[n.addresses[b]] = al.slots[al.addresses[b]]
        BY <2>3, <4>1, <4>2, Zenon
      <4>. QED BY <3>2, <4>1, <4>3, Zenon DEF ContainsSlot, absent, noSlots
    <3>. QED BY <3>1, <3>2, Zenon
  <2>. QED BY <2>4, <2>6, <2>7, <2>8, Zenon DEF n, Lists
<1>4. CASE al.addresses[a] \notin {absent, noSlots}
  <2>. DEFINE m == al.addresses[a]
  <2>1. n = [al EXCEPT !.slots[m] = @ \cup {x}]
    BY <1>4, Zenon DEF AddSlot
  <2>2. m \in 1 .. k
    BY <1>1, <1>2, <1>4 DEF Indexed, absent, noSlots
  <2>3. n = [addresses |-> al.addresses, slots |-> [al.slots EXCEPT ![m] = @ \cup {x}]]
    BY <2>1, Zenon DEF Lists, AccessList
  <2>4. /\ n.slots \in Seq(SUBSET Slot) /\ Len(n.slots) = k /\ n.slots[m] = al.slots[m] \cup {x}
        /\ \A i \in 1 .. k : i # m => n.slots[i] = al.slots[i]
    BY <1>1, <2>2, <2>3
  <2>5. n.addresses = al.addresses
    BY <2>3
  <2>6. n \in AccessList
    BY <1>1, <2>3, <2>4, <2>5, Zenon DEF AccessList, absent
  <2>. HIDE DEF n, k, m
  <2>7. Indexed(n)
    BY <1>1, <2>4, <2>5, Zenon DEF Indexed, k
  <2>8. ASSUME NEW b \in Addr, NEW s \in Slot
        PROVE  ContainsSlot(n, b, s) <=> ContainsSlot(al, b, s) \/ (b = a /\ s = x)
    <3>1. CASE b = a
      <4>1. ContainsSlot(n, b, s) <=> s \in n.slots[m]
        BY <1>4, <2>5, <3>1, Zenon DEF ContainsSlot, m
      <4>2. ContainsSlot(al, b, s) <=> s \in al.slots[m]
        BY <1>4, <3>1, Zenon DEF ContainsSlot, m
      <4>. QED BY <2>4, <3>1, <4>1, <4>2, Zenon
    <3>2. CASE b # a
      <4>1. al.addresses[b] \notin {-1, 0} => al.addresses[b] \in 1 .. k
        BY <1>1, <1>2 DEF Indexed, k
      <4>2. al.addresses[b] \notin {-1, 0} => al.addresses[b] # m
        BY <1>1, <1>2, <2>2, <3>2 DEF Indexed, m
      <4>3. al.addresses[b] \notin {-1, 0} => n.slots[n.addresses[b]] = al.slots[al.addresses[b]]
        BY <2>4, <2>5, <4>1, <4>2, Zenon
      <4>. QED BY <2>5, <3>2, <4>3, Zenon DEF ContainsSlot, absent, noSlots
    <3>. QED BY <3>1, <3>2, Zenon
  <2>. QED BY <2>5, <2>6, <2>7, <2>8, Zenon DEF n, Lists, ContainsAddress
<1>. QED BY <1>3, <1>4, Zenon

\* The first fold of PrepareAccessList lists the addresses it is given.
LEMMA ListsAddresses ==
    ASSUME NEW D \in SUBSET Addr
    PROVE  LET al == FoldSet(LAMBDA a, l : AddAddress(l, a), newAccessList, D)
           IN  /\ al \in Lists
               /\ \A a \in D : ContainsAddress(al, a)
               /\ \A a \in Addr, s \in Slot : ~ContainsSlot(al, a, s)
<1>. DEFINE step == [p \in D \X Lists |-> AddAddress(p[2], p[1])]
            Eq(i) == i = [s \in SUBSET D |-> IF s = {} THEN newAccessList
                                             ELSE AddAddress(i[s \ {Choice(s)}], Choice(s))]
            it == CHOOSE i : Eq(i)
<1>1. IsFiniteSet(D) /\ newAccessList \in Lists
  BY AddrFinite, FS_Subset, NewListFits, Zenon
<1>2. step \in [D \X Lists -> Lists]
  BY AddAddressFits, Zenon
<1>3. PICK i \in [SUBSET D -> Lists] : Folds(i, D, newAccessList, step)
  <2>. HIDE DEF step
  <2>. QED BY <1>1, <1>2, FoldExists, Zenon
<1>4. \A s \in SUBSET D : s # {} => Choice(s) \in s /\ Choice(s) \in D /\ s \ {Choice(s)} \in SUBSET D
  BY Zenon DEF Choice
<1>5. \A s \in SUBSET D : s # {} => step[<<Choice(s), i[s \ {Choice(s)}]>>] = AddAddress(i[s \ {Choice(s)}], Choice(s))
  BY <1>4, Zenon
<1>6. Eq(i)
  <2>. HIDE DEF step
  <2>. QED BY <1>3, <1>5, Zenon DEF Folds
<1>7. Eq(it)
  <2>. HIDE DEF Eq
  <2>. QED BY <1>6, Zenon
<1>8. FoldSet(LAMBDA a, l : AddAddress(l, a), newAccessList, D) = it[D]
  BY Zenon DEF FoldSet, MapThenFoldSet, Choice
<1>9. it[{}] = newAccessList /\ \A s \in SUBSET D : s # {} => it[s] = AddAddress(it[s \ {Choice(s)}], Choice(s))
  <2>. HIDE DEF it
  <2>. QED BY <1>7, Zenon
<1>. HIDE DEF it
<1>. DEFINE G == {s \in SUBSET D : /\ it[s] \in Lists
                                   /\ \A a \in s : ContainsAddress(it[s], a)
                                   /\ \A a \in Addr, x \in Slot : ~ContainsSlot(it[s], a, x)}
<1>10. {} \in G
  BY <1>9, NewListFits, Zenon
<1>11. ASSUME NEW s \in SUBSET D, s # {}, s \ {Choice(s)} \in G PROVE s \in G
  <2>. DEFINE c == Choice(s)
              t == s \ {c}
  <2>1. c \in s /\ c \in Addr /\ it[s] = AddAddress(it[t], c) /\ \A a \in s : a = c \/ a \in t
    BY <1>4, <1>9, <1>11, Zenon
  <2>2. it[t] \in Lists /\ (\A a \in t : ContainsAddress(it[t], a)) /\ \A a \in Addr, x \in Slot : ~ContainsSlot(it[t], a, x)
    BY <1>11, Zenon
  <2>. HIDE DEF t, c
  <2>3. /\ AddAddress(it[t], c) \in Lists /\ ContainsAddress(AddAddress(it[t], c), c)
        /\ \A b \in Addr : ContainsAddress(it[t], b) => ContainsAddress(AddAddress(it[t], c), b)
        /\ \A b \in Addr, x \in Slot : ContainsSlot(AddAddress(it[t], c), b, x) <=> ContainsSlot(it[t], b, x)
    BY <2>1, <2>2, AddAddressFits, Zenon
  <2>4. \A a \in s : ContainsAddress(it[s], a)
    BY <2>1, <2>2, <2>3, Zenon
  <2>. QED BY <2>1, <2>2, <2>3, <2>4, Zenon
<1>12. D \in G
  <2>. HIDE DEF G
  <2>. QED BY <1>1, <1>10, <1>11, SubsetInduction, Zenon
<1>. QED BY <1>8, <1>12, Zenon

\* The second one lists the slots of the transaction's own list.
LEMMA ListsSlots ==
    ASSUME NEW base \in Lists, NEW L \in SUBSET (Addr \X Slot), IsFiniteSet(L),
           \A a \in Addr, s \in Slot : ~ContainsSlot(base, a, s)
    PROVE  LET al == FoldSet(LAMBDA p, l : AddSlot(AddAddress(l, p[1]), p[1], p[2]), base, L)
           IN  /\ al \in Lists
               /\ \A a \in Addr : ContainsAddress(base, a) => ContainsAddress(al, a)
               /\ \A a \in Addr, s \in Slot : ContainsSlot(al, a, s) <=> <<a, s>> \in L
<1>. DEFINE op(p, l) == AddSlot(AddAddress(l, p[1]), p[1], p[2])
            step == [q \in L \X Lists |-> op(q[1], q[2])]
            Eq(i) == i = [s \in SUBSET L |-> IF s = {} THEN base ELSE op(Choice(s), i[s \ {Choice(s)}])]
            it == CHOOSE i : Eq(i)
<1>1. ASSUME NEW p \in L, NEW l \in Lists
      PROVE  /\ op(p, l) \in Lists
             /\ \A a \in Addr : ContainsAddress(l, a) => ContainsAddress(op(p, l), a)
             /\ \A a \in Addr, s \in Slot : ContainsSlot(op(p, l), a, s) <=> ContainsSlot(l, a, s) \/ <<a, s>> = p
  <2>1. p[1] \in Addr /\ p[2] \in Slot /\ p = <<p[1], p[2]>>
    OBVIOUS
  <2>. DEFINE m == AddAddress(l, p[1])
  <2>2. /\ m \in Lists
        /\ \A b \in Addr : ContainsAddress(l, b) => ContainsAddress(m, b)
        /\ \A b \in Addr, s \in Slot : ContainsSlot(m, b, s) <=> ContainsSlot(l, b, s)
    BY <2>1, AddAddressFits, Zenon
  <2>. HIDE DEF m
  <2>3. /\ AddSlot(m, p[1], p[2]) \in Lists
        /\ \A b \in Addr : ContainsAddress(m, b) => ContainsAddress(AddSlot(m, p[1], p[2]), b)
        /\ \A b \in Addr, s \in Slot :
             ContainsSlot(AddSlot(m, p[1], p[2]), b, s) <=> ContainsSlot(m, b, s) \/ (b = p[1] /\ s = p[2])
    BY <2>1, <2>2, AddSlotFits
  <2>4. op(p, l) = AddSlot(m, p[1], p[2])
    BY Zenon DEF m
  <2>. HIDE DEF op
  <2>5. \A a \in Addr, s \in Slot : <<a, s>> = p <=> a = p[1] /\ s = p[2]
    BY <2>1
  <2>. QED BY <2>2, <2>3, <2>4, <2>5, ZenonT(40)
<1>. HIDE DEF op
<1>2. step \in [L \X Lists -> Lists]
  BY <1>1, Zenon
<1>3. PICK i \in [SUBSET L -> Lists] : Folds(i, L, base, step)
  <2>. HIDE DEF step
  <2>. QED BY <1>2, FoldExists, Zenon
<1>4. \A s \in SUBSET L : s # {} => Choice(s) \in s /\ Choice(s) \in L /\ s \ {Choice(s)} \in SUBSET L
  BY Zenon DEF Choice
<1>5. \A s \in SUBSET L : s # {} => step[<<Choice(s), i[s \ {Choice(s)}]>>] = op(Choice(s), i[s \ {Choice(s)}])
  BY <1>4, Zenon
<1>6. Eq(i)
  <2>. HIDE DEF step
  <2>. QED BY <1>3, <1>5, Zenon DEF Folds
<1>7. Eq(it)
  <2>. HIDE DEF Eq
  <2>. QED BY <1>6, Zenon
<1>8. FoldSet(LAMBDA p, l : AddSlot(AddAddress(l, p[1]), p[1], p[2]), base, L) = it[L]
  BY Zenon DEF FoldSet, MapThenFoldSet, Choice, op
<1>9. it[{}] = base /\ \A s \in SUBSET L : s # {} => it[s] = op(Choice(s), it[s \ {Choice(s)}])
  <2>. HIDE DEF it
  <2>. QED BY <1>7, Zenon
<1>. HIDE DEF it
<1>. DEFINE G == {s \in SUBSET L :
                    /\ it[s] \in Lists
                    /\ \A a \in Addr : ContainsAddress(base, a) => ContainsAddress(it[s], a)
                    /\ \A a \in Addr, x \in Slot : ContainsSlot(it[s], a, x) <=> <<a, x>> \in s}
<1>10. {} \in G
  BY <1>9, Zenon
<1>11. ASSUME NEW s \in SUBSET L, s # {}, s \ {Choice(s)} \in G PROVE s \in G
  <2>. DEFINE c == Choice(s)
              t == s \ {c}
  <2>1. c \in L /\ it[s] = op(c, it[t]) /\ \A q : q \in s <=> q \in t \/ q = c
    BY <1>4, <1>9, <1>11, Zenon
  <2>2. /\ it[t] \in Lists
        /\ \A a \in Addr : ContainsAddress(base, a) => ContainsAddress(it[t], a)
        /\ \A a \in Addr, x \in Slot : ContainsSlot(it[t], a, x) <=> <<a, x>> \in t
    BY <1>11, Zenon
  <2>. HIDE DEF t, c
  <2>3. /\ it[s] \in Lists
        /\ \A a \in Addr : ContainsAddress(it[t], a) => ContainsAddress(it[s], a)
        /\ \A a \in Addr, x \in Slot : ContainsSlot(it[s], a, x) <=> ContainsSlot(it[t], a, x) \/ <<a, x>> = c
    BY <1>1, <2>1, <2>2
  <2>4. \A a \in Addr, x \in Slot : ContainsSlot(it[s], a, x) <=> <<a, x>> \in s
    BY <2>1, <2>2, <2>3, Zenon
  <2>. QED BY <2>2, <2>3, <2>4, Zenon
<1>12. L \in G
  <2>. HIDE DEF G
  <2>. QED BY <1>10, <1>11, SubsetInduction, Zenon
<1>. QED BY <1>8, <1>12, Zenon

----------------------------------------------------------------------------
(* Stores                                                                     *)

\* A store that may follow another one in a frame.
Grows(original, st, n) ==
    /\ n \in Store /\ StoreFits(original, n)
    /\ \A a \in Addr : Listed(st, a) => Listed(n, a)

\* It is a store for the same transaction and shows the same.
Same(st, n) ==
    /\ n.slots = st.slots /\ n.balance = st.balance /\ n.nonce = st.nonce /\ n.code = st.code
    /\ n.logs = st.logs /\ n.fund = st.fund

\* A step that changes only the access list changes nothing a static call protects.
LEMMA SameIsVisible ==
    ASSUME NEW st, NEW n, Same(st, n) PROVE Visible(n) = Visible(st)
BY Zenon DEF Same, Visible

\* The fields of a store.
LEMMA StoreFields ==
    ASSUME NEW st \in Store
    PROVE  /\ st.slots \in [Coded -> [Slot -> Value \cup {0, 1}]] /\ st.balance \in [Addr -> Nat]
           /\ st.supply \in Nat /\ st.minted \in Nat /\ st.nonce \in [Addr -> Nat]
           /\ st.code \in SUBSET (Coded \cup Natives) /\ st.native \in Nat /\ st.fund \in Int
           /\ st.logs \in Nat /\ st.access \in AccessList /\ st.accessed \in SUBSET (Coded \X Slot)
BY Zenon DEF Store

\* A store with another access list.
WithAccess(st, al, used) == [st EXCEPT !.access = al, !.accessed = used]

\* Another list changes nothing else.
LEMMA AccessChanges ==
    ASSUME NEW st \in Store, NEW al \in AccessList, NEW used \in SUBSET (Coded \X Slot)
    PROVE  LET n == WithAccess(st, al, used)
           IN  /\ n \in Store /\ n.access = al /\ n.accessed = used
               /\ n.slots = st.slots /\ n.balance = st.balance /\ n.supply = st.supply /\ n.minted = st.minted
               /\ n.nonce = st.nonce /\ n.code = st.code /\ n.logs = st.logs /\ n.fund = st.fund
<1>. DEFINE n == WithAccess(st, al, used)
<1>1. n \in Store
  BY Zenon DEF Store, WithAccess
<1>2. /\ n.access = al /\ n.accessed = used
      /\ n.slots = st.slots /\ n.balance = st.balance /\ n.supply = st.supply /\ n.minted = st.minted
      /\ n.nonce = st.nonce /\ n.code = st.code /\ n.logs = st.logs /\ n.fund = st.fund
  BY Zenon DEF Store, WithAccess
<1>. QED BY <1>1, <1>2, Zenon

\* AddAddressToAccessList.
LEMMA TouchFits ==
    ASSUME NEW o, NEW st \in Store, StoreFits(o, st), NEW a \in Addr
    PROVE  Grows(o, st, Touch(st, a)) /\ Same(st, Touch(st, a)) /\ Listed(Touch(st, a), a)
<1>. DEFINE al == AddAddress(st.access, a)
            n == WithAccess(st, al, st.accessed)
<1>1. st.access \in Lists /\ st.accessed \in SUBSET (Coded \X Slot)
  BY StoreFields, Zenon DEF StoreFits, Lists
<1>2. /\ al \in Lists /\ ContainsAddress(al, a)
      /\ \A b \in Addr : ContainsAddress(st.access, b) => ContainsAddress(al, b)
      /\ \A b \in Addr, s \in Slot : ContainsSlot(al, b, s) <=> ContainsSlot(st.access, b, s)
  BY <1>1, AddAddressFits, Zenon
<1>3. al \in AccessList /\ Indexed(al)
  BY <1>2, Zenon DEF Lists
<1>4. Touch(st, a) = n
  BY Zenon DEF Touch, Store, WithAccess
<1>. HIDE DEF al
<1>5. /\ n \in Store /\ n.access = al /\ n.accessed = st.accessed
      /\ n.slots = st.slots /\ n.balance = st.balance /\ n.supply = st.supply /\ n.minted = st.minted
      /\ n.nonce = st.nonce /\ n.code = st.code /\ n.logs = st.logs /\ n.fund = st.fund
  BY <1>1, <1>3, AccessChanges, Zenon
<1>. HIDE DEF n
<1>6. StoreFits(o, n)
  <2>1. Exact(n)
    BY <1>2, <1>5, Zenon DEF StoreFits, Exact
  <2>2. Cleared(o, n) = Cleared(o, st)
    BY <1>5, Zenon DEF Cleared
  <2>. QED BY <1>3, <1>5, <2>1, <2>2, Zenon DEF StoreFits
<1>. QED BY <1>2, <1>4, <1>5, <1>6, Zenon DEF Grows, Same, Listed

\* AddSlotToAccessList.
LEMMA UseFits ==
    ASSUME NEW o, NEW st \in Store, StoreFits(o, st), NEW a \in Coded, NEW x \in Slot
    PROVE  LET n == [st EXCEPT !.access = AddSlot(@, a, x), !.accessed = @ \cup {<<a, x>>}]
           IN  Grows(o, st, n) /\ Same(st, n)
<1>. DEFINE al == AddSlot(st.access, a, x)
            used == st.accessed \cup {<<a, x>>}
            n == WithAccess(st, al, used)
<1>1. st.access \in Lists /\ st.accessed \in SUBSET (Coded \X Slot) /\ a \in Addr
  BY StoreFields, Zenon DEF StoreFits, Lists, Addr
<1>2. /\ al \in Lists
      /\ \A b \in Addr : ContainsAddress(st.access, b) => ContainsAddress(al, b)
      /\ \A b \in Addr, s \in Slot : ContainsSlot(al, b, s) <=> ContainsSlot(st.access, b, s) \/ (b = a /\ s = x)
  BY <1>1, AddSlotFits, Zenon
<1>3. al \in AccessList /\ Indexed(al) /\ used \in SUBSET (Coded \X Slot)
  BY <1>1, <1>2 DEF Lists
<1>4. \A b, s : <<b, s>> \in used <=> <<b, s>> \in st.accessed \/ (b = a /\ s = x)
  BY Zenon
<1>. HIDE DEF al, used
<1>5. /\ n \in Store /\ n.access = al /\ n.accessed = used
      /\ n.slots = st.slots /\ n.balance = st.balance /\ n.supply = st.supply /\ n.minted = st.minted
      /\ n.nonce = st.nonce /\ n.code = st.code /\ n.logs = st.logs /\ n.fund = st.fund
  BY <1>1, <1>3, AccessChanges, Zenon
<1>. HIDE DEF n
<1>6. StoreFits(o, n)
  <2>1. Exact(n)
    BY <1>2, <1>4, <1>5, Zenon DEF StoreFits, Exact
  <2>2. Cleared(o, n) = Cleared(o, st)
    BY <1>5, Zenon DEF Cleared
  <2>. QED BY <1>3, <1>5, <2>1, <2>2, Zenon DEF StoreFits
<1>7. Grows(o, st, n) /\ Same(st, n)
  BY <1>2, <1>5, <1>6, Zenon DEF Grows, Same, Listed
<1>. QED BY <1>7, Zenon DEF n, al, used, WithAccess

\* What the fit of a store depends on.
LEMMA SameFits ==
    ASSUME NEW o, NEW st \in Store, StoreFits(o, st), NEW n \in Store,
           n.slots = st.slots, n.balance = st.balance, n.supply = st.supply, n.minted = st.minted,
           n.fund = st.fund, n.access = st.access, n.accessed = st.accessed
    PROVE  Grows(o, st, n)
<1>1. Cleared(o, n) = Cleared(o, st)
  BY Zenon DEF Cleared
<1>2. Exact(n)
  BY Zenon DEF StoreFits, Exact
<1>3. StoreFits(o, n)
  BY <1>1, <1>2, Zenon DEF StoreFits
<1>. QED BY <1>3, Zenon DEF Grows, Listed

\* SetNonce.
LEMMA NonceFits ==
    ASSUME NEW o, NEW st \in Store, StoreFits(o, st), NEW a \in Addr, NEW k \in Nat
    PROVE  LET n == SetNonce(st, a, k)
           IN  /\ Grows(o, st, n)
               /\ n.nonce = [st.nonce EXCEPT ![a] = k]
               /\ n.slots = st.slots /\ n.balance = st.balance /\ n.code = st.code /\ n.logs = st.logs
               /\ n.fund = st.fund /\ n.access = st.access
<1>. DEFINE n == SetNonce(st, a, k)
<1>1. /\ n.nonce = [st.nonce EXCEPT ![a] = k]
      /\ n.slots = st.slots /\ n.balance = st.balance /\ n.supply = st.supply /\ n.minted = st.minted
      /\ n.code = st.code /\ n.logs = st.logs /\ n.fund = st.fund /\ n.native = st.native
      /\ n.access = st.access /\ n.accessed = st.accessed
  BY Zenon DEF SetNonce, Store
<1>2. n = [slots |-> n.slots, balance |-> n.balance, supply |-> n.supply, minted |-> n.minted,
           nonce |-> n.nonce, code |-> n.code, native |-> n.native, fund |-> n.fund,
           logs |-> n.logs, access |-> n.access, accessed |-> n.accessed]
  BY DEF SetNonce, Store
<1>. HIDE DEF n
<1>3. n.nonce \in [Addr -> Nat]
  BY <1>1, StoreFields, ZenonT(40)
<1>4. n \in Store
  BY <1>1, <1>2, <1>3, StoreFields, Zenon DEF Store
<1>5. Grows(o, st, n)
  BY <1>1, <1>4, SameFits, Zenon
<1>. QED BY <1>1, <1>5, Zenon DEF n

\* SetCode.
LEMMA CodeFits ==
    ASSUME NEW o, NEW st \in Store, StoreFits(o, st), NEW a \in Coded
    PROVE  LET n == SetCode(st, a)
           IN  Grows(o, st, n) /\ n.nonce = st.nonce /\ n.balance = st.balance
<1>. DEFINE n == SetCode(st, a)
<1>1. /\ n.code = st.code \cup {a}
      /\ n.slots = st.slots /\ n.balance = st.balance /\ n.supply = st.supply /\ n.minted = st.minted
      /\ n.nonce = st.nonce /\ n.logs = st.logs /\ n.fund = st.fund /\ n.native = st.native
      /\ n.access = st.access /\ n.accessed = st.accessed
  <2>. DEFINE c == st.code \cup {a}
  <2>1. n = [st EXCEPT !.code = c]
    BY Zenon DEF SetCode
  <2>. HIDE DEF c, n
  <2>2. n.code = c
    BY <2>1, Zenon DEF Store
  <2>3. /\ n.slots = st.slots /\ n.balance = st.balance /\ n.supply = st.supply /\ n.minted = st.minted
        /\ n.nonce = st.nonce /\ n.logs = st.logs /\ n.fund = st.fund /\ n.native = st.native
        /\ n.access = st.access /\ n.accessed = st.accessed
    BY <2>1, Zenon DEF Store
  <2>. QED BY <2>2, <2>3, Zenon DEF c
<1>2. n = [slots |-> n.slots, balance |-> n.balance, supply |-> n.supply, minted |-> n.minted,
           nonce |-> n.nonce, code |-> n.code, native |-> n.native, fund |-> n.fund,
           logs |-> n.logs, access |-> n.access, accessed |-> n.accessed]
  <2>. DEFINE c == st.code \cup {a}
  <2>1. n = [st EXCEPT !.code = c]
    BY Zenon DEF SetCode
  <2>. HIDE DEF c, n
  <2>. QED BY <2>1, Zenon DEF Store
<1>. HIDE DEF n
<1>3. n.code \in SUBSET (Coded \cup Natives)
  BY <1>1, StoreFields, Zenon
<1>4. n \in Store
  BY <1>1, <1>2, <1>3, StoreFields, Zenon DEF Store
<1>5. Grows(o, st, n)
  BY <1>1, <1>4, SameFits, Zenon
<1>. QED BY <1>1, <1>5, Zenon DEF n

\* AddLog.
LEMMA LogFits ==
    ASSUME NEW o, NEW st \in Store, StoreFits(o, st)
    PROVE  LET n == AddLog(st)
           IN  Grows(o, st, n) /\ n.nonce = st.nonce /\ n.balance = st.balance
<1>. DEFINE n == AddLog(st)
<1>1. /\ n.logs = st.logs + 1
      /\ n.slots = st.slots /\ n.balance = st.balance /\ n.supply = st.supply /\ n.minted = st.minted
      /\ n.nonce = st.nonce /\ n.code = st.code /\ n.fund = st.fund /\ n.native = st.native
      /\ n.access = st.access /\ n.accessed = st.accessed
  BY Zenon DEF AddLog, Store
<1>2. n = [slots |-> n.slots, balance |-> n.balance, supply |-> n.supply, minted |-> n.minted,
           nonce |-> n.nonce, code |-> n.code, native |-> n.native, fund |-> n.fund,
           logs |-> n.logs, access |-> n.access, accessed |-> n.accessed]
  BY DEF AddLog, Store
<1>. HIDE DEF n
<1>3. n.logs \in Nat
  BY <1>1, StoreFields, SMTT(30)
<1>4. n \in Store
  BY <1>1, <1>2, <1>3, StoreFields, Zenon DEF Store
<1>5. Grows(o, st, n)
  BY <1>1, <1>4, SameFits, Zenon
<1>. QED BY <1>1, <1>5, Zenon DEF n

\* A contract implemented in Go writes its own data.
LEMMA NativeFits ==
    ASSUME NEW o, NEW st \in Store, StoreFits(o, st)
    PROVE  LET n == [st EXCEPT !.native = @ + 1]
           IN  Grows(o, st, n) /\ Same(st, n)
<1>. DEFINE n == [st EXCEPT !.native = @ + 1]
<1>1. /\ n.native = st.native + 1
      /\ n.slots = st.slots /\ n.balance = st.balance /\ n.supply = st.supply /\ n.minted = st.minted
      /\ n.nonce = st.nonce /\ n.code = st.code /\ n.fund = st.fund /\ n.logs = st.logs
      /\ n.access = st.access /\ n.accessed = st.accessed
  BY Zenon DEF Store
<1>2. n = [slots |-> n.slots, balance |-> n.balance, supply |-> n.supply, minted |-> n.minted,
           nonce |-> n.nonce, code |-> n.code, native |-> n.native, fund |-> n.fund,
           logs |-> n.logs, access |-> n.access, accessed |-> n.accessed]
  BY SMTT(30) DEF Store
<1>. HIDE DEF n
<1>3. n.native \in Nat
  BY <1>1, StoreFields, SMTT(30)
<1>4. n \in Store
  BY <1>1, <1>2, <1>3, StoreFields, Zenon DEF Store
<1>5. Grows(o, st, n) /\ Same(st, n)
  BY <1>1, <1>4, SameFits, Zenon DEF Same
<1>. QED BY <1>5, Zenon DEF n

\* Balances that are not negative have such a total.
LEMMA TotalIsNat ==
    ASSUME NEW b \in [Addr -> Nat] PROVE TotalOf(b) \in Nat
<1>1. PICK i \in [SUBSET Addr -> Int] :
         /\ i[{}] = 0
         /\ \A s \in SUBSET Addr : s # {} => i[s] = b[Choice(s)] + i[s \ {Choice(s)}]
         /\ TotalOf(b) = i[Addr]
  <2>1. b \in [Addr -> Int]
    OBVIOUS
  <2>. QED BY <2>1, TotalUnfolds, Zenon
<1>. DEFINE G == {s \in SUBSET Addr : i[s] \in Nat}
<1>2. {} \in G
  BY <1>1
<1>3. ASSUME NEW s \in SUBSET Addr, s # {}, s \ {Choice(s)} \in G PROVE s \in G
  <2>1. Choice(s) \in Addr
    BY <1>3, Zenon DEF Choice
  <2>2. b[Choice(s)] \in Nat /\ i[s \ {Choice(s)}] \in Nat
    BY <1>3, <2>1, Zenon
  <2>. QED BY <1>1, <1>3, <2>2
<1>4. Addr \in G
  <2>. HIDE DEF G
  <2>. QED BY <1>2, <1>3, AddrFinite, SubsetInduction, Zenon
<1>. QED BY <1>1, <1>4, Zenon

\* addTokens, of an amount the account has: the supply follows the balances.
LEMMA AddTokensFits ==
    ASSUME NEW st \in Store, st.supply = TotalOf(st.balance),
           NEW a \in Addr, NEW amount \in Int, st.balance[a] + amount >= 0
    PROVE  LET n == addTokens(st, a, amount)
           IN  /\ n \in Store /\ n.supply = TotalOf(n.balance) /\ n.supply = st.supply + amount
               /\ n.balance = [st.balance EXCEPT ![a] = @ + amount]
               /\ n.slots = st.slots /\ n.minted = st.minted /\ n.nonce = st.nonce /\ n.code = st.code
               /\ n.logs = st.logs /\ n.fund = st.fund /\ n.access = st.access /\ n.accessed = st.accessed
<1>. DEFINE n == addTokens(st, a, amount)
            b == [st.balance EXCEPT ![a] = @ + amount]
            k == st.supply + amount
<1>1. st.balance \in [Addr -> Nat] /\ st.balance[a] \in Nat /\ st.supply \in Nat
  BY StoreFields, Zenon
<1>2. n = [st EXCEPT !.balance = b, !.supply = k]
  BY <1>1 DEF addTokens, Store
<1>3. b \in [Addr -> Nat]
  BY <1>1
<1>4. TotalOf(b) = TotalOf(st.balance) + amount
  <2>1. st.balance \in [Addr -> Int]
    BY <1>1
  <2>. QED BY <2>1, TotalShifts, Zenon
<1>5. k = TotalOf(b) /\ k \in Nat
  <2>. HIDE DEF b
  <2>. QED BY <1>3, <1>4, TotalIsNat, Zenon
<1>. HIDE DEF b, k, n
<1>6. n \in Store
  BY <1>2, <1>3, <1>5, Zenon DEF Store
<1>7. n.balance = b /\ n.supply = k
  BY <1>2, Zenon DEF Store
<1>8. /\ n.slots = st.slots /\ n.minted = st.minted /\ n.nonce = st.nonce /\ n.code = st.code
      /\ n.logs = st.logs /\ n.fund = st.fund /\ n.access = st.access /\ n.accessed = st.accessed
  BY <1>2, Zenon DEF Store
<1>. QED BY <1>5, <1>6, <1>7, <1>8, Zenon DEF n, b, k

\* Transfer: tokens move, and those of others stay.
LEMMA TransferFits ==
    ASSUME NEW o, NEW st \in Store, StoreFits(o, st), NEW from \in Addr, NEW to \in Addr,
           NEW v \in Nat, st.balance[from] >= v
    PROVE  LET n == Transfer(st, from, to, v)
           IN  /\ Grows(o, st, n)
               /\ n.balance[Sender] >= st.balance[Sender] - (IF from = Sender THEN v ELSE 0)
               /\ n.nonce = st.nonce
               /\ v = 0 => Same(st, n)
<1>. DEFINE m == addTokens(st, from, -v)
            n == addTokens(m, to, v)
<1>1. st.balance \in [Addr -> Nat] /\ st.supply \in Nat /\ st.minted \in Nat /\ Sender \in Addr
  BY StoreFields, Zenon DEF Addr
<1>2. st.supply = TotalOf(st.balance) /\ st.supply = Balance + Cardinality(Contracts) + st.minted
  BY Zenon DEF StoreFits
<1>3. /\ m \in Store /\ m.supply = TotalOf(m.balance) /\ m.supply = st.supply + (-v)
      /\ m.balance = [st.balance EXCEPT ![from] = @ + (-v)]
      /\ m.slots = st.slots /\ m.minted = st.minted /\ m.nonce = st.nonce /\ m.code = st.code
      /\ m.logs = st.logs /\ m.fund = st.fund /\ m.access = st.access /\ m.accessed = st.accessed
  <2>1. -v \in Int /\ st.balance[from] + (-v) >= 0
    BY <1>1
  <2>. QED BY <1>2, <2>1, AddTokensFits, ZenonT(40)
<1>. HIDE DEF m
<1>4. m.balance \in [Addr -> Nat]
  BY <1>3, StoreFields, Zenon
<1>5. /\ n \in Store /\ n.supply = TotalOf(n.balance) /\ n.supply = m.supply + v
      /\ n.balance = [m.balance EXCEPT ![to] = @ + v]
      /\ n.slots = m.slots /\ n.minted = m.minted /\ n.nonce = m.nonce /\ n.code = m.code
      /\ n.logs = m.logs /\ n.fund = m.fund /\ n.access = m.access /\ n.accessed = m.accessed
  <2>1. v \in Int /\ m.balance[to] + v >= 0
    BY <1>4
  <2>2. m \in Store /\ m.supply = TotalOf(m.balance)
    BY <1>3, Zenon
  <2>. QED BY <2>1, <2>2, AddTokensFits, Zenon
<1>6. n = Transfer(st, from, to, v)
  BY Zenon DEF Transfer, AddBalance, m
<1>. HIDE DEF n
<1>7. n.supply = st.supply
  BY <1>1, <1>3, <1>5
<1>8. Grows(o, st, n)
  <2>1. Cleared(o, n) = Cleared(o, st)
    BY <1>3, <1>5, ZenonT(40) DEF Cleared
  <2>2. Exact(n)
    BY <1>3, <1>5, Zenon DEF StoreFits, Exact
  <2>3. StoreFits(o, n)
    BY <1>2, <1>3, <1>5, <1>7, <2>1, <2>2, Zenon DEF StoreFits
  <2>. QED BY <1>3, <1>5, <2>3, Zenon DEF Grows, Listed
<1>9. n.balance[Sender] >= st.balance[Sender] - (IF from = Sender THEN v ELSE 0)
  <2>1. m.balance[Sender] >= st.balance[Sender] - (IF from = Sender THEN v ELSE 0)
    BY <1>1, <1>3
  <2>2. n.balance[Sender] >= m.balance[Sender]
    BY <1>1, <1>4, <1>5, SMTT(30)
  <2>3. n.balance[Sender] \in Nat /\ m.balance[Sender] \in Nat /\ st.balance[Sender] \in Nat
    BY <1>1, <1>4, <1>5, StoreFields, Zenon
  <2>. QED BY <2>1, <2>2, <2>3, SMTT(30)
<1>10. ASSUME v = 0 PROVE Same(st, n)
  <2>1. m.balance = st.balance
    BY <1>1, <1>3, <1>10
  <2>2. n.balance = m.balance
    BY <1>4, <1>5, <1>10, SMTT(30)
  <2>. QED BY <1>3, <1>5, <2>1, <2>2, Zenon DEF Same
<1>. QED BY <1>3, <1>5, <1>6, <1>8, <1>9, <1>10, Zenon

\* The slots a transaction has cleared can be counted.
LEMMA ClearedFinite ==
    ASSUME NEW o, NEW st
    PROVE  IsFiniteSet(Cleared(o, st)) /\ Cardinality(Cleared(o, st)) \in Nat
<1>1. IsFiniteSet(Coded \X Slot)
  BY AccountsAssumption, FS_Union, FS_Product, Zenon DEF Coded
<1>. QED BY <1>1, FS_Subset, FS_CardinalityType, Zenon DEF Cleared

\* SetState on the storage of all contracts.
Written(slots, a, x, v) == [slots EXCEPT ![a] = [@ EXCEPT ![x] = v]]

\* The refund of one write covers the slots that are cleared after it.
LEMMA RefundFits ==
    ASSUME NEW o, NEW st \in Store, StoreFits(o, st), NEW n, NEW a \in Coded, NEW x \in Slot, NEW v,
           n.slots = Written(st.slots, a, x, v),
           n.fund = refundSStore(st.fund, o[a][x], st.slots[a][x], v)
    PROVE  n.fund \in Int /\ n.fund >= ClearRefund * Cardinality(Cleared(o, n))
<1>. DEFINE p == <<a, x>>
            C == Cleared(o, st)
            c == Cardinality(C)
            orig == o[a][x]
            cur == st.slots[a][x]
            k == ClearRefund * c
<1>1. IsFiniteSet(C) /\ c \in Nat
  BY ClearedFinite, Zenon
<1>2. ClearRefund \in Nat /\ SetRefund \in Nat /\ ResetRefund \in Nat
  BY AmountsAssumption, Zenon
<1>3. st.fund \in Int /\ st.fund >= k
  BY StoreFields, Zenon DEF StoreFits
<1>4. p \in C <=> orig # 0 /\ cur = 0
  <2>1. p \in Coded \X Slot /\ p[1] = a /\ p[2] = x
    BY Zenon
  <2>. HIDE DEF p
  <2>. QED BY <2>1, Zenon DEF Cleared
<1>5. /\ orig # 0 /\ v = 0 => Cleared(o, n) = C \cup {p}
      /\ ~(orig # 0 /\ v = 0) => Cleared(o, n) = C \ {p}
  <2>1. st.slots \in [Coded -> [Slot -> Value \cup {0, 1}]]
    BY StoreFields, Zenon
  <2>2. n.slots[a][x] = v
    BY <2>1, Zenon DEF Written
  <2>3. \A q \in Coded \X Slot : q # <<a, x>> => n.slots[q[1]][q[2]] = st.slots[q[1]][q[2]]
    BY <2>1 DEF Written
  <2>. QED BY <2>2, <2>3, SMTT(30) DEF Cleared
<1>6. n.fund = refundSStore(st.fund, orig, cur, v)
  BY Zenon
<1>. HIDE DEF C, p, orig, cur
<1>7. /\ Cardinality(C \cup {p}) = IF p \in C THEN c ELSE c + 1
      /\ Cardinality(C \ {p}) = IF p \in C THEN c - 1 ELSE c
  BY <1>1, FS_AddElement, FS_RemoveElement, ZenonT(40)
<1>. DEFINE d == Cardinality(Cleared(o, n))
<1>8. d = IF orig # 0 /\ v = 0 THEN (IF p \in C THEN c ELSE c + 1) ELSE (IF p \in C THEN c - 1 ELSE c)
  BY <1>5, <1>7, Zenon
<1>. HIDE DEF c, d
<1>9. /\ ClearRefund * (c + 1) = k + ClearRefund /\ ClearRefund * (c - 1) = k - ClearRefund
      /\ k \in Int
  BY <1>1, <1>2
<1>10. ClearRefund * d = IF orig # 0 /\ v = 0 THEN (IF p \in C THEN k ELSE k + ClearRefund)
                                             ELSE (IF p \in C THEN k - ClearRefund ELSE k)
  BY <1>8, <1>9, Zenon
<1>. HIDE DEF k
<1>11. CASE v = cur
  BY <1>2, <1>3, <1>4, <1>6, <1>9, <1>10, <1>11 DEF refundSStore, d
<1>12. CASE v # cur /\ orig = cur
  BY <1>2, <1>3, <1>4, <1>6, <1>9, <1>10, <1>12, SMTT(30) DEF refundSStore, d
<1>13. CASE v # cur /\ orig # cur
  <2>. DEFINE r == IF orig # v THEN 0 ELSE IF orig = 0 THEN SetRefund ELSE ResetRefund
  <2>1. r \in Nat
    BY <1>2, Zenon
  <2>2. CASE orig # 0 /\ cur = 0
    <3>1. n.fund = st.fund + (-ClearRefund + r)
      BY <1>6, <1>13, <2>2, Zenon DEF refundSStore
    <3>. HIDE DEF r
    <3>. QED BY <1>2, <1>3, <1>4, <1>9, <1>10, <1>13, <2>1, <2>2, <3>1, SMTT(30) DEF d
  <2>3. CASE orig # 0 /\ cur # 0 /\ v = 0
    <3>1. n.fund = st.fund + (ClearRefund + r)
      BY <1>6, <1>13, <2>3, Zenon DEF refundSStore
    <3>. HIDE DEF r
    <3>. QED BY <1>2, <1>3, <1>4, <1>9, <1>10, <2>1, <2>3, <3>1, SMTT(30) DEF d
  <2>4. CASE ~(orig # 0 /\ cur = 0) /\ ~(orig # 0 /\ cur # 0 /\ v = 0)
    <3>1. n.fund = st.fund + (0 + r)
      BY <1>6, <1>13, <2>4, Zenon DEF refundSStore
    <3>. HIDE DEF r
    <3>. QED BY <1>2, <1>3, <1>4, <1>9, <1>10, <2>1, <2>4, <3>1, SMTT(30) DEF d
  <2>. QED BY <2>2, <2>3, <2>4, Zenon
<1>. QED BY <1>11, <1>12, <1>13, Zenon

\* A store with other storage and another refund counter.
WithSlots(st, slots, fund) == [st EXCEPT !.fund = fund, !.slots = slots]

\* The current store after SSTORE; o is the storage when the transaction began.
Stored(st, o, a, x, v) ==
    [st EXCEPT !.access = AddSlot(@, a, x), !.accessed = @ \cup {<<a, x>>},
               !.fund = refundSStore(@, o[a][x], st.slots[a][x], v),
               !.slots[a][x] = v]

\* SSTORE on the current store.
LEMMA SStoreFits ==
    ASSUME NEW o, NEW st \in Store, StoreFits(o, st), NEW a \in Coded, NEW x \in Slot, NEW v \in Value
    PROVE  LET n == Stored(st, o, a, x, v)
           IN  Grows(o, st, n) /\ n.nonce = st.nonce /\ n.balance = st.balance
<1>. DEFINE u == [st EXCEPT !.access = AddSlot(@, a, x), !.accessed = @ \cup {<<a, x>>}]
            f == refundSStore(st.fund, o[a][x], st.slots[a][x], v)
            sl == Written(st.slots, a, x, v)
            n == WithSlots(u, sl, f)
<1>1. Grows(o, st, u) /\ Same(st, u)
  BY UseFits, Zenon
<1>2. Stored(st, o, a, x, v) = n
  BY Zenon DEF Store, WithSlots, Written, Stored
<1>3. u \in Store /\ StoreFits(o, u) /\ u.slots = st.slots /\ u.fund = st.fund
  BY <1>1, Zenon DEF Grows, Same
<1>4. sl \in [Coded -> [Slot -> Value \cup {0, 1}]]
  BY StoreFields, Zenon DEF Written
<1>. HIDE DEF u, f, sl, n
<1>5. n.slots = sl /\ n.fund = f
  BY <1>3, Zenon DEF Store, WithSlots, n
<1>6. /\ n.balance = u.balance /\ n.supply = u.supply /\ n.minted = u.minted /\ n.nonce = u.nonce
      /\ n.code = u.code /\ n.logs = u.logs /\ n.access = u.access /\ n.accessed = u.accessed
  BY <1>3, Zenon DEF Store, WithSlots, n
<1>7. n.fund \in Int /\ n.fund >= ClearRefund * Cardinality(Cleared(o, n))
  BY <1>3, <1>5, RefundFits, Zenon DEF sl, f
<1>8. n \in Store
  BY <1>3, <1>4, <1>5, <1>7, Zenon DEF Store, WithSlots, n
<1>9. StoreFits(o, n)
  <2>1. Exact(n)
    BY <1>3, <1>6, Zenon DEF StoreFits, Exact
  <2>. QED BY <1>3, <1>6, <1>7, <2>1, Zenon DEF StoreFits
<1>10. Grows(o, st, n) /\ n.nonce = st.nonce /\ n.balance = st.balance
  BY <1>1, <1>6, <1>8, <1>9, Zenon DEF Grows, Same, Listed
<1>. QED BY <1>2, <1>10, Zenon

----------------------------------------------------------------------------
(* The stack of stores                                                        *)

\* The current store of a stack.
Top(stack) == stack[Len(stack)]

\* The current store is replaced.  The lowest one keeps what the refund and the
\* logs of the transaction start from.
LEMMA SetTopFits ==
    ASSUME NEW k, NEW fs, NEW ro, StackFits(k, fs, ro),
           NEW n, Grows(k[1].slots, Top(k), n), ro => Visible(n) = Visible(Top(k)),
           \/ Len(k) > 1
           \/ n.slots = k[1].slots /\ n.fund = k[1].fund /\ n.logs = k[1].logs
    PROVE  /\ StackFits(SetTop(k, n), fs, ro) /\ SetTop(k, n)[1].slots = k[1].slots
           /\ Len(SetTop(k, n)) = Len(k) /\ Top(SetTop(k, n)) = n
           /\ \A i \in DOMAIN k : i # Len(k) => SetTop(k, n)[i] = k[i]
<1>. DEFINE m == SetTop(k, n)
<1>1. k \in Seq(Store) /\ Len(k) \in Nat \ {0} /\ n \in Store
  BY DEF StackFits, Grows
<1>2. /\ m \in Seq(Store) /\ m # <<>> /\ Len(m) = Len(k) /\ m[Len(m)] = n
      /\ \A i \in 1 .. Len(k) : i # Len(k) => m[i] = k[i]
  BY <1>1, SMTT(30) DEF SetTop
<1>3. m[1].slots = k[1].slots /\ m[1].fund = 0 /\ m[1].logs = 0
  <2>1. CASE Len(k) > 1
    BY <1>1, <1>2, <2>1, SMTT(30) DEF StackFits
  <2>2. CASE ~(Len(k) > 1)
    <3>1. Len(k) = 1 /\ m[1] = n
      BY <1>1, <1>2, <2>2, SMTT(30)
    <3>. QED BY <2>2, <3>1, Zenon DEF StackFits
  <2>. QED BY <2>1, <2>2, Zenon
<1>. HIDE DEF m
<1>4. \A i \in 1 .. Len(m) : StoreFits(m[1].slots, m[i])
  BY <1>1, <1>2, <1>3, SMTT(30) DEF StackFits, Grows
<1>5. fs \in Seq(FrameRecord) /\ \A i \in DOMAIN fs : fs[i] \in FrameRecord /\ fs[i].self \in Addr /\ fs[i].revid \in Nat
  <2>1. fs \in Seq(FrameRecord)
    BY Zenon DEF StackFits
  <2>2. \A i \in DOMAIN fs : fs[i] \in FrameRecord
    BY <2>1, SMTT(30)
  <2>. QED BY <2>1, <2>2, Zenon DEF FrameRecord, Addr
<1>6. \A i \in DOMAIN fs : FrameFits(m, fs[i])
  <2>. TAKE i \in DOMAIN fs
  <2>1. fs[i].revid \in Nat /\ fs[i].revid + 1 < Len(k) /\ k[fs[i].revid + 1] = fs[i].saved
    BY <1>5, Zenon DEF StackFits, FrameFits
  <2>2. m[fs[i].revid + 1] = k[fs[i].revid + 1]
    BY <1>1, <1>2, <2>1, SMTT(30)
  <2>. QED BY <1>2, <2>1, <2>2, Zenon DEF FrameFits
<1>7. TopFits(n, fs)
  <2>. SUFFICES ASSUME NEW i \in DOMAIN fs
                PROVE  Listed(n, fs[i].self) /\ (fs[i].static => Visible(n) = Visible(fs[i].saved))
    BY Zenon DEF TopFits
  <2>1. Listed(Top(k), fs[i].self) /\ (fs[i].static => Visible(Top(k)) = Visible(fs[i].saved))
    BY Zenon DEF StackFits, TopFits, Top
  <2>2. fs[i].static => ro
    BY Zenon DEF StackFits, StaticFits
  <2>. QED BY <1>5, <2>1, <2>2, Zenon DEF Grows
<1>8. StackFits(m, fs, ro)
  BY <1>1, <1>2, <1>3, <1>4, <1>6, <1>7 DEF StackFits
<1>. QED BY <1>1, <1>2, <1>3, <1>8 DEF m, Top

\* A store is put on top of the current one.
LEMMA PushFits ==
    ASSUME NEW k, NEW fs, NEW ro, StackFits(k, fs, ro),
           NEW n, Grows(k[1].slots, Top(k), n), ro => Visible(n) = Visible(Top(k))
    PROVE  StackFits(Append(k, n), fs, ro)
<1>. DEFINE m == Append(k, n)
<1>1. k \in Seq(Store) /\ Len(k) \in Nat \ {0} /\ n \in Store
  BY SMTT(30) DEF StackFits, Grows
<1>2. /\ m \in Seq(Store) /\ m # <<>> /\ Len(m) = Len(k) + 1 /\ m[Len(m)] = n
      /\ \A i \in 1 .. Len(k) : m[i] = k[i]
  BY <1>1
<1>3. m[1] = k[1]
  BY <1>1, <1>2
<1>. HIDE DEF m
<1>4. \A i \in 1 .. Len(m) : StoreFits(m[1].slots, m[i])
  BY <1>1, <1>2, <1>3, SMTT(30) DEF StackFits, Grows
<1>5. fs \in Seq(FrameRecord) /\ \A i \in DOMAIN fs : fs[i] \in FrameRecord /\ fs[i].self \in Addr /\ fs[i].revid \in Nat
  <2>1. fs \in Seq(FrameRecord)
    BY Zenon DEF StackFits
  <2>2. \A i \in DOMAIN fs : fs[i] \in FrameRecord
    BY <2>1, SMTT(30)
  <2>. QED BY <2>1, <2>2, Zenon DEF FrameRecord, Addr
<1>6. \A i \in DOMAIN fs : FrameFits(m, fs[i])
  <2>. TAKE i \in DOMAIN fs
  <2>1. fs[i].revid \in Nat /\ fs[i].revid + 1 < Len(k) /\ k[fs[i].revid + 1] = fs[i].saved
    BY <1>5, Zenon DEF StackFits, FrameFits
  <2>2. m[fs[i].revid + 1] = k[fs[i].revid + 1]
    BY <1>1, <1>2, <2>1, SMTT(30)
  <2>. QED BY <1>1, <1>2, <2>1, <2>2, SMTT(30) DEF FrameFits
<1>7. TopFits(n, fs)
  <2>. SUFFICES ASSUME NEW i \in DOMAIN fs
                PROVE  Listed(n, fs[i].self) /\ (fs[i].static => Visible(n) = Visible(fs[i].saved))
    BY Zenon DEF TopFits
  <2>1. Listed(Top(k), fs[i].self) /\ (fs[i].static => Visible(Top(k)) = Visible(fs[i].saved))
    BY Zenon DEF StackFits, TopFits, Top
  <2>2. fs[i].static => ro
    BY Zenon DEF StackFits, StaticFits
  <2>. QED BY <1>5, <2>1, <2>2, Zenon DEF Grows
<1>8. StackFits(m, fs, ro)
  BY <1>1, <1>2, <1>3, <1>4, <1>6, <1>7, SMTT(30) DEF StackFits
<1>. QED BY <1>8, Zenon DEF m

\* The types of the frames.
LEMMA FrameFields ==
    ASSUME NEW fs \in Seq(FrameRecord), NEW i \in 1 .. Len(fs)
    PROVE  /\ fs[i] \in FrameRecord /\ fs[i].self \in Coded /\ fs[i].self \in Addr
           /\ fs[i].static \in BOOLEAN /\ fs[i].setsReadOnly \in BOOLEAN
           /\ fs[i].revid \in Nat /\ fs[i].saved \in Store
<1>1. fs[i] \in FrameRecord
  OBVIOUS
<1>. QED BY <1>1, Zenon DEF FrameRecord, Addr

\* A frame starts: its snapshot is the current store, and a clone of it, which
\* it may have paid from already, is put on top.
LEMMA EnterFits ==
    ASSUME NEW k, NEW fs, NEW ro, StackFits(k, fs, ro), Len(fs) <= CallCreateDepth,
           NEW n, Grows(k[1].slots, Top(k), n),
           NEW f \in FrameRecord, f.revid = Len(k) - 1, f.saved = Top(k), Listed(Top(k), f.self),
           f.static <=> f.kind = "STATICCALL", f.setsReadOnly <=> f.static /\ ~ro,
           ro \/ f.static => Visible(n) = Visible(Top(k)),
           ro => f.kind # "CREATE"
    PROVE  StackFits(Append(k, n), Append(fs, f), ro \/ f.static)
<1>. DEFINE m == Append(k, n)
            gs == Append(fs, f)
            l == Len(fs) + 1
<1>1. StackFits(m, fs, ro)
  BY PushFits, Zenon
<1>2. fs \in Seq(FrameRecord) /\ Len(fs) \in Nat /\ CallCreateDepth \in Nat /\ ro \in BOOLEAN
  BY AmountsAssumption, SMTT(30) DEF StackFits
<1>3. k \in Seq(Store) /\ Len(k) \in Nat \ {0} /\ n \in Store
  BY SMTT(30) DEF StackFits, Grows
<1>4. /\ gs \in Seq(FrameRecord) /\ Len(gs) = l /\ gs[l] = f /\ DOMAIN gs = 1 .. l
      /\ \A i \in 1 .. Len(fs) : gs[i] = fs[i]
  BY <1>2, SMTT(30)
<1>5. Len(m) = Len(k) + 1 /\ m[Len(m)] = n /\ m[Len(k)] = Top(k)
  BY <1>3 DEF Top
<1>6. f.self \in Addr /\ f.static \in BOOLEAN /\ f.setsReadOnly \in BOOLEAN
  BY Zenon DEF FrameRecord, Addr
<1>7. \A i \in 1 .. l : i \in 1 .. Len(fs) \/ i = l
  BY <1>2, SMTT(30)
<1>. HIDE DEF m, gs, l
<1>8. \A i \in DOMAIN gs : FrameFits(m, gs[i])
  <2>1. FrameFits(m, f)
    BY <1>3, <1>5, SMTT(30) DEF FrameFits
  <2>2. \A i \in 1 .. Len(fs) : FrameFits(m, fs[i])
    BY <1>1, <1>2, SMTT(30) DEF StackFits
  <2>. QED BY <1>4, <1>7, <2>1, <2>2, Zenon
<1>9. ASSUME NEW i \in 1 .. Len(fs)
      PROVE  /\ fs[i].self \in Addr /\ fs[i].static \in BOOLEAN /\ fs[i].setsReadOnly \in BOOLEAN
             /\ fs[i].revid \in Nat /\ fs[i].revid < f.revid
             /\ Listed(Top(k), fs[i].self) /\ (fs[i].static => Visible(Top(k)) = Visible(fs[i].saved))
             /\ fs[i].static => ro
  <2>1. fs[i].revid \in Nat /\ fs[i].self \in Addr /\ fs[i].static \in BOOLEAN /\ fs[i].setsReadOnly \in BOOLEAN
    BY <1>2, FrameFields, Zenon
  <2>2. fs[i].revid + 1 < Len(k)
    BY <1>2, SMTT(30) DEF StackFits, FrameFits
  <2>3. Listed(Top(k), fs[i].self) /\ (fs[i].static => Visible(Top(k)) = Visible(fs[i].saved))
    BY <1>2, SMTT(30) DEF StackFits, TopFits, Top
  <2>4. fs[i].static => ro
    BY <1>2, SMTT(30) DEF StackFits, StaticFits
  <2>. QED BY <1>3, <2>1, <2>2, <2>3, <2>4, SMTT(30)
<1>10. FramesNest(gs)
  <2>. SUFFICES ASSUME NEW i \in 1 .. l, NEW j \in 1 .. l, i < j
                PROVE  /\ gs[i].revid < gs[j].revid
                       /\ Listed(gs[j].saved, gs[i].self)
                       /\ gs[i].static => gs[j].kind # "CREATE" /\ Visible(gs[j].saved) = Visible(gs[i].saved)
    BY <1>4, Zenon DEF FramesNest
  <2>1. i \in 1 .. Len(fs)
    BY <1>2, SMTT(30) DEF l
  <2>2. CASE j = l
    BY <1>4, <1>9, <2>1, <2>2, Zenon
  <2>3. CASE j # l
    <3>1. j \in 1 .. Len(fs)
      BY <1>7, <2>3, Zenon
    <3>2. FramesNest(fs)
      BY Zenon DEF StackFits
    <3>. QED BY <1>2, <1>4, <2>1, <3>1, <3>2, SMTT(30) DEF FramesNest
  <2>. QED BY <2>2, <2>3, ZenonT(40)
<1>11. TopFits(n, gs)
  <2>. SUFFICES ASSUME NEW i \in 1 .. l
                PROVE  Listed(n, gs[i].self) /\ (gs[i].static => Visible(n) = Visible(gs[i].saved))
    BY <1>4, Zenon DEF TopFits
  <2>1. CASE i = l
    BY <1>4, <1>6, <2>1, Zenon DEF Grows
  <2>2. CASE i \in 1 .. Len(fs)
    BY <1>4, <1>9, <2>2, Zenon DEF Grows
  <2>. QED BY <1>7, <2>1, <2>2, Zenon
<1>12. StaticFits(gs, ro \/ f.static)
  <2>1. StaticFits(fs, ro)
    BY Zenon DEF StackFits
  <2>2. (ro \/ f.static) <=> \E i \in DOMAIN gs : gs[i].static
    <3>1. ro <=> \E i \in 1 .. Len(fs) : fs[i].static
      BY <1>2, <2>1 DEF StaticFits
    <3>2. l \in 1 .. l /\ 1 .. Len(fs) \subseteq 1 .. l
      BY <1>2, SMTT(30) DEF l
    <3>. QED BY <1>4, <1>7, <3>1, <3>2, Zenon
  <2>3. ASSUME NEW i \in DOMAIN gs
        PROVE  /\ gs[i].static <=> gs[i].kind = "STATICCALL"
               /\ gs[i].setsReadOnly <=> gs[i].static /\ \A j \in DOMAIN gs : j < i => ~gs[j].static
               /\ Listed(gs[i].saved, gs[i].self)
    <3>1. CASE i = l
      <4>1. (\A j \in 1 .. l : j < l => ~gs[j].static) <=> ~ro
        <5>1. ro <=> \E j \in 1 .. Len(fs) : fs[j].static
          BY <1>2, <2>1 DEF StaticFits
        <5>2. \A j \in 1 .. l : j < l <=> j \in 1 .. Len(fs)
          BY <1>2 DEF l
        <5>3. 1 .. Len(fs) \subseteq 1 .. l
          BY <1>2, SMTT(30) DEF l
        <5>. QED BY <1>4, <5>1, <5>2, <5>3, Zenon
      <4>. QED BY <1>4, <3>1, <4>1, Zenon
    <3>2. CASE i \in 1 .. Len(fs)
      <4>1. (\A j \in 1 .. l : j < i => ~gs[j].static) <=> \A j \in 1 .. Len(fs) : j < i => ~fs[j].static
        <5>1. \A j \in 1 .. l : j < i => j \in 1 .. Len(fs)
          BY <1>2, <3>2, SMTT(30) DEF l
        <5>2. 1 .. Len(fs) \subseteq 1 .. l
          BY <1>2 DEF l
        <5>. QED BY <1>4, <5>1, <5>2, Zenon
      <4>2. /\ fs[i].static <=> fs[i].kind = "STATICCALL"
            /\ fs[i].setsReadOnly <=> fs[i].static /\ \A j \in 1 .. Len(fs) : j < i => ~fs[j].static
            /\ Listed(fs[i].saved, fs[i].self)
        BY <1>2, <2>1, <3>2, SMTT(30) DEF StaticFits
      <4>. QED BY <1>4, <3>2, <4>1, <4>2, Zenon
    <3>. QED BY <1>4, <1>7, <3>1, <3>2, Zenon
  <2>. QED BY <2>2, <2>3, Zenon DEF StaticFits
<1>13. StackFits(m, gs, ro \/ f.static)
  <2>1. Len(gs) <= CallCreateDepth + 1 /\ (ro \/ f.static) \in BOOLEAN
    BY <1>2, <1>4, <1>6, SMTT(30) DEF l
  <2>. QED BY <1>1, <1>4, <1>5, <1>8, <1>10, <1>11, <1>12, <2>1, Zenon DEF StackFits
<1>. QED BY <1>13, Zenon DEF m, gs

\* What the frames below the last one know of it and of each other.
LEMMA PopFits ==
    ASSUME NEW k, NEW fs, NEW ro, StackFits(k, fs, ro), fs # <<>>
    PROVE  LET l  == Len(fs)
               gs == SubSeq(fs, 1, l - 1)
           IN  /\ l \in Nat \ {0} /\ gs \in Seq(FrameRecord) /\ Len(gs) = l - 1
               /\ DOMAIN gs = 1 .. l - 1 /\ \A i \in 1 .. l - 1 : gs[i] = fs[i]
               /\ FramesNest(gs) /\ StaticFits(gs, ro /\ ~fs[l].setsReadOnly)
               /\ (ro /\ ~fs[l].setsReadOnly) \in BOOLEAN
               /\ fs[l].revid \in Nat /\ fs[l].revid + 1 < Len(k)
               /\ k[fs[l].revid + 1] = fs[l].saved /\ fs[l].saved \in Store
               /\ \A i \in 1 .. l - 1 : fs[i].revid \in Nat /\ fs[i].revid < fs[l].revid
               /\ TopFits(fs[l].saved, gs)
               /\ gs = <<>> <=> l = 1
<1>. DEFINE l == Len(fs)
            gs == SubSeq(fs, 1, l - 1)
            so == ro /\ ~fs[l].setsReadOnly
<1>1. fs \in Seq(FrameRecord) /\ l \in Nat \ {0} /\ ro \in BOOLEAN /\ DOMAIN fs = 1 .. l /\ l \in 1 .. l
  BY SMTT(30) DEF StackFits
<1>2. gs \in Seq(FrameRecord) /\ Len(gs) = l - 1 /\ DOMAIN gs = 1 .. l - 1 /\ \A i \in 1 .. l - 1 : gs[i] = fs[i]
  BY <1>1
<1>3. \A i \in 1 .. l - 1 : i \in 1 .. l /\ i < l
  BY <1>1, SMTT(30)
<1>4. \A i \in 1 .. l : /\ fs[i].self \in Addr /\ fs[i].static \in BOOLEAN /\ fs[i].setsReadOnly \in BOOLEAN
                        /\ fs[i].revid \in Nat /\ fs[i].saved \in Store
  BY <1>1, FrameFields, Zenon
<1>5. gs = <<>> <=> l = 1
  <2>. HIDE DEF gs, l
  <2>. QED BY <1>1, <1>2, SMTT(30)
<1>. HIDE DEF gs, l
<1>6. FramesNest(fs) /\ StaticFits(fs, ro)
  BY Zenon DEF StackFits
<1>7. FramesNest(gs)
  BY <1>1, <1>2, <1>3, <1>6, SMTT(30) DEF FramesNest
<1>8. StaticFits(gs, so)
  <2>1. /\ ro <=> \E i \in 1 .. l : fs[i].static
        /\ \A i \in 1 .. l : fs[i].setsReadOnly <=> fs[i].static /\ \A j \in 1 .. l : j < i => ~fs[j].static
    BY <1>1, <1>6, Zenon DEF StaticFits
  <2>2. \A i \in 1 .. l : i = l \/ i \in 1 .. l - 1
    BY <1>1, SMTT(30)
  <2>3. so <=> \E i \in DOMAIN gs : gs[i].static
    <3>1. CASE fs[l].setsReadOnly
      <4>1. \A j \in 1 .. l - 1 : ~fs[j].static
        BY <1>1, <1>3, <2>1, <3>1, Zenon
      <4>. QED BY <1>2, <3>1, <4>1, Zenon
    <3>2. CASE ~fs[l].setsReadOnly
      <4>1. fs[l].static => \E j \in 1 .. l - 1 : fs[j].static
        <5>1. \A j \in 1 .. l : j < l => j \in 1 .. l - 1
          BY <1>1, SMTT(30)
        <5>. QED BY <1>1, <2>1, <3>2, <5>1, Zenon
      <4>2. ro <=> \E j \in 1 .. l - 1 : fs[j].static
        BY <1>1, <1>3, <2>1, <2>2, <4>1, Zenon
      <4>. QED BY <1>2, <3>2, <4>2, Zenon
    <3>. QED BY <1>1, <1>4, <3>1, <3>2, Zenon
  <2>4. ASSUME NEW i \in 1 .. l - 1
        PROVE  (\A j \in 1 .. l - 1 : j < i => ~gs[j].static) <=> \A j \in 1 .. l : j < i => ~fs[j].static
    <3>1. \A j \in 1 .. l : j < i => j \in 1 .. l - 1
      BY <1>1, SMTT(30)
    <3>. QED BY <1>2, <1>3, <3>1, Zenon
  <2>. QED BY <1>1, <1>2, <1>3, <1>6, <2>3, <2>4, Zenon DEF StaticFits
<1>9. fs[l].revid + 1 < Len(k) /\ k[fs[l].revid + 1] = fs[l].saved
  BY <1>1, Zenon DEF StackFits, FrameFits
<1>10. \A i \in 1 .. l - 1 : fs[i].revid < fs[l].revid
  BY <1>1, <1>3, <1>6, Zenon DEF FramesNest
<1>11. TopFits(fs[l].saved, gs)
  BY <1>1, <1>2, <1>3, <1>6, Zenon DEF FramesNest, TopFits
<1>12. so \in BOOLEAN
  BY <1>1, <1>4, Zenon
<1>. QED BY <1>1, <1>2, <1>3, <1>4, <1>5, <1>7, <1>8, <1>9, <1>10, <1>11, <1>12, ZenonT(40) DEF gs, l

\* A frame ends and what it did stays.
LEMMA LeaveFits ==
    ASSUME NEW k, NEW fs, NEW ro, StackFits(k, fs, ro), fs # <<>>
    PROVE  StackFits(k, SubSeq(fs, 1, Len(fs) - 1), ro /\ ~fs[Len(fs)].setsReadOnly)
<1>. DEFINE l  == Len(fs)
            gs == SubSeq(fs, 1, l - 1)
            so == ro /\ ~fs[l].setsReadOnly
<1>1. /\ l \in Nat \ {0} /\ gs \in Seq(FrameRecord) /\ Len(gs) = l - 1
      /\ DOMAIN gs = 1 .. l - 1 /\ \A i \in 1 .. l - 1 : gs[i] = fs[i]
      /\ FramesNest(gs) /\ StaticFits(gs, so) /\ so \in BOOLEAN
  BY PopFits, Zenon
<1>2. DOMAIN fs = 1 .. l /\ \A i \in 1 .. l - 1 : i \in 1 .. l
  BY <1>1, SMTT(30) DEF StackFits
<1>. HIDE DEF gs, so, l
<1>3. \A i \in DOMAIN gs : FrameFits(k, gs[i])
  BY <1>1, <1>2, Zenon DEF StackFits
<1>4. TopFits(k[Len(k)], gs)
  BY <1>1, <1>2, SMTT(30) DEF StackFits, TopFits
<1>5. Len(gs) <= CallCreateDepth + 1
  BY <1>1, AmountsAssumption, SMTT(30) DEF StackFits, l
<1>6. StackFits(k, gs, so)
  BY <1>1, <1>3, <1>4, <1>5, Zenon DEF StackFits
<1>. QED BY <1>6, Zenon DEF gs, so, l

\* A frame ends and what it did is undone.
LEMMA RevertFits ==
    ASSUME NEW k, NEW fs, NEW ro, StackFits(k, fs, ro), fs # <<>>
    PROVE  LET f == fs[Len(fs)]
               m == SubSeq(k, 1, f.revid + 1)
           IN  /\ StackFits(m, SubSeq(fs, 1, Len(fs) - 1), ro /\ ~f.setsReadOnly)
               /\ Top(m) = f.saved /\ \A i \in DOMAIN m : i \in DOMAIN k /\ m[i] = k[i]
<1>. DEFINE l  == Len(fs)
            r  == fs[l].revid + 1
            m  == SubSeq(k, 1, r)
            gs == SubSeq(fs, 1, l - 1)
            so == ro /\ ~fs[l].setsReadOnly
<1>1. /\ l \in Nat \ {0} /\ gs \in Seq(FrameRecord) /\ Len(gs) = l - 1
      /\ DOMAIN gs = 1 .. l - 1 /\ \A i \in 1 .. l - 1 : gs[i] = fs[i]
      /\ FramesNest(gs) /\ StaticFits(gs, so) /\ so \in BOOLEAN
      /\ fs[l].revid \in Nat /\ r < Len(k) /\ k[r] = fs[l].saved
      /\ \A i \in 1 .. l - 1 : fs[i].revid \in Nat /\ fs[i].revid < fs[l].revid
      /\ TopFits(fs[l].saved, gs)
  BY PopFits, ZenonT(40)
<1>2. k \in Seq(Store) /\ Len(k) \in Nat /\ DOMAIN k = 1 .. Len(k)
  BY SMTT(30) DEF StackFits
<1>3. r \in Nat \ {0}
  BY <1>1
<1>4. /\ m \in Seq(Store) /\ Len(m) = r /\ DOMAIN m = 1 .. r /\ m # <<>>
      /\ \A i \in 1 .. r : i \in 1 .. Len(k) /\ m[i] = k[i]
  <2>1. r < Len(k)
    BY <1>1, Zenon
  <2>. HIDE DEF r
  <2>2. \A i \in 1 .. r : i \in 1 .. Len(k)
    BY <1>2, <1>3, <2>1, SMTT(30)
  <2>3. m \in Seq(Store) /\ Len(m) = r /\ \A i \in 1 .. r : m[i] = k[i]
    BY <1>2, <1>3, <2>1
  <2>4. DOMAIN m = 1 .. r /\ m # <<>>
    <3>. HIDE DEF m
    <3>. QED BY <1>3, <2>3, SMTT(30)
  <2>. QED BY <2>2, <2>3, <2>4, Zenon
<1>5. \A i \in 1 .. l - 1 : fs[i].revid + 1 < r /\ fs[i].revid + 1 \in 1 .. r
  BY <1>1, SMTT(30)
<1>6. DOMAIN fs = 1 .. l /\ \A i \in 1 .. l - 1 : i \in 1 .. l
  BY <1>1 DEF StackFits
<1>7. r \in 1 .. r /\ 1 \in 1 .. r
  BY <1>3, SMTT(30)
<1>. HIDE DEF gs, so, l, m, r
<1>8. m[1] = k[1] /\ m[r] = fs[l].saved
  BY <1>1, <1>4, <1>7, Zenon
<1>9. \A i \in DOMAIN gs : FrameFits(m, gs[i])
  BY <1>1, <1>4, <1>5, <1>6, ZenonT(40) DEF StackFits, FrameFits
<1>10. Len(gs) <= CallCreateDepth + 1
  BY <1>1, AmountsAssumption, SMTT(30) DEF StackFits, l
<1>11. \A i \in 1 .. r : StoreFits(m[1].slots, m[i])
  BY <1>2, <1>4, <1>8, Zenon DEF StackFits
<1>12. m[1].fund = 0 /\ m[1].logs = 0
  BY <1>8, Zenon DEF StackFits
<1>13. StackFits(m, gs, so)
  BY <1>1, <1>4, <1>8, <1>9, <1>10, <1>11, <1>12, Zenon DEF StackFits
<1>. QED BY <1>2, <1>4, <1>8, <1>13, Zenon DEF m, gs, so, l, r, Top

=============================================================================
