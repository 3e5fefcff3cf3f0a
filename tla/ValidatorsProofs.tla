-------------------------- MODULE ValidatorsProofs --------------------------
(* CommitteeInv is an inductive invariant of the designations: of any lists   *)
(* of keys, at any heights whose indices fit a byte of their key.  From it:   *)
(* the committee a header has promised is the one that consensus works with.  *)
EXTENDS Validators, SequenceTheorems, WellFoundedInduction, TLAPS

----------------------------------------------------------------------------
(* Designations in the order of their keys *)

\* A bounded set of numbers has a greatest element.
LEMMA Greatest ==
    ASSUME NEW N \in Nat, NEW S, S \subseteq 0 .. N, S # {}
    PROVE  \E i \in S : \A j \in S : j <= i
<1>. DEFINE T == {N - i : i \in S}
            R == {ss \in Nat \X Nat : ss[1] < ss[2]}
<1>1. T \subseteq Nat /\ T # {}
  <2>1. \A i \in S : N - i \in Nat
    OBVIOUS
  <2>2. PICK i \in S : TRUE
    BY Zenon
  <2>. QED BY <2>1, <2>2
<1>2. IsWellFoundedOn(R, Nat)
  BY NatLessThanWellFounded, Zenon DEF OpToRel
<1>3. \A x, y \in Nat : y < x => <<y, x>> \in R
  OBVIOUS
<1>4. PICK x \in T : \A y \in T : ~(<<y, x>> \in R)
  <2>. HIDE DEF T, R
  <2>. QED BY <1>1, <1>2, WFMin, Zenon
<1>5. ASSUME NEW y \in T PROVE x <= y
  <2>. HIDE DEF T, R
  <2>1. x \in Nat /\ y \in Nat
    BY <1>1
  <2>2. ~(y < x)
    BY <1>3, <1>4, <2>1, Zenon
  <2>. QED BY <2>1, <2>2
<1>6. PICK i \in S : x = N - i
  BY <1>4
<1>7. ASSUME NEW j \in S PROVE j <= i
  <2>1. x <= N - j
    BY <1>5
  <2>. QED BY <1>6, <2>1
<1>. QED BY <1>7

\* A key is a number.
LEMMA LittleEndian ==
    ASSUME NEW i \in Nat
    PROVE  littleEndian(i) \in Nat
<1>1. i % Radix \in Nat /\ i \div Radix \in Nat /\ Radix \in Nat
  BY BoundsAssumption
<1>2. (i % Radix) * Radix \in Nat
  BY <1>1
<1>. QED BY <1>1, <1>2 DEF littleEndian

\* Keys with one byte for their index sort like the indices.
LEMMA KeysSort ==
    ASSUME NEW i \in Nat, NEW j \in Nat, i < j, j < Radix
    PROVE  littleEndian(i) < littleEndian(j)
<1>1. Radix \in Nat \ {0} /\ i < Radix
  BY BoundsAssumption
<1>2. i % Radix = i /\ i \div Radix = 0 /\ j % Radix = j /\ j \div Radix = 0
  BY <1>1
<1>3. PICK d \in Nat : j = i + 1 + d
  <2>1. j - i - 1 \in Nat /\ j = i + 1 + (j - i - 1)
    OBVIOUS
  <2>. QED BY <2>1
<1>4. j * Radix = i * Radix + Radix + d * Radix /\ d * Radix \in Nat /\ i * Radix \in Nat
  BY <1>1, <1>3
<1>5. i * Radix < j * Radix
  BY <1>1, <1>4
<1>6. i * Radix + 0 = i * Radix /\ j * Radix + 0 = j * Radix
  BY <1>1, <1>4
<1>7. littleEndian(i) = i * Radix /\ littleEndian(j) = j * Radix
  BY <1>2, <1>6 DEF littleEndian
<1>. QED BY <1>5, <1>7

\* A state holds what may be read from it.
LEMMA StateTypes ==
    ASSUME NEW last \in Nat, NEW d \in State(last), NEW r \in Role
    PROVE  /\ DOMAIN d.roles[r] \subseteq 0 .. last /\ DOMAIN d.roles[r] \subseteq Nat
           /\ \A i \in DOMAIN d.roles[r] : d.roles[r][i] \in Committee \cup {Standby}
<1>. DEFINE U == UNION {[D -> Committee \cup {Standby}] : D \in SUBSET (0 .. last)}
<1>1. d.roles \in [Role -> U]
  BY DEF State
<1>2. d.roles[r] \in U
  BY <1>1
<1>3. PICK D \in SUBSET (0 .. last) : d.roles[r] \in [D -> Committee \cup {Standby}]
  BY <1>2
<1>4. DOMAIN d.roles[r] = D /\ D \subseteq 0 .. last
  BY <1>3
<1>5. \A i \in D : d.roles[r][i] \in Committee \cup {Standby}
  BY <1>3
<1>6. 0 .. last \subseteq Nat
  OBVIOUS
<1>. HIDE DEF U
<1>7. DOMAIN d.roles[r] \subseteq 0 .. last /\ DOMAIN d.roles[r] \subseteq Nat
  BY <1>4, <1>6
<1>8. \A i \in DOMAIN d.roles[r] : d.roles[r][i] \in Committee \cup {Standby}
  BY <1>4, <1>5, Zenon
<1>. QED BY <1>7, <1>8

\* A state for indices up to a is one for indices up to b.
LEMMA StateGrows ==
    ASSUME NEW a \in Nat, NEW b \in Nat, a <= b
    PROVE  State(a) \subseteq State(b)
<1>1. SUBSET (0 .. a) \subseteq SUBSET (0 .. b)
  OBVIOUS
<1>2. UNION {[D -> Committee \cup {Standby}] : D \in SUBSET (0 .. a)}
        \subseteq UNION {[D -> Committee \cup {Standby}] : D \in SUBSET (0 .. b)}
  BY <1>1, Zenon
<1>. QED BY <1>2 DEF State

\* GetDesignatedByRoleFromStorage finds the last designation up to an index.
LEMMA Found ==
    ASSUME NEW last \in Nat, NEW d \in State(last), InOrder(d), NEW r \in Role,
           NEW index \in Nat
    PROVE  LET upTo == {i \in DOMAIN d.roles[r] : i <= index}
               res == GetDesignatedByRoleFromStorage(d, r, index)
           IN  IF upTo = {} THEN res = [nodes |-> None, height |-> 0]
               ELSE \E m \in upTo : res = [nodes |-> d.roles[r][m], height |-> m] /\ \A j \in upTo : j <= m
<1>. DEFINE upTo == {i \in DOMAIN d.roles[r] : i <= index}
            Good(i) == \A j \in upTo : littleEndian(j) <= littleEndian(i)
            m == CHOOSE i \in upTo : Good(i)
<1>1. upTo \subseteq 0 .. last /\ upTo \subseteq DOMAIN d.roles[r]
  BY StateTypes
<1>2. CASE upTo = {}
  BY <1>2 DEF GetDesignatedByRoleFromStorage
<1>3. CASE upTo # {}
  <2>1. GetDesignatedByRoleFromStorage(d, r, index) = [nodes |-> d.roles[r][m], height |-> m]
    BY <1>3 DEF GetDesignatedByRoleFromStorage
  <2>. HIDE DEF upTo
  <2>2. PICK k \in upTo : \A j \in upTo : j <= k
    BY <1>1, <1>3, Greatest, Zenon
  <2>3. \A i \in upTo : i \in Nat /\ littleEndian(i) \in Nat
    BY <1>1, LittleEndian
  <2>4. \A i, j \in upTo : i < j => littleEndian(i) < littleEndian(j)
    BY <1>1 DEF InOrder
  <2>5. Good(k)
    BY <2>2, <2>3, <2>4
  <2>6. m \in upTo /\ Good(m)
    BY <2>5
  <2>. HIDE DEF m
  <2>7. \A j \in upTo : j <= m
    BY <2>3, <2>4, <2>6
  <2>. QED BY <1>3, <2>1, <2>6, <2>7 DEF upTo
<1>. QED BY <1>2, <1>3

\* It returns a list of keys.
LEMMA StoredTypes ==
    ASSUME NEW last \in Nat, NEW d \in State(last), InOrder(d), NEW r \in Role, NEW index \in Nat
    PROVE  Stored(d, r, index) \in Committee \cup {Standby, None}
BY Found, StateTypes DEF Stored

\* States that designate the same up to an index answer the same for it.
LEMMA SameStored ==
    ASSUME NEW last \in Nat, NEW d \in State(last), NEW e \in State(last), InOrder(d), InOrder(e),
           NEW r \in Role,
           NEW to \in Nat, SameUpTo(d, e, to), NEW index \in Nat, index <= to
    PROVE  GetDesignatedByRoleFromStorage(d, r, index) = GetDesignatedByRoleFromStorage(e, r, index)
<1>. DEFINE D == {i \in DOMAIN d.roles[r] : i <= index}
            E == {i \in DOMAIN e.roles[r] : i <= index}
<1>1. DOMAIN d.roles[r] \subseteq Nat /\ DOMAIN e.roles[r] \subseteq Nat
  BY StateTypes
<1>2. D = E /\ D \subseteq Nat
  BY <1>1 DEF SameUpTo
<1>3. \A i \in D : d.roles[r][i] = e.roles[r][i]
  BY <1>1 DEF SameUpTo
<1>4. CASE D = {}
  BY <1>2, <1>4, Found
<1>5. CASE D # {}
  <2>1. PICK m \in D : /\ GetDesignatedByRoleFromStorage(d, r, index) = [nodes |-> d.roles[r][m], height |-> m]
                      /\ \A j \in D : j <= m
    BY <1>5, Found
  <2>2. PICK n \in E : /\ GetDesignatedByRoleFromStorage(e, r, index) = [nodes |-> e.roles[r][n], height |-> n]
                      /\ \A j \in E : j <= n
    BY <1>2, <1>5, Found
  <2>3. m = n
    <3>. HIDE DEF D, E
    <3>. QED BY <1>2, <2>1, <2>2
  <2>. QED BY <1>3, <2>1, <2>2, <2>3
<1>. QED BY <1>4, <1>5

\* The cache of a state e, asked about an index that is not after its entry,
\* answers like any state d that designates the same up to that index.
LEMMA CacheAnswers ==
    ASSUME NEW last \in Nat, last < Radix * Radix, NEW d \in State(last), NEW e \in State(last),
           InOrder(d), InOrder(e), NEW r \in Role,
           NEW to \in Nat, SameUpTo(d, e, to), NEW index \in Nat, index <= to,
           UpdateCache(e).roles[r].height <= index
    PROVE  UpdateCache(e).roles[r] = GetDesignatedByRoleFromStorage(d, r, index)
<1>. DEFINE c == GetDesignatedByRoleFromStorage(e, r, MaxUint32)
            E == {i \in DOMAIN e.roles[r] : i <= index}
            All == {i \in DOMAIN e.roles[r] : i <= MaxUint32}
<1>1. UpdateCache(e).roles[r] = c
  BY DEF UpdateCache
<1>2. MaxUint32 \in Nat /\ last <= MaxUint32
  <2>1. Radix * Radix \in Nat
    BY BoundsAssumption
  <2>. QED BY <2>1 DEF MaxUint32
<1>3. DOMAIN e.roles[r] \subseteq 0 .. last
  BY StateTypes
<1>4. All = DOMAIN e.roles[r]
  BY <1>2, <1>3
<1>5. GetDesignatedByRoleFromStorage(d, r, index) = GetDesignatedByRoleFromStorage(e, r, index)
  BY SameStored
<1>6. CASE All = {}
  <2>1. c = [nodes |-> None, height |-> 0]
    BY <1>2, <1>6, Found
  <2>2. E = {}
    BY <1>4, <1>6
  <2>3. GetDesignatedByRoleFromStorage(e, r, index) = [nodes |-> None, height |-> 0]
    BY <2>2, Found
  <2>. QED BY <1>1, <1>5, <2>1, <2>3
<1>7. CASE All # {}
  <2>1. PICK m \in All : c = [nodes |-> e.roles[r][m], height |-> m] /\ \A j \in All : j <= m
    BY <1>2, <1>7, Found
  <2>2. m <= index /\ m \in E
    BY <1>1, <2>1
  <2>3. PICK n \in E : /\ GetDesignatedByRoleFromStorage(e, r, index) = [nodes |-> e.roles[r][n], height |-> n]
                      /\ \A j \in E : j <= n
    BY <2>2, Found
  <2>4. m \in Nat /\ n \in Nat /\ m <= n /\ n <= m
    BY <1>3, <1>4, <2>1, <2>2, <2>3
  <2>. QED BY <1>1, <1>5, <2>1, <2>3, <2>4
<1>. QED BY <1>6, <1>7

----------------------------------------------------------------------------
(* What consensus and the services are told *)

\* SameUpTo is an equivalence of states.
LEMMA SameIsTransitive ==
    ASSUME NEW d, NEW e, NEW f, NEW to \in Nat,
           \A r \in Role : DOMAIN d.roles[r] \subseteq Nat /\ DOMAIN e.roles[r] \subseteq Nat,
           SameUpTo(d, e, to), SameUpTo(e, f, to)
    PROVE  SameUpTo(d, f, to)
BY DEF SameUpTo

\* The states are of one type for all heights.
LEMMA StatesFit ==
    ASSUME WorkFits
    PROVE  dao \in State(MaxHeight + 2) /\ work \in State(MaxHeight + 2) /\ MaxHeight + 2 \in Nat
<1>1. height \in Nat /\ height + 2 \in Nat /\ height + 3 \in Nat /\ MaxHeight + 2 \in Nat
  BY BoundsAssumption DEF WorkFits
<1>2. height + 2 <= MaxHeight + 2
  BY BoundsAssumption DEF WorkFits
<1>3. dao \in State(MaxHeight + 2)
  BY <1>1, <1>2, StateGrows DEF WorkFits
<1>4. CASE phase = "idle"
  BY <1>1, <1>3, <1>4 DEF WorkFits
<1>5. CASE phase # "idle"
  <2>1. height + 3 <= MaxHeight + 2
    BY <1>5, BoundsAssumption DEF WorkFits
  <2>2. work \in State(MaxHeight + 2)
    BY <1>1, <2>1, StateGrows DEF WorkFits
  <2>. QED BY <1>1, <1>3, <2>2
<1>. QED BY <1>4, <1>5

\* A state designates what it designates.
LEMMA SameAsItself ==
    ASSUME NEW d, NEW to
    PROVE  SameUpTo(d, d, to)
BY DEF SameUpTo

\* CacheAgrees: GetDesignatedByRole returns what is stored, for an index up to
\* that of the block after the one that consensus works on.
LEMMA AnswersAreStored ==
    ASSUME KeysInOrder, WorkFits, NEW r \in Role, NEW index \in 0 .. (height + 2)
    PROVE  GetDesignatedByRole(dao, r, index) = GetDesignatedByRoleFromStorage(dao, r, index)
<1>1. /\ dao \in State(MaxHeight + 2) /\ work \in State(MaxHeight + 2)
      /\ MaxHeight + 2 \in Nat /\ height + 2 \in Nat /\ index \in Nat /\ index <= height + 2
      /\ MaxHeight + 2 < Radix * Radix /\ InOrder(dao) /\ InOrder(work)
  BY StatesFit, BoundsAssumption DEF WorkFits, KeysInOrder
<1>2. CASE phase = "post"
  <2>1. cache = UpdateCache(work) /\ SameUpTo(dao, work, height + 2)
    BY <1>2 DEF WorkFits
  <2>. QED BY <1>1, <2>1, CacheAnswers DEF GetDesignatedByRole
<1>3. CASE phase # "post"
  <2>1. cache = UpdateCache(dao) /\ SameUpTo(dao, dao, height + 2)
    BY <1>3, SameAsItself DEF WorkFits
  <2>. QED BY <1>1, <2>1, CacheAnswers DEF GetDesignatedByRole
<1>. QED BY <1>2, <1>3

\* updateExtensibleWhitelist lets the committee and the state validators of the
\* next block through.
LEMMA WhitelistHolds ==
    ASSUME NEW last \in Nat, last < Radix * Radix, NEW d \in State(last), InOrder(d),
           NEW h \in Nat, NEW r \in Role
    PROVE  Stored(d, r, h + 1) \in whitelist(UpdateCache(d), d, h)
<1>1. SameUpTo(d, d, h + 1) /\ h + 1 \in Nat /\ h + 1 <= h + 1
  BY SameAsItself
<1>2. UpdateCache(d).roles[r].height <= h + 1
        => UpdateCache(d).roles[r] = GetDesignatedByRoleFromStorage(d, r, h + 1)
  BY <1>1, CacheAnswers
<1>. HIDE DEF UpdateCache
<1>. QED BY <1>2 DEF whitelist, Stored

\* The invariant gives what is said of the committee.
LEMMA InvImplies ==
    ASSUME KeysInOrder, CommitteeInv
    PROVE  CommitteeIsKnown
<1>. USE DEF CommitteeInv
<1>1. height \in Nat /\ height + 1 \in 0 .. (height + 2)
  BY DEF WorkFits
<1>2. CacheAgrees
  BY AnswersAreStored DEF CacheAgrees
<1>3. \A r \in Role : GetDesignatedByRole(dao, r, height + 1).nodes = Stored(dao, r, height + 1)
  BY <1>1, AnswersAreStored DEF Stored
<1>4. NextConsensusHolds
  BY <1>3 DEF NextConsensusHolds, GetValidators, PromisesFit, Role
<1>5. CommitteeIsHeard
  BY <1>3 DEF CommitteeIsHeard
<1>6. PriceIsOfHeight
  BY DEF PriceIsOfHeight, WorkFits, UpdateCache
<1>. QED BY <1>2, <1>4, <1>5, <1>6 DEF CommitteeIsKnown

----------------------------------------------------------------------------
(* The steps of storeBlock *)

\* The state of the genesis block fits.
LEMMA InitInv ==
    ASSUME Init
    PROVE  CommitteeInv
<1>. DEFINE U(last) == UNION {[D -> Committee \cup {Standby}] : D \in SUBSET (0 .. last)}
            s == [i \in {0} |-> Standby]
            n == [i \in {} |-> None]
<1>1. \A last \in Nat : s \in U(last) /\ n \in U(last)
  <2>. SUFFICES ASSUME NEW last \in Nat PROVE s \in U(last) /\ n \in U(last)
    BY Zenon
  <2>1. {0} \in SUBSET (0 .. last) /\ {} \in SUBSET (0 .. last)
    OBVIOUS
  <2>2. s \in [{0} -> Committee \cup {Standby}] /\ n \in [{} -> Committee \cup {Standby}]
    OBVIOUS
  <2>. HIDE DEF s, n
  <2>. QED BY <2>1, <2>2
<1>2. \A last \in Nat : genesis \in State(last)
  <2>. SUFFICES ASSUME NEW last \in Nat PROVE genesis \in State(last)
    OBVIOUS
  <2>1. [r \in Role |-> IF r = "Validator" THEN s ELSE n] \in [Role -> U(last)]
    <3>. HIDE DEF s, n, U
    <3>. QED BY <1>1
  <2>. QED BY <2>1, Zenon DEF State, genesis
<1>3. 0 \in Nat /\ 2 \in Nat /\ 3 \in Nat /\ genesis \in State(2) /\ genesis \in State(3)
  BY <1>2
<1>. HIDE DEF s, n, U
<1>4. InOrder(genesis) /\ 2 < Radix * Radix
  <2>1. Radix * Radix \in Nat
    BY BoundsAssumption
  <2>. QED BY <2>1, BoundsAssumption DEF InOrder, genesis, Role
<1>5. WorkFits
  BY <1>3, BoundsAssumption, SameAsItself DEF WorkFits, Init
<1>6. Stored(genesis, "Validator", 1) = Standby
  <2>1. genesis.roles["Validator"] = [i \in {0} |-> Standby] /\ "Validator" \in Role
    BY DEF genesis, Role
  <2>2. {i \in DOMAIN genesis.roles["Validator"] : i <= 1} = {0}
    BY <2>1
  <2>3. GetDesignatedByRoleFromStorage(genesis, "Validator", 1) = [nodes |-> Standby, height |-> 0]
    BY <1>3, <1>4, <2>1, <2>2, Found
  <2>. QED BY <2>3 DEF Stored
<1>7. PromisesFit
  BY <1>6 DEF PromisesFit, Init
<1>8. DiskFits
  BY <1>3, <1>6 DEF DiskFits, Init
<1>9. \A r \in Role : Stored(dao, r, height + 1) \in allowed
  BY <1>3, <1>4, WhitelistHolds DEF Init
<1>. QED BY <1>5, <1>7, <1>8, <1>9 DEF CommitteeInv

\* The proposer of a block promises the committee of the block after it.
LEMMA BeginBlockInv ==
    ASSUME KeysInOrder, CommitteeInv, BeginBlock
    PROVE  CommitteeInv'
<1>. USE DEF CommitteeInv
<1>1. /\ height \in Nat /\ height + 2 \in 0 .. (height + 2) /\ height < MaxHeight /\ phase = "idle"
      /\ "Validator" \in Role
  BY DEF WorkFits, BeginBlock, Role
<1>2. dao \in State(MaxHeight + 2) /\ MaxHeight + 2 \in Nat /\ InOrder(dao)
  BY StatesFit DEF KeysInOrder
<1>3. GetValidators(dao, height + 2) = Stored(dao, "Validator", height + 2)
  BY <1>1, AnswersAreStored DEF GetValidators, Stored
<1>4. Stored(dao, "Validator", height + 2) \in Committee \cup {Standby, None}
  BY <1>1, <1>2, StoredTypes
<1>5. WorkFits'
  BY <1>1, SameAsItself, StateGrows DEF WorkFits, BeginBlock
<1>. DEFINE T == Committee \cup {Standby, None}
            p == Stored(dao, "Validator", height + 2)
<1>6. /\ next \in Seq(T) /\ Len(next) = height + 1 /\ p \in T /\ next' = Append(next, p)
  BY <1>1, <1>3, <1>4 DEF PromisesFit, BeginBlock
<1>. HIDE DEF T, p
<1>7. /\ next' \in Seq(T) /\ Len(next') = height + 2 /\ next'[height + 2] = p
      /\ \A i \in 1 .. (height + 1) : next'[i] = next[i]
  BY <1>1, <1>6, AppendProperties
<1>8. PromisesFit'
  BY <1>1, <1>7 DEF PromisesFit, BeginBlock, T, p
<1>9. DiskFits'
  <2>1. disk' = disk /\ height' = height /\ disk.height \in 0 .. height
    BY DEF BeginBlock, DiskFits
  <2>2. next'[disk.height + 1] = next[disk.height + 1]
    BY <1>1, <1>7, <2>1
  <2>. QED BY <2>1, <2>2 DEF DiskFits
<1>10. \A r \in Role : Stored(dao, r, height + 1)' \in allowed'
  BY DEF BeginBlock
<1>. QED BY <1>5, <1>8, <1>9, <1>10

\* designateAsRole adds a designation two blocks after the one that is executed.
LEMMA DesignateAsRole ==
    ASSUME height \in Nat, NEW d \in State(height + 3), NEW role \in Role, NEW nodes \in Committee
    PROVE  /\ designateAsRole(d, role, nodes) \in State(height + 3)
           /\ SameUpTo(d, designateAsRole(d, role, nodes), height + 2)
<1>. DEFINE e == designateAsRole(d, role, nodes)
            k == height + 3
            U == UNION {[D -> Committee \cup {Standby}] : D \in SUBSET (0 .. k)}
            f == [i \in DOMAIN d.roles[role] \cup {k} |-> IF i = k THEN nodes ELSE d.roles[role][i]]
<1>1. effective(height + 1) = k /\ k \in 0 .. k /\ k \in Nat
  BY DEF effective
<1>2. d.roles \in [Role -> U] /\ d = [roles |-> d.roles, price |-> d.price, blocked |-> d.blocked]
  BY DEF State
<1>3. e = [d EXCEPT !.roles = [d.roles EXCEPT ![role] = f]]
  BY <1>1, <1>2 DEF designateAsRole
<1>4. /\ DOMAIN d.roles[role] \subseteq 0 .. k /\ DOMAIN d.roles[role] \subseteq Nat
      /\ \A i \in DOMAIN d.roles[role] : d.roles[role][i] \in Committee \cup {Standby}
  BY <1>1, StateTypes
<1>5. f \in U
  <2>1. DOMAIN d.roles[role] \cup {k} \in SUBSET (0 .. k)
    BY <1>1, <1>4
  <2>2. f \in [DOMAIN d.roles[role] \cup {k} -> Committee \cup {Standby}]
    BY <1>4
  <2>. HIDE DEF f
  <2>. QED BY <2>1, <2>2
<1>6. /\ e.roles = [d.roles EXCEPT ![role] = f]
      /\ e = [roles |-> e.roles, price |-> d.price, blocked |-> d.blocked]
  BY <1>2, <1>3, Zenon
<1>7. e.roles \in [Role -> U]
  <2>. HIDE DEF f, U, e
  <2>. QED BY <1>2, <1>5, <1>6
<1>8. e \in State(k)
  <2>1. d.price \in Prices \cup {DefaultPrice} /\ d.blocked \in SUBSET Accounts
    BY DEF State
  <2>. HIDE DEF e
  <2>. QED BY <1>6, <1>7, <2>1 DEF State
<1>9. SameUpTo(d, e, height + 2)
  <2>. SUFFICES ASSUME NEW r \in Role
                PROVE  /\ \A i \in 0 .. (height + 2) : i \in DOMAIN d.roles[r] <=> i \in DOMAIN e.roles[r]
                       /\ \A i \in DOMAIN d.roles[r] : i <= height + 2 => d.roles[r][i] = e.roles[r][i]
    BY DEF SameUpTo
  <2>1. CASE r # role
    <3>1. e.roles[r] = d.roles[r]
      <4>. HIDE DEF f, U, e
      <4>. QED BY <1>2, <1>6, <2>1
    <3>. QED BY <3>1
  <2>2. CASE r = role
    <3>1. e.roles[r] = f
      <4>. HIDE DEF f, U, e
      <4>. QED BY <1>2, <1>6, <2>2
    <3>2. DOMAIN f = DOMAIN d.roles[role] \cup {k} /\ \A i \in DOMAIN d.roles[role] : i # k => f[i] = d.roles[role][i]
      OBVIOUS
    <3>. HIDE DEF f, e, U
    <3>. QED BY <1>1, <1>4, <2>2, <3>1, <3>2
  <2>. QED BY <2>1, <2>2
<1>. QED BY <1>8, <1>9

\* A change of the copy of the state that designates for later blocks only.
LEMMA WorkInv ==
    ASSUME CommitteeInv, phase = "run", UNCHANGED <<height, dao, phase, cache, next, allowed, disk>>,
           work' \in State(height + 3), SameUpTo(work, work', height + 2)
    PROVE  CommitteeInv'
<1>. USE DEF CommitteeInv
<1>1. height \in Nat /\ height + 2 \in Nat /\ height + 3 \in Nat
  BY DEF WorkFits
<1>2. \A r \in Role : DOMAIN dao.roles[r] \subseteq Nat /\ DOMAIN work.roles[r] \subseteq Nat
  BY <1>1, StateTypes DEF WorkFits
<1>3. SameUpTo(dao, work', height + 2)
  BY <1>1, <1>2, SameIsTransitive DEF WorkFits
<1>4. WorkFits'
  BY <1>3 DEF WorkFits
<1>5. PromisesFit' /\ DiskFits'
  BY DEF PromisesFit, DiskFits
<1>. QED BY <1>4, <1>5

\* Bridge.syncValidators designates both roles.
LEMMA DesignateInv ==
    ASSUME CommitteeInv, Designate
    PROVE  CommitteeInv'
<1>1. PICK nodes \in Committee :
        work' = designateAsRole(designateAsRole(work, "Validator", nodes), "StateValidator", nodes)
  BY DEF Designate
<1>. DEFINE e == designateAsRole(work, "Validator", nodes)
<1>2. /\ height \in Nat /\ height + 2 \in Nat /\ height + 3 \in Nat /\ work \in State(height + 3)
      /\ "Validator" \in Role /\ "StateValidator" \in Role
  BY DEF CommitteeInv, WorkFits, Role
<1>3. e \in State(height + 3) /\ SameUpTo(work, e, height + 2)
  BY <1>2, DesignateAsRole
<1>. HIDE DEF e
<1>4. work' \in State(height + 3) /\ SameUpTo(e, work', height + 2)
  BY <1>1, <1>2, <1>3, DesignateAsRole DEF e
<1>5. \A r \in Role : DOMAIN work.roles[r] \subseteq Nat /\ DOMAIN e.roles[r] \subseteq Nat
  BY <1>2, <1>3, StateTypes
<1>6. SameUpTo(work, work', height + 2)
  BY <1>2, <1>3, <1>4, <1>5, SameIsTransitive
<1>. QED BY <1>4, <1>6, WorkInv DEF Designate

\* Policy's setters leave the designations alone.
LEMMA PolicyInv ==
    ASSUME CommitteeInv, SetPrice \/ BlockAccount
    PROVE  CommitteeInv'
<1>1. work \in State(height + 3)
  BY DEF CommitteeInv, WorkFits
<1>2. work' \in State(height + 3) /\ work'.roles = work.roles
  <2>1. CASE SetPrice
    BY <1>1, <2>1 DEF SetPrice, State
  <2>2. CASE BlockAccount
    BY <1>1, <2>2 DEF BlockAccount, State
  <2>. QED BY <2>1, <2>2
<1>3. SameUpTo(work, work', height + 2)
  BY <1>2 DEF SameUpTo
<1>. QED BY <1>2, <1>3, WorkInv DEF SetPrice, BlockAccount

\* PostPersist renews the cache before the copy is the state of the chain.
LEMMA PostPersistInv ==
    ASSUME CommitteeInv, PostPersist
    PROVE  CommitteeInv'
<1>. USE DEF CommitteeInv, PostPersist
<1>1. WorkFits'
  BY DEF WorkFits
<1>2. PromisesFit' /\ DiskFits'
  BY DEF PromisesFit, DiskFits
<1>. QED BY <1>1, <1>2

\* The copy becomes the state of the chain, which is one block higher.
LEMMA StoreBlockInv ==
    ASSUME KeysInOrder, CommitteeInv, StoreBlock
    PROVE  CommitteeInv'
<1>. USE DEF CommitteeInv
<1>1. /\ height \in Nat /\ height + 1 \in Nat /\ height + 2 \in Nat /\ height + 3 \in Nat /\ height + 4 \in Nat
      /\ height < MaxHeight /\ phase = "post" /\ phase' = "idle" /\ height' = height + 1
      /\ "Validator" \in Role
  BY DEF WorkFits, StoreBlock, Role
<1>2. /\ dao \in State(MaxHeight + 2) /\ work \in State(MaxHeight + 2) /\ MaxHeight + 2 \in Nat
      /\ MaxHeight + 2 < Radix * Radix /\ InOrder(dao) /\ InOrder(work) /\ SameUpTo(dao, work, height + 2)
  BY StatesFit, BoundsAssumption DEF WorkFits, KeysInOrder
<1>3. Stored(dao, "Validator", height + 2) = Stored(work, "Validator", height + 2)
  BY <1>1, <1>2, SameStored DEF Stored
<1>4. WorkFits'
  <2>1. work \in State(height + 3) /\ work \in State(height + 4)
    BY <1>1, StateGrows DEF WorkFits
  <2>2. height + 1 + 2 = height + 3 /\ height + 1 + 3 = height + 4 /\ height + 1 \in 0 .. MaxHeight
    BY <1>1, BoundsAssumption
  <2>3. /\ work' = work /\ dao' = work /\ cache' = UpdateCache(work)
    BY <1>1 DEF StoreBlock, WorkFits
  <2>. QED BY <1>1, <2>1, <2>2, <2>3, SameAsItself DEF WorkFits
<1>5. PromisesFit'
  <2>1. Len(next) = height + 2 /\ height + 1 + 1 = height + 2
    BY <1>1 DEF PromisesFit
  <2>2. next' = next /\ dao' = work
    BY DEF StoreBlock
  <2>. QED BY <1>1, <1>3, <2>1, <2>2 DEF PromisesFit
<1>6. DiskFits'
  BY <1>1 DEF DiskFits, StoreBlock
<1>7. \A r \in Role : Stored(dao, r, height + 1)' \in allowed'
  <2>1. cache = UpdateCache(work) /\ allowed' = whitelist(cache, work, height + 1) /\ dao' = work
    BY <1>1 DEF WorkFits, StoreBlock
  <2>. QED BY <1>1, <1>2, <2>1, WhitelistHolds
<1>. QED BY <1>4, <1>5, <1>6, <1>7

\* The promises up to a block stay when those after it are dropped.
LEMMA PromisesCut ==
    ASSUME NEW T, NEW s \in Seq(T), NEW h \in Nat, h + 1 <= Len(s)
    PROVE  /\ SubSeq(s, 1, h + 1) \in Seq(T) /\ Len(SubSeq(s, 1, h + 1)) = h + 1
           /\ \A i \in 0 .. h : SubSeq(s, 1, h + 1)[i + 1] = s[i + 1]
<1>1. \A i \in 1 .. (h + 1) : i \in 1 .. Len(s)
  OBVIOUS
<1>2. /\ SubSeq(s, 1, h + 1) \in Seq(T) /\ Len(SubSeq(s, 1, h + 1)) = h + 1
      /\ \A i \in 1 .. (h + 1) : SubSeq(s, 1, h + 1)[i] = s[i]
  BY <1>1, SubSeqProperties
<1>3. \A i \in 0 .. h : i + 1 \in 1 .. (h + 1)
  OBVIOUS
<1>. QED BY <1>2, <1>3

\* A block that is refused leaves the state and the promises of the chain.
LEMMA RefuseInv ==
    ASSUME CommitteeInv, Refuse
    PROVE  CommitteeInv'
<1>. USE DEF CommitteeInv
<1>1. /\ height \in Nat /\ height + 2 \in Nat /\ height + 3 \in Nat /\ height + 2 <= height + 3
      /\ phase = "run" /\ phase' = "idle" /\ height' = height /\ dao' = dao
  BY DEF WorkFits, Refuse
<1>2. WorkFits'
  <2>1. work' = dao /\ cache' = cache /\ dao \in State(height + 3)
    BY <1>1, StateGrows DEF WorkFits, Refuse
  <2>. QED BY <1>1, <2>1, SameAsItself DEF WorkFits
<1>. DEFINE T == Committee \cup {Standby, None}
<1>3. next \in Seq(T) /\ height + 1 <= Len(next) /\ next' = SubSeq(next, 1, height + 1)
  BY <1>1 DEF PromisesFit, Refuse
<1>. HIDE DEF T
<1>4. next' \in Seq(T) /\ Len(next') = height + 1 /\ \A i \in 0 .. height : next'[i + 1] = next[i + 1]
  BY <1>1, <1>3, PromisesCut
<1>5. next'[height + 1] = next[height + 1]
  BY <1>1, <1>4
<1>6. PromisesFit'
  BY <1>1, <1>4, <1>5 DEF PromisesFit, T
<1>7. DiskFits'
  <2>1. disk' = disk /\ disk.height \in 0 .. height
    BY DEF DiskFits, Refuse
  <2>2. next'[disk.height + 1] = next[disk.height + 1]
    BY <1>4, <2>1
  <2>. QED BY <1>1, <2>1, <2>2 DEF DiskFits
<1>8. \A r \in Role : Stored(dao, r, height + 1)' \in allowed'
  BY DEF Refuse
<1>. QED BY <1>2, <1>6, <1>7, <1>8

\* What is flushed is the state of the chain.
LEMMA FlushInv ==
    ASSUME CommitteeInv, Flush
    PROVE  CommitteeInv'
<1>. USE DEF CommitteeInv, Flush
<1>1. WorkFits' /\ PromisesFit'
  BY DEF WorkFits, PromisesFit
<1>2. DiskFits'
  <2>1. height \in Nat /\ height \in 0 .. height /\ dao \in State(height + 2)
    BY DEF WorkFits
  <2>2. disk'.height = height /\ disk'.dao = dao
    OBVIOUS
  <2>. QED BY <2>1, <2>2 DEF DiskFits, PromisesFit
<1>. QED BY <1>1, <1>2

\* A restart goes back to what was flushed and to the caches made of it.
LEMMA RestartInv ==
    ASSUME KeysInOrder, CommitteeInv, Restart
    PROVE  CommitteeInv'
<1>. USE DEF CommitteeInv
<1>. DEFINE h == disk.height
            d == disk.dao
            T == Committee \cup {Standby, None}
<1>1. /\ height \in 0 .. MaxHeight /\ h \in 0 .. height /\ d \in State(h + 2)
      /\ next[h + 1] = Stored(d, "Validator", h + 1)
  BY DEF WorkFits, DiskFits
<1>2. /\ height' = h /\ dao' = d /\ work' = d /\ phase' = "idle" /\ disk' = disk
      /\ cache' = UpdateCache(d) /\ next' = SubSeq(next, 1, h + 1) /\ allowed' = whitelist(UpdateCache(d), d, h)
  BY DEF Restart
<1>3. next \in Seq(T) /\ height + 1 <= Len(next)
  BY <1>1 DEF PromisesFit
<1>4. InOrder(d) /\ MaxHeight + 2 < Radix * Radix
  BY BoundsAssumption DEF KeysInOrder
<1>. HIDE DEF h, d, T
<1>5. /\ h \in Nat /\ h + 2 \in Nat /\ h + 3 \in Nat /\ h + 2 <= h + 3 /\ h + 1 <= Len(next)
      /\ h \in 0 .. MaxHeight /\ h + 2 <= MaxHeight + 2 /\ MaxHeight + 2 \in Nat
  BY <1>1, <1>3, BoundsAssumption, LenProperties
<1>6. d \in State(h + 3) /\ d \in State(MaxHeight + 2)
  BY <1>1, <1>5, StateGrows
<1>7. WorkFits'
  BY <1>1, <1>2, <1>5, <1>6, SameAsItself DEF WorkFits
<1>8. next' \in Seq(T) /\ Len(next') = h + 1 /\ next'[h + 1] = next[h + 1]
  BY <1>2, <1>3, <1>5, PromisesCut
<1>9. PromisesFit'
  BY <1>1, <1>2, <1>8, Zenon DEF PromisesFit, T
<1>10. DiskFits'
  <2>1. disk' \in [height : 0 .. h, dao : State(h + 2)]
    BY <1>1, <1>2, <1>5 DEF DiskFits, h, d
  <2>. QED BY <1>1, <1>2, <1>8, <2>1 DEF DiskFits, h, d
<1>11. \A r \in Role : Stored(dao, r, height + 1)' \in allowed'
  BY <1>2, <1>4, <1>5, <1>6, WhitelistHolds
<1>. QED BY <1>7, <1>9, <1>10, <1>11

\* CommitteeInv is inductive, while keys sort like indices.
LEMMA NextInv ==
    ASSUME KeysInOrder, CommitteeInv, [Next]_vars
    PROVE  CommitteeInv'
<1>1. CASE UNCHANGED vars
  BY <1>1 DEF vars, CommitteeInv, WorkFits, PromisesFit, DiskFits
<1>. QED BY <1>1, BeginBlockInv, DesignateInv, PolicyInv, PostPersistInv, StoreBlockInv, RefuseInv, FlushInv,
            RestartInv, ZenonT(40) DEF Next

\* For any committees, prices and number of blocks: the committee a header has
\* promised is the one that consensus works with and listens to, whatever the
\* block that is executed designates, and also after a restart from any flushed
\* state; and the caches of Designate and Policy answer like the state of the
\* chain.  The hypothesis is a limit of the code: the keys that Designate makes
\* of an index are little-endian, and have to sort like the indices.
THEOREM CommitteesAreKnown == Spec /\ []KeysInOrder => []CommitteeIsKnown
<1>1. Init => CommitteeInv
  BY InitInv
<1>2. KeysInOrder /\ CommitteeInv /\ [Next]_vars => CommitteeInv'
  BY NextInv
<1>3. KeysInOrder /\ CommitteeInv => CommitteeIsKnown
  BY InvImplies
<1>. QED BY <1>1, <1>2, <1>3, PTL DEF Spec

\* The keys are in order as long as indices fit their first byte.
LEMMA ShortKeysInOrder ==
    ASSUME MaxHeight + 2 < Radix, CommitteeInv
    PROVE  KeysInOrder
<1>1. \A d \in State(MaxHeight + 2) : InOrder(d)
  <2>. SUFFICES ASSUME NEW d \in State(MaxHeight + 2), NEW r \in Role,
                       NEW i \in DOMAIN d.roles[r], NEW j \in DOMAIN d.roles[r], i < j
                PROVE  littleEndian(i) < littleEndian(j)
    BY DEF InOrder
  <2>1. MaxHeight + 2 \in Nat
    BY BoundsAssumption
  <2>2. i \in 0 .. (MaxHeight + 2) /\ j \in 0 .. (MaxHeight + 2)
    BY <2>1, StateTypes
  <2>3. i \in Nat /\ j \in Nat /\ j < Radix
    BY <2>1, <2>2, BoundsAssumption
  <2>. QED BY <2>3, KeysSort
<1>2. dao \in State(MaxHeight + 2) /\ work \in State(MaxHeight + 2)
  BY StatesFit DEF CommitteeInv
<1>3. disk.dao \in State(MaxHeight + 2)
  <2>1. disk.height \in 0 .. height /\ height \in 0 .. MaxHeight /\ disk.dao \in State(disk.height + 2)
    BY DEF CommitteeInv, WorkFits, DiskFits
  <2>. DEFINE h == disk.height
  <2>. HIDE DEF h
  <2>2. h + 2 \in Nat /\ MaxHeight + 2 \in Nat /\ h + 2 <= MaxHeight + 2
    BY <2>1, BoundsAssumption DEF h
  <2>3. State(h + 2) \subseteq State(MaxHeight + 2)
    BY <2>2, StateGrows
  <2>. QED BY <2>1, <2>3 DEF h
<1>. QED BY <1>1, <1>2, <1>3 DEF KeysInOrder

\* For a chain whose indices fit the first byte of their keys the hypothesis
\* holds: nothing is left to assume.
THEOREM ShortChainsKnowTheirCommittee == MaxHeight + 2 < Radix => (Spec => []CommitteeIsKnown)
<1>1. ASSUME MaxHeight + 2 < Radix
      PROVE  Spec => []CommitteeIsKnown
  <2>1. Init => CommitteeInv
    BY InitInv
  <2>2. CommitteeInv /\ [Next]_vars => CommitteeInv'
    BY <1>1, NextInv, ShortKeysInOrder
  <2>3. CommitteeInv => CommitteeIsKnown
    BY <1>1, InvImplies, ShortKeysInOrder
  <2>. QED BY <2>1, <2>2, <2>3, PTL DEF Spec
<1>. QED BY <1>1
=============================================================================
