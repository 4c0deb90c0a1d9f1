----------------------------- MODULE ProjectProofs -----------------------------
(***************************************************************************)
(* Proofs about Project, for any lockfiles, policies and registries: what  *)
(* the commands say of one evaluation agrees with itself, `verify` names   *)
(* every drift, the snippet of `doctor` unblocks what it is about,         *)
(* `simulate` foretells the verdicts of its candidate, and what is decided *)
(* on is what the package managers wrote.                                  *)
(***************************************************************************)
EXTENDS Project, PolicyProofs, SequenceTheorems, WellFoundedInduction

-----------------------------------------------------------------------------
(***************************************************************************)
(* Sequences in order.                                                     *)
(***************************************************************************)
\* before[x] are the members of S before x in a strict total order.
IsOrder(S, before) ==
  /\ IsFiniteSet(S) /\ before \in [S -> SUBSET S]
  /\ \A x \in S : x \notin before[x]
  /\ \A x, y \in S : x \in before[y] => before[x] \subseteq before[y]
  /\ \A x, y \in S : x # y => x \in before[y] \/ y \in before[x]

\* The members before it number the members of S.
Numbers(S, before) ==
  /\ Cardinality(S) \in Nat
  /\ \A x \in S : Cardinality(before[x]) \in Nat /\ Cardinality(before[x]) + 1 \in 1 .. Cardinality(S)
  /\ \A x, y \in S : Cardinality(before[x]) = Cardinality(before[y]) => x = y
  /\ \A k \in 1 .. Cardinality(S) : \E x \in S : Cardinality(before[x]) + 1 = k

LEMMA Places ==
  ASSUME NEW S, NEW before, IsOrder(S, before)
  PROVE  Numbers(S, before)
PROOF
<1>1. Cardinality(S) \in Nat
  BY FS_CardinalityType DEF IsOrder
<1>2. ASSUME NEW x \in S
      PROVE  IsFiniteSet(before[x]) /\ Cardinality(before[x]) \in Nat /\ Cardinality(before[x]) < Cardinality(S)
  <2>1. before[x] \in SUBSET S /\ before[x] # S
    BY DEF IsOrder
  <2>2. /\ IsFiniteSet(before[x]) /\ Cardinality(before[x]) <= Cardinality(S)
        /\ Cardinality(S) # Cardinality(before[x])
    BY <2>1, FS_Subset DEF IsOrder
  <2>3. Cardinality(before[x]) \in Nat
    BY <2>2, FS_CardinalityType
  <2> QED
    BY <1>1, <2>2, <2>3
<1>3. ASSUME NEW x \in S, NEW y \in S, x \in before[y]
      PROVE  Cardinality(before[x]) # Cardinality(before[y])
  <2>1. before[x] \in SUBSET before[y] /\ before[x] # before[y]
    BY <1>3 DEF IsOrder
  <2> QED
    BY <1>2, <2>1, FS_Subset
<1>4. ASSUME NEW x \in S, NEW y \in S, Cardinality(before[x]) = Cardinality(before[y]) PROVE x = y
  BY <1>3, <1>4 DEF IsOrder
<1> DEFINE f == [x \in S |-> Cardinality(before[x]) + 1]
<1>5. \A x \in S : Cardinality(before[x]) + 1 \in 1 .. Cardinality(S)
  BY <1>1, <1>2
<1>6. f \in Injection(S, 1 .. Cardinality(S))
  <2>1. f \in [S -> 1 .. Cardinality(S)]
    BY <1>5
  <2>2. ASSUME NEW x \in S, NEW y \in S, f[x] = f[y] PROVE x = y
    BY <1>2, <1>4, <2>2
  <2> QED
    BY <2>1, <2>2 DEF Injection, IsInjective
<1>7. IsFiniteSet(1 .. Cardinality(S)) /\ Cardinality(1 .. Cardinality(S)) = Cardinality(S)
  BY <1>1, FS_Interval
<1>8. f \in Surjection(S, 1 .. Cardinality(S))
  BY <1>6, <1>7, FS_Injection
<1>9. \A k \in 1 .. Cardinality(S) : \E x \in S : Cardinality(before[x]) + 1 = k
  BY <1>8 DEF Surjection
<1> QED
  BY <1>1, <1>2, <1>4, <1>5, <1>9 DEF Numbers

\* The members of S in order.
Enumeration(S, before) ==
  LET placed == {[at |-> Cardinality(before[x]) + 1, of |-> x] : x \in S}
  IN [k \in 1 .. Cardinality(S) |-> (CHOOSE p \in placed : p.at = k).of]

LEMMA EnumerationIs ==
  ASSUME NEW S, NEW before, IsOrder(S, before)
  PROVE  /\ Cardinality(S) \in Nat
         /\ Enumeration(S, before) \in Bijection(1 .. Cardinality(S), S)
PROOF
<1> DEFINE n == Cardinality(S)
           placed == {[at |-> Cardinality(before[x]) + 1, of |-> x] : x \in S}
           at == [k \in 1 .. n |-> (CHOOSE q \in placed : q.at = k).of]
<1>1. Numbers(S, before)
  BY Places
<1>2. /\ \A x \in S : Cardinality(before[x]) \in Nat /\ Cardinality(before[x]) + 1 \in 1 .. n
      /\ \A x, y \in S : Cardinality(before[x]) = Cardinality(before[y]) => x = y
      /\ \A k \in 1 .. n : \E x \in S : Cardinality(before[x]) + 1 = k
      /\ n \in Nat
  BY <1>1 DEF Numbers
<1>3. ASSUME NEW k \in 1 .. n
      PROVE  at[k] \in S /\ Cardinality(before[at[k]]) + 1 = k
  <2> DEFINE p == CHOOSE q \in placed : q.at = k
  <2>1. at[k] = p.of
    OBVIOUS
  <2>2. PICK x \in S : Cardinality(before[x]) + 1 = k
    BY <1>2
  <2>3. [at |-> Cardinality(before[x]) + 1, of |-> x] \in placed
    OBVIOUS
  <2> HIDE DEF placed
  <2>4. p \in placed /\ p.at = k
    BY <2>2, <2>3
  <2> HIDE DEF p
  <2>5. PICK z \in S : p = [at |-> Cardinality(before[z]) + 1, of |-> z]
    BY <2>4 DEF placed
  <2> HIDE DEF at
  <2> QED
    BY <2>1, <2>4, <2>5
<1>4. at = [k \in 1 .. n |-> at[k]] /\ Enumeration(S, before) = at
  BY DEF Enumeration
<1> HIDE DEF at, placed
<1>5. at \in [1 .. n -> S]
  BY <1>3, <1>4
<1>6. \A k, l \in 1 .. n : at[k] = at[l] => k = l
  BY <1>2, <1>3
<1>7. ASSUME NEW x \in S PROVE \E k \in 1 .. n : at[k] = x
  <2> DEFINE y == at[Cardinality(before[x]) + 1]
  <2>1. Cardinality(before[x]) + 1 \in 1 .. n
    BY <1>2
  <2>2. y \in S /\ Cardinality(before[y]) + 1 = Cardinality(before[x]) + 1
    BY <1>3, <2>1
  <2>3. y = x
    <3> HIDE DEF y
    <3>1. Cardinality(before[y]) = Cardinality(before[x])
      BY <1>2, <2>2
    <3> QED
      BY <1>2, <2>2, <3>1
  <2> QED
    BY <2>1, <2>3
<1>8. at \in Bijection(1 .. n, S)
  BY <1>5, <1>6, <1>7 DEF Bijection, Injection, Surjection, IsInjective
<1> QED
  BY <1>2, <1>4, <1>8

\* The positions of a selection.
Preceding(I) == [x \in I |-> {y \in I : y < x}]

LEMMA PositionsOrdered ==
  ASSUME NEW I \in SUBSET Int, IsFiniteSet(I)
  PROVE  IsOrder(I, Preceding(I))
PROOF
<1> DEFINE before == Preceding(I)
<1>1. \A x \in I : x \in Int
  OBVIOUS
<1>2. before \in [I -> SUBSET I] /\ \A x \in I : before[x] = {y \in I : y < x}
  BY DEF Preceding
<1>3. \A x, y \in I : x \in before[y] <=> x < y
  BY <1>2
<1> HIDE DEF before
<1>4. ASSUME NEW x \in I PROVE x \notin before[x]
  <2>1. x \in Int /\ (x \in before[x] <=> x < x)
    BY <1>1, <1>3
  <2> QED
    BY <2>1
<1>5. ASSUME NEW x \in I, NEW y \in I, x # y PROVE x \in before[y] \/ y \in before[x]
  <2>1. x \in Int /\ y \in Int /\ (x \in before[y] <=> x < y) /\ (y \in before[x] <=> y < x)
    BY <1>1, <1>3
  <2> QED
    BY <1>5, <2>1
<1>6. ASSUME NEW x \in I, NEW y \in I, x \in before[y], NEW z \in before[x]
      PROVE  z \in before[y]
  <2>1. z \in I
    BY <1>2
  <2>2. z < x /\ x < y /\ x \in Int /\ y \in Int /\ z \in Int
    BY <1>1, <1>3, <1>6, <2>1
  <2>3. z < y
    BY <2>2
  <2> QED
    BY <1>3, <2>1, <2>3
<1> QED
  BY <1>2, <1>4, <1>5, <1>6 DEF IsOrder, before

\* A selection has each of the chosen elements once.
LEMMA SelectedIs ==
  ASSUME NEW s, NEW I \in SUBSET Int, IsFiniteSet(I)
  PROVE  /\ Cardinality(I) \in Nat
         /\ \E at \in Bijection(1 .. Cardinality(I), I) :
              Selected(s, I) = [k \in 1 .. Cardinality(I) |-> s[at[k]]]
PROOF
<1> DEFINE at == Enumeration(I, Preceding(I))
<1>1. Cardinality(I) \in Nat /\ at \in Bijection(1 .. Cardinality(I), I)
  BY PositionsOrdered, EnumerationIs
<1>2. InOrder(I, <) = at
  BY DEF InOrder, Enumeration, Preceding
<1>3. Selected(s, I) = [k \in DOMAIN at |-> s[at[k]]]
  BY <1>2 DEF Selected
<1> HIDE DEF at
<1>4. DOMAIN at = 1 .. Cardinality(I)
  BY <1>1 DEF Bijection, Injection
<1> QED
  BY <1>1, <1>3, <1>4

-----------------------------------------------------------------------------
LEMMA PlaceIs == ASSUME NEW s PROVE Place(s) \in Int
PROOF
<1> DEFINE places == {i \in DOMAIN Alphabet : Alphabet[i] = s}
<1>1. places \subseteq Int
  BY LockfilesAssumption
<1>2. CASE places = {}
  BY <1>2 DEF Place
<1>3. CASE places # {}
  <2>1. (CHOOSE i \in places : TRUE) \in places
    BY <1>3
  <2> QED
    BY <1>1, <1>3, <2>1 DEF Place
<1> QED
  BY <1>2, <1>3

EarlierKeys(K) == [x \in K |-> {y \in K : Earlier(y, x)}]

\* Keys that differ in their positions at the least are in a strict order.
LEMMA KeysOrdered ==
  ASSUME NEW K \in SUBSET [name : Int, version : Int, at : Int], IsFiniteSet(K),
         \A x, y \in K : x.at = y.at => x = y
  PROVE  IsOrder(K, EarlierKeys(K))
PROOF
<1>1. PICK before : before = EarlierKeys(K)
  OBVIOUS
<1>2. before \in [K -> SUBSET K] /\ \A x, y \in K : x \in before[y] <=> Earlier(x, y)
  BY <1>1 DEF EarlierKeys
<1>3. \A x \in K : x.name \in Int /\ x.version \in Int /\ x.at \in Int
  OBVIOUS
<1>4. \A x \in K : ~Earlier(x, x)
  BY <1>3 DEF Earlier
<1>5. \A x, y, z \in K : Earlier(x, y) /\ Earlier(y, z) => Earlier(x, z)
  BY <1>3 DEF Earlier
<1>6. \A x, y \in K : x # y => Earlier(x, y) \/ Earlier(y, x)
  BY <1>3 DEF Earlier
<1>7. ASSUME NEW x \in K, NEW y \in K, x \in before[y], NEW z \in before[x]
      PROVE  z \in before[y]
  <2>1. z \in K
    BY <1>2
  <2> QED
    BY <1>2, <1>5, <1>7, <2>1
<1> QED
  BY <1>1, <1>2, <1>4, <1>6, <1>7 DEF IsOrder

\* Sorting rearranges.
LEMMA SortedRearranges ==
  ASSUME NEW deps, NEW n \in Nat, DOMAIN deps = 1 .. n
  PROVE  \E from \in Bijection(1 .. n, 1 .. n) : Sorted(deps) = [k \in 1 .. n |-> deps[from[k]]]
PROOF
<1> DEFINE key == [i \in 1 .. n |-> SortKey(deps, i)]
           K == {SortKey(deps, i) : i \in 1 .. n}
           at == Enumeration(K, EarlierKeys(K))
<1>1. /\ \A i \in 1 .. n : key[i] \in [name : Int, version : Int, at : Int] /\ key[i].at = i
      /\ \A x \in K : \E i \in 1 .. n : x = key[i]
      /\ \A i \in 1 .. n : key[i] \in K
  BY PlaceIs DEF SortKey
<1>2. key \in Bijection(1 .. n, K)
  <2>1. key \in [1 .. n -> K]
    OBVIOUS
  <2> HIDE DEF key, K
  <2> QED
    BY <1>1, <2>1 DEF Bijection, Injection, Surjection, IsInjective
<1>3. IsFiniteSet(K) /\ Cardinality(K) = n
  <2> HIDE DEF key, K
  <2> QED
    BY <1>2, FS_Bijection, FS_Interval DEF ExistsBijection
<1>4. IsOrder(K, EarlierKeys(K))
  <2>1. K \in SUBSET [name : Int, version : Int, at : Int] /\ \A x, y \in K : x.at = y.at => x = y
    <3> HIDE DEF key, K
    <3> QED
      BY <1>1
  <2> HIDE DEF K
  <2> QED
    BY <1>3, <2>1, KeysOrdered
<1>5. at \in Bijection(1 .. n, K)
  <2> HIDE DEF K
  <2> QED
    BY <1>3, <1>4, EnumerationIs
<1>6. InOrder(K, Earlier) = at
  <2> HIDE DEF K
  <2> QED
    BY DEF InOrder, Enumeration, EarlierKeys
<1>7. Sorted(deps) = [k \in DOMAIN at |-> deps[at[k].at]]
  BY <1>6 DEF Sorted
<1> HIDE DEF key, K, at
<1>8. /\ DOMAIN at = 1 .. n /\ \A k \in 1 .. n : at[k] \in K
      /\ \A x \in K : \E k \in 1 .. n : at[k] = x
  BY <1>5 DEF Bijection, Injection, Surjection
<1> DEFINE from == [k \in 1 .. n |-> at[k].at]
<1>9. ASSUME NEW k \in 1 .. n PROVE at[k].at \in 1 .. n /\ at[k] = key[at[k].at]
  <2>1. PICK i \in 1 .. n : at[k] = key[i]
    BY <1>1, <1>8
  <2>2. at[k].at = i
    BY <1>1, <2>1
  <2> QED
    BY <2>1, <2>2
<1>10. from \in [1 .. n -> 1 .. n] /\ \A k \in 1 .. n : from[k] = at[k].at
  BY <1>9
<1> HIDE DEF from
<1>11. ASSUME NEW k \in 1 .. n, NEW l \in 1 .. n, from[k] = from[l] PROVE k = l
  <2>1. at[k] = at[l]
    BY <1>9, <1>10, <1>11
  <2> QED
    BY <2>1, <1>5 DEF Bijection, Injection, IsInjective
<1>12. ASSUME NEW i \in 1 .. n PROVE \E k \in 1 .. n : from[k] = i
  <2>1. PICK k \in 1 .. n : at[k] = key[i]
    BY <1>1, <1>8
  <2> QED
    BY <2>1, <1>1, <1>10
<1>13. from \in Bijection(1 .. n, 1 .. n)
  BY <1>10, <1>11, <1>12 DEF Bijection, Injection, Surjection, IsInjective
<1>14. Sorted(deps) = [k \in 1 .. n |-> deps[from[k]]]
  BY <1>7, <1>8, <1>10
<1> QED
  BY <1>13, <1>14

LEMMA SortedIs ==
  ASSUME NEW deps, NEW n \in Nat, DOMAIN deps = 1 .. n
  PROVE  /\ DOMAIN Sorted(deps) = 1 .. n
         /\ \A k \in 1 .. n : \E i \in 1 .. n : Sorted(deps)[k] = deps[i]
         /\ \A i \in 1 .. n : \E k \in 1 .. n : Sorted(deps)[k] = deps[i]
PROOF
<1>1. PICK from \in Bijection(1 .. n, 1 .. n) : Sorted(deps) = [k \in 1 .. n |-> deps[from[k]]]
  BY SortedRearranges
<1>2. /\ \A k \in 1 .. n : from[k] \in 1 .. n
      /\ \A i \in 1 .. n : \E k \in 1 .. n : from[k] = i
  BY DEF Bijection, Injection, Surjection
<1>3. PICK sorted : sorted = Sorted(deps)
  OBVIOUS
<1>4. DOMAIN sorted = 1 .. n /\ \A k \in 1 .. n : sorted[k] = deps[from[k]]
  BY <1>1, <1>3
<1>5. \A k \in 1 .. n : \E i \in 1 .. n : sorted[k] = deps[i]
  BY <1>2, <1>4
<1>6. ASSUME NEW i \in 1 .. n PROVE \E k \in 1 .. n : sorted[k] = deps[i]
  <2>1. PICK k \in 1 .. n : from[k] = i
    BY <1>2
  <2> QED
    BY <1>4, <2>1
<1>7. DOMAIN sorted = 1 .. n
  BY <1>4
<1> QED
  BY <1>3, <1>5, <1>6, <1>7, Zenon

-----------------------------------------------------------------------------
(***************************************************************************)
(* What the adapters return.                                               *)
(***************************************************************************)
\* A list of dependencies of one ecosystem, Python names in their normal form.
Proper(eco, deps) ==
  /\ \E n \in Nat : DOMAIN deps = 1 .. n
  /\ \A i \in DOMAIN deps :
       deps[i].eco = eco /\ (eco = "pypi" => Normalised(deps[i].name) = deps[i].name)

LEMMA FailedProper == ASSUME NEW eco PROVE Proper(eco, Failed.deps)
PROOF
<1>1. DOMAIN Failed.deps = 1 .. 0 /\ 1 .. 0 = {}
  BY DEF Failed
<1> QED
  BY <1>1 DEF Proper

LEMMA SortedProper ==
  ASSUME NEW eco, NEW deps, Proper(eco, deps)
  PROVE  Proper(eco, Parsed(Sorted(deps)).deps)
PROOF
<1>1. PICK n \in Nat : DOMAIN deps = 1 .. n
  BY DEF Proper
<1> DEFINE sorted == Sorted(deps)
<1>2. DOMAIN sorted = 1 .. n /\ \A k \in 1 .. n : \E i \in 1 .. n : sorted[k] = deps[i]
  BY <1>1, SortedIs
<1>3. Parsed(Sorted(deps)).deps = sorted
  BY DEF Parsed
<1> HIDE DEF sorted
<1> QED
  BY <1>1, <1>2, <1>3 DEF Proper

LEMMA NormalisedTwice == ASSUME NEW name PROVE Normalised(Normalised(name)) = Normalised(name)
PROOF BY LockfilesAssumption DEF Normalised

\* The positions a test picks out of a list.
LEMMA PickedLength ==
  ASSUME NEW s, NEW n \in Nat, DOMAIN s = 1 .. n, NEW I \in SUBSET DOMAIN s
  PROVE  /\ I \in SUBSET Int /\ IsFiniteSet(I)
         /\ Cardinality(I) \in Nat /\ DOMAIN Selected(s, I) = 1 .. Cardinality(I)
PROOF
<1>1. I \in SUBSET Int /\ IsFiniteSet(I)
  BY FS_Interval, FS_Subset
<1> QED
  BY <1>1, SelectedIs

LEMMA NpmProper ==
  ASSUME NEW doc, NEW n \in Nat, DOMAIN doc.entries = 1 .. n
  PROVE  Proper("npm", NpmParse(doc).deps)
PROOF
<1> DEFINE I == {i \in DOMAIN doc.entries :
                   /\ ~(doc.entries[i].dir = Empty /\ doc.entries[i].chain = <<>>)
                   /\ ~doc.entries[i].link /\ doc.entries[i].version # Absent}
           kept == Selected(doc.entries, I)
           deps == [i \in DOMAIN kept |->
                      Dep("npm", NpmName(kept[i]), kept[i].version,
                          IF UnderNodeModules(kept[i]) THEN NpmSource(kept[i].resolved) ELSE "workspace",
                          UnderNodeModules(kept[i]) /\ Len(kept[i].chain) = 1)]
<1>1. NpmParse(doc) \in {Failed, Parsed(Sorted(deps))}
  BY DEF NpmParse, Each, Where
<1>2. \E m \in Nat : DOMAIN deps = 1 .. m
  <2>1. I \in SUBSET DOMAIN doc.entries
    OBVIOUS
  <2> HIDE DEF I
  <2> QED
    BY <2>1, PickedLength
<1>3. \A i \in DOMAIN deps : deps[i].eco = "npm"
  BY DEF Dep
<1> HIDE DEF deps
<1>4. Proper("npm", deps)
  BY <1>2, <1>3 DEF Proper
<1> QED
  BY <1>1, <1>4, FailedProper, SortedProper

LEMMA PnpmProper ==
  ASSUME NEW doc, NEW n \in Nat, DOMAIN doc.entries = 1 .. n
  PROVE  Proper("pnpm", PnpmParse(doc).deps)
PROOF
<1> DEFINE I == {i \in DOMAIN doc.entries : PnpmReadable(doc, doc.entries[i])}
           kept == Selected(doc.entries, I)
           deps == [i \in DOMAIN kept |->
                      Dep("pnpm", kept[i].name, kept[i].version, PnpmSource(kept[i].resolution),
                          [name |-> kept[i].name, version |-> kept[i].version] \in PnpmDirect(doc))]
<1>1. PnpmParse(doc) \in {Failed, Parsed(Sorted(deps))}
  BY DEF PnpmParse, Each, Where
<1>2. \E m \in Nat : DOMAIN deps = 1 .. m
  <2>1. I \in SUBSET DOMAIN doc.entries
    OBVIOUS
  <2> HIDE DEF I
  <2> QED
    BY <2>1, PickedLength
<1>3. \A i \in DOMAIN deps : deps[i].eco = "pnpm"
  BY DEF Dep
<1> HIDE DEF deps
<1>4. Proper("pnpm", deps)
  BY <1>2, <1>3 DEF Proper
<1> QED
  BY <1>1, <1>4, FailedProper, SortedProper

LEMMA YarnProper ==
  ASSUME NEW doc, NEW n \in Nat, DOMAIN doc.entries = 1 .. n
  PROVE  Proper("yarn", YarnParse(doc).deps)
PROOF
<1> DEFINE I == {i \in DOMAIN doc.entries :
                   /\ doc.entries[i].version # Absent /\ doc.entries[i].resolution # Absent
                   /\ doc.entries[i].resolution.upto # Empty
                   /\ doc.entries[i].resolution.protocol # "workspace"}
           kept == Selected(doc.entries, I)
           deps == [i \in DOMAIN kept |->
                      Dep("yarn", kept[i].resolution.upto, kept[i].version, YarnSource(kept[i].resolution),
                          \E d \in kept[i].descriptors :
                            [name |-> d.upto, range |-> d.value] \in YarnDirect(doc))]
<1>1. YarnParse(doc) \in {Failed, Parsed(Sorted(deps))}
  BY DEF YarnParse, Each, Where
<1>2. \E m \in Nat : DOMAIN deps = 1 .. m
  <2>1. I \in SUBSET DOMAIN doc.entries
    OBVIOUS
  <2> HIDE DEF I
  <2> QED
    BY <2>1, PickedLength
<1>3. \A i \in DOMAIN deps : deps[i].eco = "yarn"
  BY DEF Dep
<1> HIDE DEF deps
<1>4. Proper("yarn", deps)
  BY <1>2, <1>3 DEF Proper
<1> QED
  BY <1>1, <1>4, FailedProper, SortedProper

LEMMA UvProper ==
  ASSUME NEW doc, NEW n \in Nat, DOMAIN doc.entries = 1 .. n
  PROVE  Proper("pypi", UvParse(doc).deps)
PROOF
<1> DEFINE I == {i \in DOMAIN doc.entries :
                   /\ doc.entries[i].version # Absent
                   /\ ~(doc.entries[i].source.kind = "virtual" /\ doc.entries[i].source.path = ".")}
           kept == Selected(doc.entries, I)
           deps == [i \in DOMAIN kept |->
                      Dep("pypi", Normalised(kept[i].name), kept[i].version, UvSource(kept[i].source),
                          Normalised(kept[i].name) \in UvDirect(doc))]
<1>1. UvParse(doc) \in {Failed, Parsed(Sorted(deps))}
  BY DEF UvParse, Each, Where
<1>2. \E m \in Nat : DOMAIN deps = 1 .. m
  <2>1. I \in SUBSET DOMAIN doc.entries
    OBVIOUS
  <2> HIDE DEF I
  <2> QED
    BY <2>1, PickedLength
<1>3. \A i \in DOMAIN deps : deps[i].eco = "pypi" /\ Normalised(deps[i].name) = deps[i].name
  BY NormalisedTwice DEF Dep
<1> HIDE DEF deps
<1>4. Proper("pypi", deps)
  BY <1>2, <1>3 DEF Proper
<1> QED
  BY <1>1, <1>4, FailedProper, SortedProper

LEMMA RequirementsProper ==
  ASSUME NEW doc, NEW n \in Nat, DOMAIN doc.entries = 1 .. n
  PROVE  Proper("pypi", RequirementsParse(doc).deps)
PROOF
<1> DEFINE deps == [i \in DOMAIN doc.entries |->
                      Dep("pypi", Normalised(doc.entries[i].name), doc.entries[i].version, "pypi",
                          LastVia(doc.entries[i]) \in {Absent, "-r", "-c"})]
<1>1. RequirementsParse(doc) \in {Failed, Parsed(Sorted(deps))}
  BY DEF RequirementsParse, Each, Where
<1>2. \E m \in Nat : DOMAIN deps = 1 .. m
  OBVIOUS
<1>3. \A i \in DOMAIN deps : deps[i].eco = "pypi" /\ Normalised(deps[i].name) = deps[i].name
  BY NormalisedTwice DEF Dep
<1> HIDE DEF deps
<1>4. Proper("pypi", deps)
  BY <1>2, <1>3 DEF Proper
<1> QED
  BY <1>1, <1>4, FailedProper, SortedProper

LEMMA PoetryProper ==
  ASSUME NEW doc, NEW n \in Nat, DOMAIN doc.entries = 1 .. n
  PROVE  Proper("pypi", PoetryParse(doc).deps)
PROOF
<1> DEFINE deps == [i \in DOMAIN doc.entries |->
                      Dep("pypi", Normalised(doc.entries[i].name), doc.entries[i].version,
                          PoetrySource(doc.entries[i].source),
                          Normalised(doc.entries[i].name) \in PoetryDirect(doc))]
<1>1. PoetryParse(doc) \in {Failed, Parsed(Sorted(deps))}
  BY DEF PoetryParse, Each, Where
<1>2. \E m \in Nat : DOMAIN deps = 1 .. m
  OBVIOUS
<1>3. \A i \in DOMAIN deps : deps[i].eco = "pypi" /\ Normalised(deps[i].name) = deps[i].name
  BY NormalisedTwice DEF Dep
<1> HIDE DEF deps
<1>4. Proper("pypi", deps)
  BY <1>2, <1>3 DEF Proper
<1> QED
  BY <1>1, <1>4, FailedProper, SortedProper

LEMMA ParseProper ==
  ASSUME NEW doc, doc.format \in Formats, NEW n \in Nat, DOMAIN doc.entries = 1 .. n
  PROVE  Proper(Ecosystem(doc.format), Parse(doc).deps)
PROOF
<1>1. CASE doc.format = "npm"
  BY <1>1, NpmProper DEF Parse, Ecosystem
<1>2. CASE doc.format = "pnpm"
  BY <1>2, PnpmProper DEF Parse, Ecosystem
<1>3. CASE doc.format = "yarn"
  BY <1>3, YarnProper DEF Parse, Ecosystem
<1>4. CASE doc.format = "uv"
  BY <1>4, UvProper DEF Parse, Ecosystem
<1>5. CASE doc.format = "requirements"
  BY <1>5, RequirementsProper DEF Parse, Ecosystem
<1>6. CASE doc.format = "poetry"
  BY <1>6, PoetryProper DEF Parse, Ecosystem
<1> QED
  BY <1>1, <1>2, <1>3, <1>4, <1>5, <1>6 DEF Formats

-----------------------------------------------------------------------------
(***************************************************************************)
(* The invariant: while what a command said is on the screen, it is what   *)
(* the command says of the project as it is.                               *)
(***************************************************************************)
OutIs ==
  \/ out = None \/ out.exit = 2
  \/ \E limit \in Limits : out = CiSays(limit)
  \/ out = ExportSays
  \/ \E target \in Targets : out = ExplainSays(target)
  \/ lock # None /\ out = VerifySays
  \/ out = DoctorSays
  \/ \E candidate \in Policies, at \in Int : out = SimulateSays(candidate, at)

IInv ==
  /\ scenario \in DOMAIN Scenarios /\ tree \in Trees[scenario]
  /\ IsPolicy(policy)
  /\ lock # None => \E n \in Nat : DOMAIN lock.decisions = 1 .. n
  /\ OutIs

LEMMA ResultsKept ==
  ASSUME UNCHANGED project
  PROVE  \A p, at : Results(p, at)' = Results(p, at)
PROOF
<1>1. scenario' = scenario /\ tree' = tree /\ bad' = bad
  BY DEF project
<1>2. Document' = Document
  BY <1>1 DEF Document, Lockfile
<1>3. \A d : SignalsOf(d)' = SignalsOf(d)
  BY <1>1 DEF SignalsOf
<1> QED
  BY <1>2, <1>3 DEF Results, Each

LEMMA SaysKept ==
  ASSUME UNCHANGED project
  PROVE  /\ \A limit : CiSays(limit)' = CiSays(limit)
         /\ ExportSays' = ExportSays
         /\ \A target : ExplainSays(target)' = ExplainSays(target)
         /\ VerifySays' = VerifySays /\ lock' = lock
         /\ DoctorSays' = DoctorSays
         /\ \A candidate, at : SimulateSays(candidate, at)' = SimulateSays(candidate, at)
PROOF
<1>1. /\ scenario' = scenario /\ tree' = tree /\ policy' = policy /\ bad' = bad /\ now' = now
      /\ lock' = lock
  BY DEF project
<1>2. Current' = Current /\ \A p, at : Results(p, at)' = Results(p, at)
  BY <1>1, ResultsKept DEF Current
<1>3. LockNow' = LockNow
  BY <1>1, <1>2 DEF LockNow, Document
<1>4. \A limit : CiSays(limit)' = CiSays(limit)
  BY <1>2 DEF CiSays
<1>5. ExportSays' = ExportSays
  BY <1>2 DEF ExportSays
<1>6. \A target : ExplainSays(target)' = ExplainSays(target)
  BY <1>2 DEF ExplainSays
<1>7. VerifySays' = VerifySays
  BY <1>1, <1>3 DEF VerifySays
<1>8. DoctorSays' = DoctorSays
  BY <1>2 DEF DoctorSays
<1>9. \A candidate, at : SimulateSays(candidate, at)' = SimulateSays(candidate, at)
  BY <1>2 DEF SimulateSays
<1> QED
  BY <1>1, <1>4, <1>5, <1>6, <1>7, <1>8, <1>9

\* The lockfile of a project that may have its tree.
LEMMA DocumentProper ==
  ASSUME scenario \in DOMAIN Scenarios, tree \in Trees[scenario]
  PROVE  Proper(Ecosystem(Document.format), Parse(Document).deps)
PROOF
<1> DEFINE all == Scenarios[scenario].entries
<1>1. /\ tree \in SUBSET DOMAIN all /\ all \in Seq(Range(all))
      /\ {"format", "entries"} \subseteq DOMAIN Scenarios[scenario] /\ Scenarios[scenario].format \in Formats
  BY ProjectAssumption
<1>2. Document.entries = Selected(all, tree) /\ Document.format = Scenarios[scenario].format
  BY <1>1 DEF Document, Lockfile
<1>3. Len(all) \in Nat /\ DOMAIN all = 1 .. Len(all)
  BY <1>1
<1> HIDE DEF all
<1>4. Cardinality(tree) \in Nat /\ DOMAIN Document.entries = 1 .. Cardinality(tree)
  BY <1>1, <1>2, <1>3, PickedLength
<1> QED
  BY <1>1, <1>2, <1>4, ParseProper

\* What every evaluation is: a list of decided dependencies of one ecosystem.
IsResults(rs) ==
  /\ \E n \in Nat : DOMAIN rs = 1 .. n
  /\ \A i \in DOMAIN rs :
       /\ Verdict(rs[i]) \in Verdicts
       /\ Verdict(rs[i]) # "allow" => rs[i].decision.reasons # {}
  /\ \E eco : \A i \in DOMAIN rs :
       rs[i].dep.eco = eco /\ (eco = "pypi" => Normalised(rs[i].dep.name) = rs[i].dep.name)

\* The results are of the dependencies in the adapter's order, each decided by the
\* policy from the signals there are for it.
Decided(rs, deps, p, at) ==
  /\ DOMAIN rs = DOMAIN deps
  /\ \A i \in DOMAIN deps :
       /\ rs[i].dep = deps[i]
       /\ rs[i].decision = Evaluate(p, PolicyDep(deps[i]), SignalsOf(deps[i]), at, FALSE)

LEMMA ResultsAre ==
  ASSUME NEW p, NEW at
  PROVE  Decided(Results(p, at), Parse(Document).deps, p, at)
PROOF BY DEF Results, Each, Result, Decided

LEMMA ResultsProper ==
  ASSUME scenario \in DOMAIN Scenarios, tree \in Trees[scenario], NEW p, IsPolicy(p), NEW at
  PROVE  IsResults(Results(p, at))
PROOF
<1>1. PICK rs : rs = Results(p, at)
  OBVIOUS
<1>2. PICK deps : deps = Parse(Document).deps
  OBVIOUS
<1>3. Proper(Ecosystem(Document.format), deps)
  BY <1>2, DocumentProper
<1>4. Decided(rs, deps, p, at)
  BY <1>1, <1>2, ResultsAre
<1>5. ASSUME NEW i \in DOMAIN rs
      PROVE  Verdict(rs[i]) \in Verdicts /\ (Verdict(rs[i]) # "allow" => rs[i].decision.reasons # {})
  <2>1. PICK dep, sig, d : d = Evaluate(p, dep, sig, at, FALSE) /\ rs[i].decision = d
    BY <1>4 DEF Decided
  <2>2. PICK found : IsDecision(d, p, found)
    BY <2>1, EvaluateIs
  <2> QED
    BY <2>1, <2>2 DEF IsDecision, Verdict
<1>6. DOMAIN rs = DOMAIN deps /\ \A i \in DOMAIN rs : rs[i].dep = deps[i]
  BY <1>4 DEF Decided
<1>7. IsResults(rs)
  <2>1. \E n \in Nat : DOMAIN rs = 1 .. n
    BY <1>3, <1>6 DEF Proper
  <2>2. \E eco : \A i \in DOMAIN rs :
          rs[i].dep.eco = eco /\ (eco = "pypi" => Normalised(rs[i].dep.name) = rs[i].dep.name)
    <3>1. PICK eco : Proper(eco, deps)
      BY <1>3
    <3>2. \A i \in DOMAIN rs :
            rs[i].dep.eco = eco /\ (eco = "pypi" => Normalised(rs[i].dep.name) = rs[i].dep.name)
      BY <1>6, <3>1 DEF Proper
    <3> QED
      BY <3>2
  <2> QED
    BY <1>5, <2>1, <2>2 DEF IsResults
<1> QED
  BY <1>1, <1>7

\* What the snippet of `doctor` changes of a policy.
Snipped(q, p, snippet) ==
  /\ q.defaults = p.defaults /\ q.direct = p.direct
  /\ q.blockExoticSubdeps = p.blockExoticSubdeps /\ q.denyScripts = p.denyScripts
  /\ q.scriptAllow = p.scriptAllow \cup {[family |-> None, name |-> n] : n \in snippet.scripts}
  /\ q.nameSquatAllow = p.nameSquatAllow \cup {[family |-> None, name |-> n] : n \in snippet.squats}
  /\ q.severity = [c \in Codes |-> IF c \in snippet.severities THEN "warn" ELSE p.severity[c]]

LEMMA SnippetIs ==
  ASSUME NEW p, IsPolicy(p), NEW snippet
  PROVE  Snipped(WithSnippet(p, snippet), p, snippet)
PROOF BY DEF IsPolicy, WithSnippet, Snipped

LEMMA SnippetPolicy ==
  ASSUME NEW p, IsPolicy(p), NEW snippet
  PROVE  IsPolicy(WithSnippet(p, snippet))
PROOF
<1>1. PICK q : q = WithSnippet(p, snippet)
  OBVIOUS
<1>2. DOMAIN q = DOMAIN p /\ Snipped(q, p, snippet)
  BY <1>1, SnippetIs DEF WithSnippet
<1>3. q.severity \in [Codes -> Verdicts \cup {None}]
  <2>1. \A c \in Codes : p.severity[c] \in Verdicts \cup {None}
    BY DEF IsPolicy
  <2>2. "warn" \in Verdicts
    BY DEF Verdicts
  <2> QED
    BY <1>2, <2>1, <2>2 DEF Snipped
<1>4. /\ q.defaults = p.defaults /\ q.direct = p.direct
      /\ q.blockExoticSubdeps = p.blockExoticSubdeps /\ q.denyScripts = p.denyScripts
  BY <1>2 DEF Snipped
<1>5. \A c \in Controls : q.defaults[c] \in Values(c) /\ q.direct[c] \in Values(c) \cup {None}
  BY <1>4 DEF IsPolicy
<1>6. IsPolicy(q)
  BY <1>2, <1>3, <1>4, <1>5 DEF IsPolicy
<1> QED
  BY <1>1, <1>6

LEMMA InitInv == Init => IInv
PROOF BY ProjectAssumption DEF Init, IInv, OutIs

\* A command that says what it is to say keeps the invariant.
LEMMA SayInv ==
  ASSUME IInv, NEW o, Say(o),
         \/ o.exit = 2
         \/ \E limit \in Limits : o = CiSays(limit)
         \/ o = ExportSays
         \/ \E target \in Targets : o = ExplainSays(target)
         \/ lock # None /\ o = VerifySays
         \/ o = DoctorSays
         \/ \E candidate \in Policies, at \in Int : o = SimulateSays(candidate, at)
  PROVE  IInv'
PROOF
<1>1. UNCHANGED project /\ out' = o
  BY DEF Say
<1>2. OutIs'
  BY <1>1, SaysKept DEF OutIs
<1> QED
  BY <1>1, <1>2 DEF IInv, project

LEMMA LockInv == ASSUME IInv, Lock PROVE IInv'
PROOF
<1>1. IsResults(Current)
  BY ResultsProper DEF IInv, Current
<1>2. DOMAIN LockNow.decisions = DOMAIN Current
  BY DEF LockNow, BuildLock
<1>3. \E n \in Nat : DOMAIN lock'.decisions = 1 .. n
  BY <1>1, <1>2 DEF Lock, IsResults
<1> QED
  BY <1>3 DEF IInv, Lock, OutIs

LEMMA ChangeInv ==
  ASSUME IInv, out' = None,
         scenario' = scenario, tree' \in Trees[scenario], IsPolicy(policy'), lock' = lock
  PROVE  IInv'
PROOF BY DEF IInv, OutIs

LEMMA Inductive == IInv /\ [Next]_vars => IInv'
PROOF
<1> SUFFICES ASSUME IInv, [Next]_vars PROVE IInv'
  OBVIOUS
<1>1. ASSUME NEW cmd, Refuse(cmd) PROVE IInv'
  BY <1>1, SayInv DEF Refuse
<1>2. ASSUME NEW limit \in Limits, Ci(limit) PROVE IInv'
  BY <1>1, <1>2, SayInv DEF Ci
<1>3. CASE Export
  BY <1>1, <1>3, SayInv DEF Export
<1>4. ASSUME NEW target \in Targets, ExplainTarget(target) PROVE IInv'
  BY <1>1, <1>4, SayInv DEF ExplainTarget
<1>5. CASE Lock
  BY <1>5, LockInv
<1>6. CASE Verify
  BY <1>1, <1>6, SayInv DEF Verify
<1>7. CASE Doctor
  BY <1>1, <1>7, SayInv DEF Doctor
<1>8. ASSUME NEW p \in Policies, NEW at \in 0 .. MaxNow + 1, SimulateWith(p, at) PROVE IInv'
  <2>1. at \in Int
    BY ProjectAssumption
  <2> QED
    BY <1>1, <1>8, <2>1, SayInv DEF SimulateWith
<1>9. ASSUME NEW t \in Trees[scenario], Install(t) PROVE IInv'
  BY <1>9, ChangeInv DEF Install, Between, Change, IInv
<1>10. ASSUME NEW p \in Policies, EditPolicy(p) PROVE IInv'
  BY <1>10, ChangeInv, ProjectAssumption DEF EditPolicy, Between, Change, IInv
<1>11. ASSUME NEW n, TurnBad(n) PROVE IInv'
  BY <1>11, ChangeInv DEF TurnBad, Between, Change, IInv
<1>12. CASE Tick
  BY <1>12, ChangeInv DEF Tick, Between, Change, IInv
<1>13. CASE Adopt
  BY <1>13, ChangeInv, SnippetPolicy DEF Adopt, Change, IInv
<1>14. CASE TurnAway
  BY <1>14, ChangeInv DEF TurnAway, project, IInv
<1>15. CASE UNCHANGED vars
  <2>1. UNCHANGED project /\ out' = out
    BY <1>15 DEF vars, project
  <2> QED
    BY <2>1, SaysKept DEF IInv, OutIs, project
<1> QED
  BY <1>2, <1>3, <1>4, <1>5, <1>6, <1>7, <1>8, <1>9, <1>10, <1>11, <1>12, <1>13, <1>14, <1>15 DEF Next

LEMMA Invariance == Spec => []IInv
PROOF
<1>1. Init => IInv
  BY InitInv
<1>2. IInv /\ [Next]_vars => IInv'
  BY Inductive
<1> QED
  BY <1>1, <1>2, PTL DEF Spec
-----------------------------------------------------------------------------
\* What a command said is what it says of the project as it is.
LEMMA SaidIs ==
  ASSUME IInv
  PROVE  /\ Said("ci") => \E limit \in Limits : out = CiSays(limit)
         /\ Said("export") => out = ExportSays
         /\ Said("explain") => \E target \in Targets : out = ExplainSays(target)
         /\ Said("verify") => lock # None /\ out = VerifySays
         /\ Said("doctor") => out = DoctorSays
         /\ Said("simulate") => \E candidate \in Policies, at \in Int : out = SimulateSays(candidate, at)
PROOF
<1>1. /\ \A limit : CiSays(limit).cmd = "ci"
      /\ ExportSays.cmd = "export"
      /\ \A target : ExplainSays(target).cmd = "explain"
      /\ VerifySays.cmd = "verify"
      /\ DoctorSays.cmd = "doctor"
      /\ \A candidate, at : SimulateSays(candidate, at).cmd = "simulate"
  BY DEF CiSays, ExportSays, ExplainSays, VerifySays, DoctorSays, SimulateSays
<1> QED
  BY <1>1 DEF IInv, OutIs, Said

LEMMA CurrentIs == ASSUME IInv PROVE IsResults(Current)
PROOF BY ResultsProper DEF IInv, Current

\* How many results have a verdict.
LEMMA CountIs ==
  ASSUME NEW rs, IsResults(rs), NEW v
  PROVE  /\ Count(rs, v) = Cardinality({i \in DOMAIN rs : Verdict(rs[i]) = v})
         /\ Count(rs, v) \in Nat
         /\ Count(rs, v) > 0 <=> \E i \in DOMAIN rs : Verdict(rs[i]) = v
PROOF
<1> DEFINE I == {i \in DOMAIN rs : Verdict(rs[i]) = v}
<1>1. Count(rs, v) = Cardinality(I)
  BY DEF Count, Where
<1>2. PICK n \in Nat : DOMAIN rs = 1 .. n
  BY DEF IsResults
<1>3. IsFiniteSet(I)
  BY <1>2, FS_Interval, FS_Subset
<1>4. (\E i \in DOMAIN rs : Verdict(rs[i]) = v) <=> I # {}
  OBVIOUS
<1>5. Cardinality(I) \in Nat /\ (Cardinality(I) = 0 <=> I = {})
  BY <1>3, FS_CardinalityType, FS_EmptySet
<1> HIDE DEF I
<1>6. Cardinality(I) > 0 <=> I # {}
  BY <1>5
<1> QED
  BY <1>1, <1>4, <1>5, <1>6 DEF I

\* Without --max-warn the status is that of the blocked packages.
LEMMA ExitIs ==
  ASSUME NEW rs, IsResults(rs)
  PROVE  /\ ExitCode(rs, None) \in {0, 1}
         /\ ExitCode(rs, None) = 1 <=> \E i \in DOMAIN rs : Verdict(rs[i]) = "block"
PROOF
<1>1. ExitCode(rs, None) = IF Count(rs, "block") > 0 THEN 1 ELSE 0
  BY DEF ExitCode, Counts
<1>2. Count(rs, "block") > 0 <=> \E i \in DOMAIN rs : Verdict(rs[i]) = "block"
  BY CountIs
<1>3. CASE Count(rs, "block") > 0
  <2>1. ExitCode(rs, None) = 1
    BY <1>1, <1>3
  <2> QED
    BY <1>2, <1>3, <2>1
<1>4. CASE ~(Count(rs, "block") > 0)
  <2>1. ExitCode(rs, None) = 0
    BY <1>1, <1>4
  <2> QED
    BY <1>2, <1>4, <2>1
<1> QED
  BY <1>3, <1>4

\* The comparison has every package whose decision differs.
LEMMA SimulateIs ==
  ASSUME NEW rs, IsResults(rs), NEW after, NEW diff, diff = Simulate(rs, after)
  PROVE  /\ \E n \in Nat : DOMAIN diff = 1 .. n
         /\ \A i \in DOMAIN rs : rs[i].decision # after[i].decision =>
              \E k \in DOMAIN diff :
                /\ diff[k].dep = rs[i].dep
                /\ diff[k].before = rs[i].decision /\ diff[k].after = after[i].decision
PROOF
<1> DEFINE all == Changes(rs, after)
           I == {i \in DOMAIN all : all[i].before # all[i].after}
<1>1. diff = Selected(all, I)
  BY DEF Simulate, Where
<1>2. /\ DOMAIN all = DOMAIN rs
      /\ \A i \in DOMAIN rs : /\ all[i].dep = rs[i].dep
                              /\ all[i].before = rs[i].decision /\ all[i].after = after[i].decision
  BY DEF Changes
<1>3. PICK n \in Nat : DOMAIN rs = 1 .. n
  BY DEF IsResults
<1> HIDE DEF all
<1>4. I \in SUBSET Int /\ IsFiniteSet(I) /\ Cardinality(I) \in Nat
  BY <1>2, <1>3, PickedLength
<1>5. \A i \in DOMAIN rs : rs[i].decision # after[i].decision => i \in I
  BY <1>2
<1> HIDE DEF I
<1>6. PICK at \in Bijection(1 .. Cardinality(I), I) :
        Selected(all, I) = [k \in 1 .. Cardinality(I) |-> all[at[k]]]
  BY <1>4, SelectedIs
<1>7. ASSUME NEW i \in DOMAIN rs, rs[i].decision # after[i].decision
      PROVE  \E k \in DOMAIN diff : diff[k] = all[i]
  <2>1. PICK k \in 1 .. Cardinality(I) : at[k] = i
    BY <1>5, <1>6, <1>7 DEF Bijection, Surjection
  <2> QED
    BY <1>1, <1>6, <2>1
<1> QED
  BY <1>1, <1>2, <1>4, <1>6, <1>7

\* A total is positive if there is a change of its class.
LEMMA TotalsAre ==
  ASSUME NEW diff, NEW n \in Nat, DOMAIN diff = 1 .. n, NEW k \in DOMAIN diff,
         NEW c \in {"newly_allowed", "newly_blocked", "newly_warned", "reasons_changed"}
  PROVE  /\ SimulateTotals(diff)[c] \in Nat
         /\ ChangeClass(diff[k].before, diff[k].after) = c => SimulateTotals(diff)[c] > 0
PROOF
<1> DEFINE I == {i \in DOMAIN diff : ChangeClass(diff[i].before, diff[i].after) = c}
<1>1. SimulateTotals(diff)[c] = Cardinality(I)
  BY DEF SimulateTotals
<1>2. IsFiniteSet(I)
  BY FS_Interval, FS_Subset
<1>3. Cardinality(I) \in Nat /\ (Cardinality(I) = 0 <=> I = {})
  BY <1>2, FS_CardinalityType, FS_EmptySet
<1>4. ChangeClass(diff[k].before, diff[k].after) = c => k \in I
  OBVIOUS
<1> HIDE DEF I
<1> QED
  BY <1>1, <1>3, <1>4

LEMMA ChangeClassIs ==
  ASSUME NEW before, NEW after
  PROVE  /\ before.verdict # "block" /\ after.verdict = "block" => ChangeClass(before, after) = "newly_blocked"
         /\ before.verdict = "block" /\ after.verdict = "allow" => ChangeClass(before, after) = "newly_allowed"
         /\ before.verdict = "block" /\ after.verdict = "warn" => ChangeClass(before, after) = "newly_warned"
PROOF BY DEF ChangeClass

\* (SimulateForetells) What `simulate` does not list stays as it is under its
\* candidate, and a gate that closes or opens is announced, for all lockfiles,
\* policies and candidates (simulate, main.rs).
THEOREM SimulateForetold == Spec => []SimulateForetells
PROOF
<1>1. ASSUME IInv PROVE SimulateForetells
  <2> SUFFICES ASSUME Said("simulate")
      PROVE  LET before == Current
                 after == Results(out.candidate, out.at)
                 listed == {out.diff[i].dep : i \in DOMAIN out.diff}
                 Exit(rs) == ExitCode(rs, None)
             IN /\ \A i \in DOMAIN after :
                     after[i].dep \notin listed => after[i].decision = before[i].decision
                /\ Exit(before) = 0 /\ Exit(after) = 1 => out.totals.newly_blocked > 0
                /\ Exit(before) = 1 /\ Exit(after) = 0 =>
                     out.totals.newly_allowed + out.totals.newly_warned > 0
    BY DEF SimulateForetells
  <2>1. PICK candidate \in Policies, at \in Int : out = SimulateSays(candidate, at)
    BY <1>1, SaidIs
  <2>2. PICK before : before = Current
    OBVIOUS
  <2>3. PICK after : after = Results(candidate, at)
    OBVIOUS
  <2>4. PICK diff : diff = Simulate(before, after)
    OBVIOUS
  <2>5. PICK totals : totals = SimulateTotals(diff)
    OBVIOUS
  <2>6. out.candidate = candidate /\ out.at = at /\ out.diff = diff /\ out.totals = totals
    BY <2>1, <2>2, <2>3, <2>4, <2>5 DEF SimulateSays
  <2>7. IsResults(before) /\ IsResults(after)
    BY <1>1, <2>2, <2>3, CurrentIs, ResultsProper, ProjectAssumption DEF IInv
  <2>8. DOMAIN after = DOMAIN before /\ \A i \in DOMAIN before : after[i].dep = before[i].dep
    <3>1. PICK deps : deps = Parse(Document).deps
      OBVIOUS
    <3>2. Decided(before, deps, policy, now) /\ Decided(after, deps, candidate, at)
      BY <2>2, <2>3, <3>1, ResultsAre DEF Current
    <3> QED
      BY <3>2 DEF Decided
  <2>9. PICK n \in Nat : DOMAIN diff = 1 .. n
    BY <2>4, <2>7, SimulateIs
  <2>10. \A i \in DOMAIN before : before[i].decision # after[i].decision =>
           \E k \in DOMAIN diff :
             /\ diff[k].dep = before[i].dep
             /\ diff[k].before = before[i].decision /\ diff[k].after = after[i].decision
    BY <2>4, <2>7, SimulateIs
  <2>11. \A i \in DOMAIN after :
           after[i].dep \notin {diff[k].dep : k \in DOMAIN diff} => after[i].decision = before[i].decision
    BY <2>8, <2>10
  <2>12. ASSUME ExitCode(before, None) = 0, ExitCode(after, None) = 1
         PROVE  totals.newly_blocked > 0
    <3>1. PICK i \in DOMAIN after : Verdict(after[i]) = "block" /\ Verdict(before[i]) # "block"
      BY <2>7, <2>8, <2>12, ExitIs
    <3>2. PICK k \in DOMAIN diff : diff[k].before = before[i].decision /\ diff[k].after = after[i].decision
      BY <2>8, <2>10, <3>1 DEF Verdict
    <3>3. ChangeClass(diff[k].before, diff[k].after) = "newly_blocked"
      BY <3>1, <3>2, ChangeClassIs DEF Verdict
    <3> QED
      BY <2>5, <2>9, <3>3, TotalsAre
  <2>13. ASSUME ExitCode(before, None) = 1, ExitCode(after, None) = 0
         PROVE  totals.newly_allowed + totals.newly_warned > 0
    <3>1. PICK i \in DOMAIN after : Verdict(before[i]) = "block" /\ Verdict(after[i]) # "block"
      BY <2>7, <2>8, <2>13, ExitIs
    <3>2. Verdict(after[i]) \in {"allow", "warn"}
      BY <2>7, <3>1 DEF IsResults, Verdicts
    <3>3. PICK k \in DOMAIN diff : diff[k].before = before[i].decision /\ diff[k].after = after[i].decision
      BY <2>8, <2>10, <3>1 DEF Verdict
    <3>4. ChangeClass(diff[k].before, diff[k].after) \in {"newly_allowed", "newly_warned"}
      BY <3>1, <3>2, <3>3, ChangeClassIs DEF Verdict
    <3>5. /\ totals["newly_allowed"] \in Nat /\ totals["newly_warned"] \in Nat
          /\ totals["newly_allowed"] > 0 \/ totals["newly_warned"] > 0
      BY <2>5, <2>9, <3>4, TotalsAre
    <3> QED
      BY <3>5
  <2>14. Results(out.candidate, out.at) = after
    BY <2>3, <2>6
  <2> QED
    BY <2>2, <2>6, <2>11, <2>12, <2>13, <2>14
<1> QED
  BY <1>1, Invariance, PTL
-----------------------------------------------------------------------------
Remedied == {"dist-tag-anomaly", "signal-unavailable"}

\* What `doctor` suggests: every name blocked for its scripts or its name, and the
\* severities of the kinds of reason that count for a blocked package.
Suggests(snippet, rs) ==
  /\ \A i \in DOMAIN rs : Verdict(rs[i]) = "block" =>
       /\ "disallowed-lifecycle-script" \in rs[i].decision.reasons => rs[i].dep.name \in snippet.scripts
       /\ "name-squat" \in rs[i].decision.reasons => rs[i].dep.name \in snippet.squats
       /\ \A c \in Remedied : c \in rs[i].decision.reasons => c \in snippet.severities
  /\ \A c \in snippet.severities :
       c \in Remedied /\ \E i \in DOMAIN rs : c \in rs[i].decision.reasons

LEMMA SuggestionIs == ASSUME NEW rs PROVE Suggests(DoctorSuggestion(rs), rs)
PROOF
<1> DEFINE BlockedFor(code) == {i \in DOMAIN rs : Verdict(rs[i]) = "block" /\ code \in rs[i].decision.reasons}
<1>1. PICK s : s = DoctorSuggestion(rs)
  OBVIOUS
<1>2. s.severities = {c \in Remedied : BlockedFor(c) # {}}
  BY <1>1 DEF DoctorSuggestion, Where, Remedied
<1>3. /\ s.scripts = {rs[i].dep.name : i \in BlockedFor("disallowed-lifecycle-script")}
      /\ s.squats = {rs[i].dep.name : i \in BlockedFor("name-squat")}
  <2>1. \A code : {i \in {j \in DOMAIN rs : Verdict(rs[j]) = "block"} : code \in rs[i].decision.reasons} = BlockedFor(code)
    OBVIOUS
  <2> QED
    BY <1>1, <2>1 DEF DoctorSuggestion, Where
<1>4. \A code, i : i \in BlockedFor(code) <=>
        i \in DOMAIN rs /\ Verdict(rs[i]) = "block" /\ code \in rs[i].decision.reasons
  OBVIOUS
<1> HIDE DEF BlockedFor
<1>5. Suggests(s, rs)
  BY <1>2, <1>3, <1>4 DEF Suggests
<1> QED
  BY <1>1, <1>5

\* The snippet adds no finding, and takes away those about names it allows.
LEMMA SnippetFinds ==
  ASSUME NEW p, IsPolicy(p), NEW snippet, NEW q, Snipped(q, p, snippet),
         NEW dep, NEW sig, NEW at
  PROVE  /\ Found(q, dep, sig, at, FALSE) \subseteq Found(p, dep, sig, at, FALSE)
         /\ dep.name \in snippet.scripts => "disallowed-lifecycle-script" \notin Found(q, dep, sig, at, FALSE)
         /\ dep.name \in snippet.squats => "name-squat" \notin Found(q, dep, sig, at, FALSE)
PROOF
<1>1. /\ q.defaults = p.defaults /\ q.direct = p.direct
      /\ q.blockExoticSubdeps = p.blockExoticSubdeps /\ q.denyScripts = p.denyScripts
      /\ q.scriptAllow = p.scriptAllow \cup {[family |-> None, name |-> n] : n \in snippet.scripts}
      /\ q.nameSquatAllow = p.nameSquatAllow \cup {[family |-> None, name |-> n] : n \in snippet.squats}
  BY DEF Snipped
<1>2. \A c : Effective(q, dep, c) = Effective(p, dep, c)
  BY <1>1 DEF Effective
<1>3. ScriptAllowed(p, dep) => ScriptAllowed(q, dep)
  BY <1>1 DEF ScriptAllowed
<1>4. ScriptFinding(q, dep, FALSE) \subseteq ScriptFinding(p, dep, FALSE)
  BY <1>3 DEF ScriptFinding
<1>5. (\E m \in p.nameSquatAllow : Matches(m, dep)) => \E m \in q.nameSquatAllow : Matches(m, dep)
  BY <1>1
<1>6. Reasons(q, dep, sig, at, FALSE) \subseteq Reasons(p, dep, sig, at, FALSE)
  BY <1>1, <1>2, <1>4, <1>5 DEF Reasons
<1>7. \A n : dep.name = n => Matches([family |-> None, name |-> n], dep)
  BY DEF Matches
<1>8. ASSUME dep.name \in snippet.scripts
      PROVE  "disallowed-lifecycle-script" \notin Reasons(q, dep, sig, at, FALSE)
  <2>1. ScriptAllowed(q, dep)
    BY <1>1, <1>7, <1>8 DEF ScriptAllowed
  <2> QED
    BY <2>1 DEF Reasons, ScriptFinding
<1>9. ASSUME dep.name \in snippet.squats
      PROVE  "name-squat" \notin Reasons(q, dep, sig, at, FALSE)
  <2>1. \E m \in q.nameSquatAllow : Matches(m, dep)
    <3>1. [family |-> None, name |-> dep.name] \in q.nameSquatAllow
      BY <1>1, <1>9
    <3> QED
      BY <1>7, <3>1
  <2> QED
    BY <2>1 DEF Reasons, ScriptFinding
<1> QED
  BY <1>6, <1>8, <1>9 DEF Found

\* Of a package decided on with and without the snippet, what concerns it alone.
LEMMA SnippetSoftens ==
  ASSUME NEW p, IsPolicy(p), NEW snippet, NEW q, Snipped(q, p, snippet),
         NEW r \in Codes, r \in snippet.severities => r \in Remedied /\ SeverityOf(p, r) # "allow"
  PROVE  /\ Rank[SeverityOf(q, r)] <= Rank[SeverityOf(p, r)]
         /\ r \in snippet.severities => SeverityOf(q, r) = "warn"
         /\ r \notin snippet.severities => SeverityOf(q, r) = SeverityOf(p, r)
PROOF
<1>1. q.severity[r] = IF r \in snippet.severities THEN "warn" ELSE p.severity[r]
  BY DEF Snipped
<1>2. r \notin snippet.severities => SeverityOf(q, r) = SeverityOf(p, r)
  BY <1>1 DEF SeverityOf
<1>3. r \in snippet.severities => SeverityOf(q, r) = "warn"
  BY <1>1 DEF SeverityOf, Remedied
<1>4. SeverityOf(p, r) \in Verdicts
  BY SeverityType
<1>5. Rank[SeverityOf(q, r)] <= Rank[SeverityOf(p, r)]
  BY <1>2, <1>3, <1>4 DEF Verdicts, Rank
<1> QED
  BY <1>2, <1>3, <1>5

\* What the snippet does to a package: its decision b becomes a.
Helped(b, a) ==
  /\ Rank[a.verdict] <= Rank[b.verdict]
  /\ a.verdict = "block" => a.reasons \cap {"disallowed-lifecycle-script", "name-squat"} = {}
  /\ (\A r \in b.reasons :
        r \in {"disallowed-lifecycle-script", "name-squat", "dist-tag-anomaly", "signal-unavailable"})
       => a.verdict # "block"

\* The reasons of all packages count.
Counting(rs, p) ==
  \A j \in DOMAIN rs : \A r \in rs[j].decision.reasons : r \in Codes /\ SeverityOf(p, r) # "allow"

\* A package before and after the snippet: rs are the results, b its decision under
\* the policy p and a that under the policy q with the snippet.
LEMMA Unblocked ==
  ASSUME NEW rs, NEW i \in DOMAIN rs, NEW snippet, Suggests(snippet, rs),
         NEW p, IsPolicy(p), NEW q, IsPolicy(q), Snipped(q, p, snippet), Counting(rs, p),
         NEW dep, dep.name = rs[i].dep.name, NEW sig, NEW at,
         rs[i].decision = Evaluate(p, dep, sig, at, FALSE)
  PROVE  Helped(rs[i].decision, Evaluate(q, dep, sig, at, FALSE))
PROOF
<1>1. PICK here : here = Found(p, dep, sig, at, FALSE)
  OBVIOUS
<1>2. PICK there : there = Found(q, dep, sig, at, FALSE)
  OBVIOUS
<1>3. PICK b : b = rs[i].decision
  OBVIOUS
<1>4. PICK a : a = Evaluate(q, dep, sig, at, FALSE)
  OBVIOUS
<1>5. IsDecision(b, p, here) /\ IsDecision(a, q, there)
  BY <1>1, <1>2, <1>3, <1>4, EvaluateIs
<1>6. /\ there \subseteq here /\ here \subseteq Codes
      /\ dep.name \in snippet.scripts => "disallowed-lifecycle-script" \notin there
      /\ dep.name \in snippet.squats => "name-squat" \notin there
  BY <1>1, <1>2, SnippetFinds, FoundType
<1>7. \A c \in snippet.severities : c \in Remedied /\ SeverityOf(p, c) # "allow"
  BY DEF Suggests, Counting
<1>8. \A r \in Codes :
        /\ Rank[SeverityOf(q, r)] <= Rank[SeverityOf(p, r)]
        /\ r \in snippet.severities => SeverityOf(q, r) = "warn"
        /\ r \notin snippet.severities => SeverityOf(q, r) = SeverityOf(p, r)
  BY <1>7, SnippetSoftens
<1>9. Rank[a.verdict] <= Rank[b.verdict]
  <2>1. \A r \in there : r \in here /\ Rank[SeverityOf(q, r)] <= Rank[SeverityOf(p, r)]
    BY <1>6, <1>8
  <2>2. Rank[Evaluate(q, dep, sig, at, FALSE).verdict] <= Rank[Evaluate(p, dep, sig, at, FALSE).verdict]
    BY <1>1, <1>2, <2>1, GraverFindings
  <2> QED
    BY <1>3, <1>4, <2>2
<1>10. a.verdict = "block" => b.verdict = "block"
  BY <1>5, <1>9 DEF IsDecision, Verdicts, Rank
<1>11. b.verdict = "block" =>
        /\ "disallowed-lifecycle-script" \in b.reasons => dep.name \in snippet.scripts
        /\ "name-squat" \in b.reasons => dep.name \in snippet.squats
        /\ \A c \in Remedied : c \in b.reasons => c \in snippet.severities
  BY <1>3 DEF Suggests, Verdict
<1>12. ASSUME a.verdict = "block", NEW r \in a.reasons
       PROVE  r \in there /\ r \in b.reasons
  <2>1. r \in there /\ SeverityOf(q, r) # "allow"
    BY <1>5, <1>12 DEF IsDecision
  <2>2. r \in Codes /\ r \in here
    BY <1>6, <2>1
  <2>3. SeverityOf(p, r) # "allow"
    BY <1>7, <1>8, <2>1, <2>2
  <2> QED
    BY <1>5, <2>1, <2>2, <2>3 DEF IsDecision
<1>13. ASSUME a.verdict = "block"
       PROVE  a.reasons \cap {"disallowed-lifecycle-script", "name-squat"} = {}
  BY <1>6, <1>10, <1>11, <1>12, <1>13
<1>14. ASSUME \A r \in b.reasons :
                r \in {"disallowed-lifecycle-script", "name-squat", "dist-tag-anomaly", "signal-unavailable"},
              a.verdict = "block"
       PROVE  FALSE
  <2>1. PICK r \in there : SeverityOf(q, r) = "block"
    BY <1>5, <1>14 DEF IsDecision
  <2>2. r \in a.reasons
    BY <1>5, <2>1 DEF IsDecision
  <2>3. r \in b.reasons
    BY <1>12, <1>14, <2>2
  <2>4. r \in Remedied
    BY <1>13, <1>14, <2>2, <2>3 DEF Remedied
  <2>5. r \in snippet.severities /\ r \in Codes
    BY <1>6, <1>10, <1>11, <1>14, <2>1, <2>3, <2>4
  <2> QED
    BY <1>8, <2>1, <2>5
<1>15. Helped(b, a)
  BY <1>9, <1>13, <1>14 DEF Helped
<1> QED
  BY <1>3, <1>4, <1>15

\* (DoctorUnblocks) The snippet `doctor` prints, added to the policy, leaves no
\* package blocked for a reason doctor knows a remedy for and makes no decision
\* harsher, for all lockfiles, policies and registries (doctor, main.rs).
THEOREM DoctorHelps == Spec => []DoctorUnblocks
PROOF
<1>1. ASSUME IInv PROVE DoctorUnblocks
  <2> SUFFICES ASSUME Said("doctor")
      PROVE  LET before == Current
                 after == Results(WithSnippet(policy, out.snippet), now)
             IN \A i \in DOMAIN after :
                  /\ Rank[Verdict(after[i])] <= Rank[Verdict(before[i])]
                  /\ Verdict(after[i]) = "block" =>
                       after[i].decision.reasons \cap {"disallowed-lifecycle-script", "name-squat"} = {}
                  /\ (\A r \in before[i].decision.reasons :
                        r \in {"disallowed-lifecycle-script", "name-squat", "dist-tag-anomaly",
                               "signal-unavailable"}) => Verdict(after[i]) # "block"
    BY DEF DoctorUnblocks
  <2>1. PICK rs : rs = Current
    OBVIOUS
  <2>2. PICK snippet : snippet = DoctorSuggestion(rs)
    OBVIOUS
  <2>3. PICK p : p = policy
    OBVIOUS
  <2>4. PICK q : q = WithSnippet(p, snippet)
    OBVIOUS
  <2>5. PICK after : after = Results(q, now)
    OBVIOUS
  <2>6. out.snippet = snippet
    BY <1>1, <2>1, <2>2, SaidIs DEF DoctorSays
  <2>7. PICK deps : deps = Parse(Document).deps
    OBVIOUS
  <2>8. Decided(rs, deps, p, now) /\ Decided(after, deps, q, now)
    BY <2>1, <2>3, <2>5, <2>7, ResultsAre DEF Current
  <2>9. IsPolicy(p) /\ IsPolicy(q) /\ Snipped(q, p, snippet)
    BY <1>1, <2>3, <2>4, SnippetIs, SnippetPolicy DEF IInv
  <2>10. Suggests(snippet, rs)
    BY <2>2, SuggestionIs
  <2>11. ASSUME NEW j \in DOMAIN rs, NEW r \in rs[j].decision.reasons
         PROVE  r \in Codes /\ SeverityOf(p, r) # "allow"
    <3>1. PICK dep, sig : rs[j].decision = Evaluate(p, dep, sig, now, FALSE)
      BY <2>8 DEF Decided
    <3>2. IsDecision(rs[j].decision, p, Found(p, dep, sig, now, FALSE))
      BY <2>9, <3>1, EvaluateIs
    <3>3. r \in Found(p, dep, sig, now, FALSE) /\ SeverityOf(p, r) # "allow"
      BY <2>11, <3>2 DEF IsDecision
    <3> QED
      BY <3>3, FoundType
  <2>12. ASSUME NEW i \in DOMAIN after
         PROVE  Helped(rs[i].decision, after[i].decision)
    <3>1. PICK dep : dep = PolicyDep(deps[i])
      OBVIOUS
    <3>2. PICK sig : sig = SignalsOf(deps[i])
      OBVIOUS
    <3>3. /\ i \in DOMAIN rs /\ dep.name = rs[i].dep.name
          /\ rs[i].decision = Evaluate(p, dep, sig, now, FALSE)
          /\ after[i].decision = Evaluate(q, dep, sig, now, FALSE)
      BY <2>8, <3>1, <3>2 DEF Decided, PolicyDep
    <3>4. Counting(rs, p)
      BY <2>11 DEF Counting
    <3> QED
      BY <2>9, <2>10, <3>3, <3>4, Unblocked
  <2>13. Results(WithSnippet(policy, out.snippet), now) = after
    BY <2>3, <2>4, <2>5, <2>6
  <2> QED
    BY <2>1, <2>12, <2>13 DEF Helped, Verdict
<1> QED
  BY <1>1, Invariance, PTL
-----------------------------------------------------------------------------
\* Of a package with one decision at most, `verify` knows the verdict.
LEMMA ByKeyIs ==
  ASSUME NEW lk, NEW n \in Nat, DOMAIN lk.decisions = 1 .. n, NEW k, Cardinality(Keyed(lk, k)) < 2
  PROVE  /\ k \in DOMAIN ByKey(lk) => Ruled(lk, k) = {ByKey(lk)[k].decision}
         /\ k \notin DOMAIN ByKey(lk) => Ruled(lk, k) = {}
PROOF
<1>1. PICK ds : ds = lk.decisions
  OBVIOUS
<1>2. PICK I : I = Keyed(lk, k)
  OBVIOUS
<1>3. /\ I = {i \in DOMAIN ds : <<ds[i].name, ds[i].version>> = k}
      /\ Ruled(lk, k) = {ds[i].decision : i \in I}
  BY <1>1, <1>2 DEF Keyed, Ruled, KeyOf
<1>4. /\ DOMAIN ByKey(lk) = {<<ds[i].name, ds[i].version>> : i \in DOMAIN ds}
      /\ k \in DOMAIN ByKey(lk) =>
           ByKey(lk)[k] = ds[Max({i \in DOMAIN ds : <<ds[i].name, ds[i].version>> = k})]
  BY <1>1 DEF ByKey
<1>5. k \in DOMAIN ByKey(lk) <=> I # {}
  BY <1>3, <1>4
<1>6. CASE I = {}
  BY <1>3, <1>5, <1>6
<1>7. CASE I # {}
  <2>1. I \in SUBSET Int /\ IsFiniteSet(I)
    <3>1. I \in SUBSET (1 .. n) /\ IsFiniteSet(1 .. n)
      BY <1>1, <1>3, FS_Interval
    <3>2. IsFiniteSet(I)
      BY <3>1, FS_Subset
    <3>3. I \in SUBSET Int
      BY <3>1
    <3> QED
      BY <3>2, <3>3
  <2>2. Cardinality(I) \in Nat /\ Cardinality(I) # 0 /\ Cardinality(I) < 2
    BY <1>2, <1>7, <2>1, FS_CardinalityType, FS_EmptySet
  <2>3. Cardinality(I) = 1
    BY <2>2
  <2>4. PICK i : I = {i}
    BY <2>1, <2>3, FS_Singleton
  <2>5. Max(I) = i
    BY <2>1, <2>4 DEF Max
  <2>6. ByKey(lk)[k] = ds[i]
    BY <1>3, <1>4, <1>5, <1>7, <2>5
  <2>7. Ruled(lk, k) = {ds[i].decision}
    BY <1>3, <2>4
  <2> QED
    BY <1>5, <1>7, <2>6, <2>7
<1> QED
  BY <1>6, <1>7

LEMMA ImageMentions ==
  ASSUME NEW C, NEW f, \A x \in C : "key" \in DOMAIN f[x] /\ f[x].key = x, NEW k
  PROVE  Mentions({f[x] : x \in C}, k) <=> k \in C
PROOF BY DEF Mentions

\* The lines of `verify` that name a package.
LEMMA MentionsAre ==
  ASSUME NEW new, NEW prior, NEW k, NEW cur, cur = ByKey(new), NEW prev, prev = ByKey(prior)
  PROVE  Mentions(VerifyAgainst(new, prior), k) <=>
           /\ new # prior
           /\ \/ k \in DOMAIN cur \cap DOMAIN prev /\ cur[k].decision # prev[k].decision
              \/ k \in DOMAIN cur \ DOMAIN prev
              \/ k \in DOMAIN prev \ DOMAIN cur
PROOF
<1> DEFINE inputs == {[line |-> f] : f \in {x \in {"lockfileDigest", "policyDigest"} : new[x] # prior[x]}}
           changed == {[line |-> "changed", key |-> x, from |-> prev[x].decision, to |-> cur[x].decision] :
                         x \in {y \in DOMAIN cur \cap DOMAIN prev : cur[y].decision # prev[y].decision}}
           added == {[line |-> "added", key |-> x, to |-> cur[x].decision] : x \in DOMAIN cur \ DOMAIN prev}
           removed == {[line |-> "removed", key |-> x] : x \in DOMAIN prev \ DOMAIN cur}
           all == inputs \cup changed \cup added \cup removed
<1>1. VerifyAgainst(new, prior) =
        IF new = prior THEN {} ELSE IF all = {} THEN {[line |-> "digest mismatch"]} ELSE all
  BY DEF VerifyAgainst
<1>2. ~Mentions({}, k) /\ ~Mentions({[line |-> "digest mismatch"]}, k) /\ ~Mentions(inputs, k)
  BY DEF Mentions
<1>3. Mentions(changed, k) <=>
        k \in DOMAIN cur \cap DOMAIN prev /\ cur[k].decision # prev[k].decision
  <2> DEFINE C == {y \in DOMAIN cur \cap DOMAIN prev : cur[y].decision # prev[y].decision}
  <2>1. PICK f : f = [x \in C |-> [line |-> "changed", key |-> x, from |-> prev[x].decision, to |-> cur[x].decision]]
    OBVIOUS
  <2>2. (\A x \in C : "key" \in DOMAIN f[x] /\ f[x].key = x) /\ changed = {f[x] : x \in C}
    BY <2>1
  <2> HIDE DEF changed
  <2>3. Mentions(changed, k) <=> k \in C
    <3> HIDE DEF C
    <3> QED
      BY <2>2, ImageMentions
  <2> QED
    BY <2>3
<1>4. Mentions(added, k) <=> k \in DOMAIN cur \ DOMAIN prev
  <2> DEFINE C == DOMAIN cur \ DOMAIN prev
  <2>1. PICK f : f = [x \in C |-> [line |-> "added", key |-> x, to |-> cur[x].decision]]
    OBVIOUS
  <2>2. (\A x \in C : "key" \in DOMAIN f[x] /\ f[x].key = x) /\ added = {f[x] : x \in C}
    BY <2>1
  <2> HIDE DEF added, C
  <2>3. Mentions(added, k) <=> k \in C
    BY <2>2, ImageMentions
  <2> QED
    BY <2>3 DEF C
<1>5. Mentions(removed, k) <=> k \in DOMAIN prev \ DOMAIN cur
  <2> DEFINE C == DOMAIN prev \ DOMAIN cur
  <2>1. PICK f : f = [x \in C |-> [line |-> "removed", key |-> x]]
    OBVIOUS
  <2>2. (\A x \in C : "key" \in DOMAIN f[x] /\ f[x].key = x) /\ removed = {f[x] : x \in C}
    BY <2>1
  <2> HIDE DEF removed, C
  <2>3. Mentions(removed, k) <=> k \in C
    BY <2>2, ImageMentions
  <2> QED
    BY <2>3 DEF C
<1> HIDE DEF inputs, changed, added, removed
<1>6. Mentions(all, k) <=> Mentions(inputs, k) \/ Mentions(changed, k) \/ Mentions(added, k) \/ Mentions(removed, k)
  BY DEF Mentions
<1>7. all = {} => ~Mentions(all, k)
  BY DEF Mentions
<1> HIDE DEF all
<1> QED
  BY <1>1, <1>2, <1>3, <1>4, <1>5, <1>6, <1>7

\* No line means the locks are the same.
LEMMA QuietMeansSame ==
  ASSUME NEW new, NEW prior, VerifyAgainst(new, prior) = {}
  PROVE  new = prior
PROOF
<1>1. \A all : (IF new = prior THEN {} ELSE IF all = {} THEN {[line |-> "digest mismatch"]} ELSE all) = {}
        => new = prior
  OBVIOUS
<1> QED
  BY <1>1 DEF VerifyAgainst

\* (DriftTold) `verify` passes only what has the verdicts it had, and names exactly
\* the packages that came, went or are decided otherwise, for all lockfiles,
\* policies and registries (verify, main.rs; verify_against, lockfile.rs).
THEOREM DriftIsTold == Spec => []DriftTold
PROOF
<1>1. ASSUME IInv PROVE DriftTold
  <2> SUFFICES ASSUME Said("verify")
      PROVE  /\ out.exit = 0 => ExitCode(Current, None) = (IF lock.summary.block > 0 THEN 1 ELSE 0)
             /\ \A k : Cardinality(Keyed(LockNow, k)) < 2 /\ Cardinality(Keyed(lock, k)) < 2 =>
                  (Mentions(out.lines, k) = (Ruled(LockNow, k) # Ruled(lock, k)))
    BY DEF DriftTold
  <2>1. PICK new : new = LockNow
    OBVIOUS
  <2>2. PICK prior : prior = lock
    OBVIOUS
  <2>3. PICK lines : lines = VerifyAgainst(new, prior)
    OBVIOUS
  <2>4. /\ out.lines = lines
        /\ out.exit = IF lines = {} THEN 0 ELSE 1
    BY <1>1, <2>1, <2>2, <2>3, SaidIs DEF VerifySays
  <2>5. /\ \E n \in Nat : DOMAIN new.decisions = 1 .. n
        /\ \E n \in Nat : DOMAIN prior.decisions = 1 .. n
    <3>1. IsResults(Current) /\ lock # None
      BY <1>1, CurrentIs, SaidIs
    <3>2. DOMAIN new.decisions = DOMAIN Current
      BY <2>1 DEF LockNow, BuildLock
    <3> QED
      BY <1>1, <2>2, <3>1, <3>2 DEF IsResults, IInv
  <2>6. out.exit = 0 => ExitCode(Current, None) = (IF lock.summary.block > 0 THEN 1 ELSE 0)
    <3> SUFFICES ASSUME out.exit = 0
        PROVE  ExitCode(Current, None) = (IF lock.summary.block > 0 THEN 1 ELSE 0)
      OBVIOUS
    <3>1. lines = {}
      BY <2>4
    <3>2. lock = LockNow
      BY <2>1, <2>2, <2>3, <3>1, QuietMeansSame
    <3>3. LockNow.summary.block = Count(Current, "block")
      BY DEF LockNow, BuildLock, Counts
    <3>4. ExitCode(Current, None) = IF Count(Current, "block") > 0 THEN 1 ELSE 0
      BY DEF ExitCode, Counts
    <3> QED
      BY <3>2, <3>3, <3>4
  <2>7. ASSUME NEW k, Cardinality(Keyed(new, k)) < 2, Cardinality(Keyed(prior, k)) < 2
        PROVE  Mentions(lines, k) = (Ruled(new, k) # Ruled(prior, k))
    <3>1. PICK cur : cur = ByKey(new)
      OBVIOUS
    <3>2. PICK prev : prev = ByKey(prior)
      OBVIOUS
    <3>3. /\ k \in DOMAIN cur => Ruled(new, k) = {cur[k].decision}
          /\ k \notin DOMAIN cur => Ruled(new, k) = {}
      BY <2>5, <2>7, <3>1, ByKeyIs
    <3>4. /\ k \in DOMAIN prev => Ruled(prior, k) = {prev[k].decision}
          /\ k \notin DOMAIN prev => Ruled(prior, k) = {}
      BY <2>5, <2>7, <3>2, ByKeyIs
    <3>5. Mentions(lines, k) <=>
            /\ new # prior
            /\ \/ k \in DOMAIN cur \cap DOMAIN prev /\ cur[k].decision # prev[k].decision
               \/ k \in DOMAIN cur \ DOMAIN prev
               \/ k \in DOMAIN prev \ DOMAIN cur
      BY <2>3, <3>1, <3>2, MentionsAre
    <3>6. new = prior => Ruled(new, k) = Ruled(prior, k)
      OBVIOUS
    <3>7. Mentions(lines, k) <=> Ruled(new, k) # Ruled(prior, k)
      BY <3>3, <3>4, <3>5, <3>6
    <3>8. Mentions(lines, k) \in BOOLEAN
      BY DEF Mentions
    <3> QED
      BY <3>7, <3>8
  <2> QED
    BY <2>1, <2>2, <2>4, <2>6, <2>7
<1> QED
  BY <1>1, Invariance, PTL
-----------------------------------------------------------------------------
\* A selection and what it selects have as many members of a kind.
PlacesOf(m, at, J) == {k \in 1 .. m : at[k] \in J}

LEMMA SelectedCount ==
  ASSUME NEW m \in Nat, NEW I, NEW at \in Bijection(1 .. m, I), NEW J \in SUBSET I
  PROVE  /\ Cardinality(PlacesOf(m, at, J)) = Cardinality(J)
         /\ PlacesOf(m, at, J) # {} <=> J # {}
PROOF
<1> DEFINE K == PlacesOf(m, at, J)
           f == [k \in K |-> at[k]]
<1>1. IsFiniteSet(K)
  BY FS_Interval, FS_Subset DEF PlacesOf
<1>2. /\ \A k \in 1 .. m : at[k] \in I
      /\ \A k, l \in 1 .. m : at[k] = at[l] => k = l
      /\ \A x \in I : \E k \in 1 .. m : at[k] = x
  BY DEF Bijection, Injection, Surjection, IsInjective
<1>3. \A k \in K : f[k] = at[k] /\ at[k] \in J /\ k \in 1 .. m
  BY DEF PlacesOf
<1>4. \A x \in J : \E k \in K : at[k] = x
  BY <1>2 DEF PlacesOf
<1>5. f \in [K -> J]
  BY DEF PlacesOf
<1> HIDE DEF f, K
<1>6. f \in Bijection(K, J)
  BY <1>2, <1>3, <1>4, <1>5 DEF Bijection, Injection, Surjection, IsInjective
<1>7. Cardinality(K) = Cardinality(J)
  BY <1>1, <1>6, FS_Bijection DEF ExistsBijection
<1>8. K # {} <=> J # {}
  BY <1>3, <1>4
<1> QED
  BY <1>7, <1>8 DEF K

\* The flagged results: those that are not allowed.
Flagged(rs) == {i \in DOMAIN rs : Verdict(rs[i]) # "allow"}

\* The table of the report and the number of rows it leaves out make up the flagged.
LEMMA RowsIs ==
  ASSUME NEW flagged, NEW m \in Nat, DOMAIN flagged = 1 .. m, flagged \in Seq(Range(flagged)), NEW limit \in Nat
  PROVE  LET rows == SubSeq(flagged, 1, IF Len(flagged) > limit THEN limit ELSE Len(flagged))
         IN Len(rows) + (Len(flagged) - Len(rows)) = m
PROOF
<1>1. Len(flagged) = m
  OBVIOUS
<1> DEFINE c == IF Len(flagged) > limit THEN limit ELSE Len(flagged)
<1>2. c \in Int /\ c <= m
  BY <1>1
<1> HIDE DEF c
<1>3. \A i \in 1 .. c : flagged[i] \in Range(flagged)
  BY <1>2 DEF Range
<1>4. Len(SubSeq(flagged, 1, c)) \in Int
  BY <1>2, <1>3, SubSeqProperties
<1> QED
  BY <1>1, <1>4 DEF c

\* The annotations: one for each flagged result, with its level.
LEMMA AnnotationsAre ==
  ASSUME NEW rs, IsResults(rs), NEW notes, notes = Annotations(rs)
  PROVE  /\ Cardinality(Flagged(rs)) \in Nat
         /\ notes = [k \in 1 .. Cardinality(Flagged(rs)) |-> notes[k]]
         /\ Having(notes, "level", "error") # {} <=> \E i \in DOMAIN rs : Verdict(rs[i]) = "block"
         /\ Cardinality(Having(notes, "level", "warning")) = Count(rs, "warn")
PROOF
<1>1. PICK n \in Nat : DOMAIN rs = 1 .. n
  BY DEF IsResults
<1>2. PICK I : I = Flagged(rs)
  OBVIOUS
<1>3. /\ I \in SUBSET Int /\ IsFiniteSet(I) /\ Cardinality(I) \in Nat
      /\ \A i \in DOMAIN rs : i \in I <=> Verdict(rs[i]) # "allow"
      /\ I \subseteq DOMAIN rs
  <2>1. I \in SUBSET DOMAIN rs /\ \A i \in DOMAIN rs : i \in I <=> Verdict(rs[i]) # "allow"
    BY <1>2 DEF Flagged
  <2> QED
    BY <1>1, <2>1, PickedLength
<1>4. PICK m : m = Cardinality(I)
  OBVIOUS
<1>5. m \in Nat
  BY <1>3, <1>4
<1>6. PICK at \in Bijection(1 .. m, I) : Selected(rs, I) = [k \in 1 .. m |-> rs[at[k]]]
  BY <1>3, <1>4, SelectedIs
<1>7. notes = [k \in DOMAIN Selected(rs, I) |->
                 [level |-> IF Verdict(Selected(rs, I)[k]) = "warn" THEN "warning" ELSE "error",
                  name |-> Selected(rs, I)[k].dep.name, version |-> Selected(rs, I)[k].dep.version]]
  BY <1>2 DEF Annotations, Flagged, Where
<1>8. /\ DOMAIN notes = 1 .. m /\ notes = [k \in 1 .. m |-> notes[k]]
      /\ \A k \in 1 .. m : notes[k]["level"] = IF Verdict(rs[at[k]]) = "warn" THEN "warning" ELSE "error"
  <2>1. PICK flagged : flagged = Selected(rs, I)
    OBVIOUS
  <2>2. DOMAIN flagged = 1 .. m /\ \A k \in 1 .. m : flagged[k] = rs[at[k]]
    BY <1>6, <2>1
  <2> QED
    BY <1>7, <2>1, <2>2
<1>9. \A k \in 1 .. m : at[k] \in I /\ at[k] \in DOMAIN rs /\ Verdict(rs[at[k]]) \in {"warn", "block"}
  <2>1. \A k \in 1 .. m : at[k] \in I
    BY <1>6 DEF Bijection, Injection
  <2>2. \A i \in I : i \in DOMAIN rs /\ Verdict(rs[i]) \in {"warn", "block"}
    BY <1>3 DEF IsResults, Verdicts
  <2> QED
    BY <2>1, <2>2
<1> DEFINE Ruling(v) == {i \in DOMAIN rs : Verdict(rs[i]) = v}
<1>10. ASSUME NEW v \in {"warn", "block"}
       PROVE  /\ Cardinality(PlacesOf(m, at, Ruling(v))) = Cardinality(Ruling(v))
              /\ PlacesOf(m, at, Ruling(v)) # {} <=> Ruling(v) # {}
  <2>1. Ruling(v) \in SUBSET I
    BY <1>3
  <2> HIDE DEF Ruling
  <2> QED
    BY <1>5, <1>6, <2>1, SelectedCount
<1>11. /\ Having(notes, "level", "error") = PlacesOf(m, at, Ruling("block"))
       /\ Having(notes, "level", "warning") = PlacesOf(m, at, Ruling("warn"))
  <2>1. \A k \in 1 .. m : /\ notes[k]["level"] = "error" <=> at[k] \in Ruling("block")
                          /\ notes[k]["level"] = "warning" <=> at[k] \in Ruling("warn")
    BY <1>8, <1>9
  <2> HIDE DEF Ruling
  <2> QED
    BY <1>8, <2>1 DEF Having, PlacesOf
<1>12. Ruling("block") # {} <=> \E i \in DOMAIN rs : Verdict(rs[i]) = "block"
  OBVIOUS
<1>13. Count(rs, "warn") = Cardinality(Ruling("warn"))
  BY CountIs
<1> HIDE DEF Ruling
<1> QED
  BY <1>2, <1>4, <1>5, <1>8, <1>10, <1>11, <1>12, <1>13

\* The report: its headline is of the counts, its rows and those it leaves out are
\* the flagged.
LEMMA ReportIs ==
  ASSUME NEW rs, IsResults(rs), NEW report, report = Markdown(Summary(rs), MaxRows)
  PROVE  /\ report.headline = "BLOCKED" <=> Count(rs, "block") > 0
         /\ report.headline = "Clean" <=> ~(Count(rs, "block") > 0) /\ ~(Count(rs, "warn") > 0)
         /\ Len(report.rows) + report.more = Cardinality(Flagged(rs))
PROOF
<1>1. PICK doc : doc = Summary(rs)
  OBVIOUS
<1>2. /\ DOMAIN doc.decisions = DOMAIN rs
      /\ \A i \in DOMAIN rs : doc.decisions[i].decision = Verdict(rs[i])
      /\ doc.summary.block = Count(rs, "block") /\ doc.summary.warn = Count(rs, "warn")
  BY <1>1 DEF Summary, Counts
<1>3. PICK n \in Nat : DOMAIN rs = 1 .. n
  BY DEF IsResults
<1>4. Where(doc.decisions, LAMBDA d : d.decision # "allow") = Flagged(rs)
  BY <1>2 DEF Where, Flagged
<1>5. PICK I : I = Flagged(rs)
  OBVIOUS
<1>6. PICK flagged : flagged = Selected(doc.decisions, I)
  OBVIOUS
<1>7. I \in SUBSET Int /\ IsFiniteSet(I) /\ Cardinality(I) \in Nat
  <2>1. I \in SUBSET DOMAIN rs
    BY <1>5 DEF Flagged
  <2> QED
    BY <1>3, <2>1, PickedLength
<1>8. PICK m : m = Cardinality(I)
  OBVIOUS
<1>9. PICK at : flagged = [k \in 1 .. m |-> doc.decisions[at[k]]]
  <2>1. PICK ds : ds = doc.decisions
    OBVIOUS
  <2>2. PICK at \in Bijection(1 .. m, I) : Selected(ds, I) = [k \in 1 .. m |-> ds[at[k]]]
    BY <1>7, <1>8, SelectedIs
  <2>3. flagged = [k \in 1 .. m |-> doc.decisions[at[k]]]
    BY <1>6, <2>1, <2>2
  <2> QED
    BY <2>3
<1>10. m \in Nat /\ DOMAIN flagged = 1 .. m /\ flagged \in Seq(Range(flagged))
  BY <1>7, <1>8, <1>9 DEF Range
<1>11. report =
        LET rows == SubSeq(flagged, 1, IF Len(flagged) > MaxRows THEN MaxRows ELSE Len(flagged))
        IN [headline |-> CASE doc.summary.block > 0 -> "BLOCKED"
                           [] doc.summary.block = 0 /\ doc.summary.warn > 0 -> "Warnings"
                           [] OTHER -> "Clean",
            rows |-> rows, more |-> Len(flagged) - Len(rows)]
  BY <1>1, <1>4, <1>5, <1>6 DEF Markdown
<1>12. Len(report.rows) + report.more = m
  BY <1>10, <1>11, RowsIs, ProjectAssumption
<1>13. /\ Count(rs, "block") \in Nat /\ Count(rs, "warn") \in Nat
  BY CountIs
<1>14. report.headline = CASE Count(rs, "block") > 0 -> "BLOCKED"
                           [] Count(rs, "block") = 0 /\ Count(rs, "warn") > 0 -> "Warnings"
                           [] OTHER -> "Clean"
  BY <1>2, <1>11
<1>15. ASSUME NEW b \in Nat, NEW w \in Nat, NEW h,
              h = CASE b > 0 -> "BLOCKED" [] b = 0 /\ w > 0 -> "Warnings" [] OTHER -> "Clean"
       PROVE  (h = "BLOCKED" <=> b > 0) /\ (h = "Clean" <=> ~(b > 0) /\ ~(w > 0))
  BY <1>15
<1> QED
  BY <1>5, <1>8, <1>12, <1>13, <1>14, <1>15

LEMMA CiAgrees ==
  ASSUME NEW rs, IsResults(rs), NEW limit, NEW notes, notes = Annotations(rs),
         NEW report, report = Markdown(Summary(rs), MaxRows)
  PROVE  /\ ExitCode(rs, limit) = 1 <=>
              \/ Having(notes, "level", "error") # {}
              \/ limit # None /\ Cardinality(Having(notes, "level", "warning")) > limit
         /\ report.headline = "BLOCKED" <=> Having(notes, "level", "error") # {}
         /\ report.headline = "Clean" <=> notes = <<>>
         /\ Len(report.rows) + report.more = Len(notes)
PROOF
<1>1. PICK m : m = Cardinality(Flagged(rs))
  OBVIOUS
<1>2. PICK errors : errors = Having(notes, "level", "error")
  OBVIOUS
<1>3. PICK warnings : warnings = Having(notes, "level", "warning")
  OBVIOUS
<1>4. /\ m \in Nat /\ notes = [k \in 1 .. m |-> notes[k]]
      /\ errors # {} <=> \E i \in DOMAIN rs : Verdict(rs[i]) = "block"
      /\ Cardinality(warnings) = Count(rs, "warn")
  BY <1>1, <1>2, <1>3, AnnotationsAre
<1>5. /\ report.headline = "BLOCKED" <=> Count(rs, "block") > 0
      /\ report.headline = "Clean" <=> ~(Count(rs, "block") > 0) /\ ~(Count(rs, "warn") > 0)
      /\ Len(report.rows) + report.more = m
  BY <1>1, ReportIs
<1>6. \A v : Count(rs, v) > 0 <=> \E i \in DOMAIN rs : Verdict(rs[i]) = v
  BY CountIs
<1>7. errors # {} <=> Count(rs, "block") > 0
  BY <1>4, <1>6
<1>8. ExitCode(rs, limit) =
        IF Count(rs, "block") > 0 \/ (limit # None /\ Count(rs, "warn") > limit) THEN 1 ELSE 0
  BY DEF ExitCode, Counts
<1>9. ExitCode(rs, limit) = 1 <=> errors # {} \/ (limit # None /\ Cardinality(warnings) > limit)
  <2>1. CASE Count(rs, "block") > 0 \/ (limit # None /\ Count(rs, "warn") > limit)
    <3>1. ExitCode(rs, limit) = 1
      BY <1>8, <2>1
    <3> QED
      BY <1>4, <1>7, <2>1, <3>1
  <2>2. CASE ~(Count(rs, "block") > 0 \/ (limit # None /\ Count(rs, "warn") > limit))
    <3>1. ExitCode(rs, limit) = 0
      BY <1>8, <2>2
    <3> QED
      BY <1>4, <1>7, <2>2, <3>1
  <2> QED
    BY <2>1, <2>2
<1>10. notes = <<>> <=> m = 0
  <2>1. m = 0 => notes = <<>>
    <3>1. m = 0 => 1 .. m = {}
      OBVIOUS
    <3> QED
      BY <1>4, <3>1
  <2>2. notes = <<>> => m = 0
    BY <1>4
  <2> QED
    BY <2>1, <2>2
<1>11. m = 0 <=> Flagged(rs) = {}
  <2>1. PICK n \in Nat : DOMAIN rs = 1 .. n
    BY DEF IsResults
  <2>2. IsFiniteSet(Flagged(rs))
    BY <2>1, FS_Interval, FS_Subset DEF Flagged
  <2> QED
    BY <1>1, <2>2, FS_EmptySet
<1>12. Flagged(rs) = {} <=> \A i \in DOMAIN rs : Verdict(rs[i]) \notin {"warn", "block"}
  BY DEF Flagged, IsResults, Verdicts
<1>13. report.headline = "Clean" <=> notes = <<>>
  BY <1>5, <1>6, <1>10, <1>11, <1>12
<1>14. Len(notes) = m
  BY <1>4
<1> QED
  BY <1>2, <1>3, <1>5, <1>7, <1>9, <1>13, <1>14

-----------------------------------------------------------------------------
LEMMA LeastIs ==
  ASSUME NEW S \in SUBSET Nat, S # {}
  PROVE  Min(S) \in S /\ \A y \in S : Min(S) <= y
PROOF
<1>1. PICK x \in S : \A y \in S : ~ (<<y, x>> \in OpToRel(<, Nat))
  BY NatLessThanWellFounded, WFMin, Zenon
<1>2. \A y \in S : ~(y < x)
  BY <1>1 DEF OpToRel
<1>3. x \in S /\ \A y \in S : x <= y
  BY <1>2
<1> QED
  BY <1>3 DEF Min

\* The component of a package in the SBOM is that of a result.
LEMMA BomIs ==
  ASSUME NEW rs, IsResults(rs), NEW bom, bom = Bom(rs)
  PROVE  /\ DOMAIN bom.components = {Purl(rs[i].dep) : i \in DOMAIN rs}
         /\ \A p \in DOMAIN bom.components :
              \E i \in DOMAIN rs : /\ Purl(rs[i].dep) = p /\ bom.components[p] = Component(rs[i])
                                  /\ i = Min({j \in DOMAIN rs : Purl(rs[j].dep) = p})
         /\ bom.dependsOn = {Purl(rs[i].dep) : i \in {j \in DOMAIN rs : rs[j].dep.direct}}
PROOF
<1> DEFINE Of(p) == {j \in DOMAIN rs : Purl(rs[j].dep) = p}
           purls == {Purl(rs[i].dep) : i \in DOMAIN rs}
<1>1. bom.components = [p \in purls |-> Component(rs[Min(Of(p))])]
  BY DEF Bom, Where
<1>2. bom.dependsOn = {Purl(rs[i].dep) : i \in {j \in DOMAIN rs : rs[j].dep.direct}}
  BY DEF Bom, Where
<1>3. PICK n \in Nat : DOMAIN rs = 1 .. n
  BY DEF IsResults
<1>4. ASSUME NEW p \in purls PROVE Min(Of(p)) \in Of(p)
  <2>1. Of(p) \in SUBSET Nat /\ Of(p) # {}
    BY <1>3
  <2> HIDE DEF Of
  <2> QED
    BY <2>1, LeastIs
<1>5. \A p, i : i \in Of(p) => i \in DOMAIN rs /\ Purl(rs[i].dep) = p
  OBVIOUS
<1>6. DOMAIN bom.components = purls
  BY <1>1
<1>7. ASSUME NEW p \in purls
      PROVE  \E i \in DOMAIN rs : /\ Purl(rs[i].dep) = p /\ bom.components[p] = Component(rs[i])
                                 /\ i = Min(Of(p))
  <2> HIDE DEF Of, purls
  <2> QED
    BY <1>1, <1>4, <1>5
<1> QED
  BY <1>2, <1>6, <1>7

\* The statements of the VEX document: one for each reason of a flagged result.
LEMMA VexIs ==
  ASSUME NEW rs, NEW s
  PROVE  s \in Vex(rs) <=>
           \E i \in DOMAIN rs : \E c \in rs[i].decision.reasons :
             /\ Verdict(rs[i]) # "allow"
             /\ s = [code |-> c, product |-> Purl(rs[i].dep),
                     status |-> IF Verdict(rs[i]) = "block" THEN "affected" ELSE "under_investigation"]
PROOF
<1>1. \A i : s \in Statements(rs[i]) <=>
        \E c \in rs[i].decision.reasons :
          /\ Verdict(rs[i]) # "allow"
          /\ s = [code |-> c, product |-> Purl(rs[i].dep),
                  status |-> IF Verdict(rs[i]) = "block" THEN "affected" ELSE "under_investigation"]
  BY DEF Statements
<1> QED
  BY <1>1 DEF Vex

\* The SBOM and the VEX document of the same results.
LEMMA ExportAgrees ==
  ASSUME NEW rs, IsResults(rs), NEW bom, bom = Bom(rs), NEW vex, vex = Vex(rs)
  PROVE  /\ \A p \in DOMAIN bom.components :
              /\ bom.components[p].decision = "block" => \E s \in vex : s.product = p /\ s.status = "affected"
              /\ bom.components[p].decision = "warn" =>
                   \E s \in vex : s.product = p /\ s.status = "under_investigation"
              /\ bom.components[p].decision = "allow" =>
                   \A s \in vex : s.product = p =>
                     \E k, l \in DOMAIN rs : k # l /\ Purl(rs[k].dep) = p /\ Purl(rs[l].dep) = p
         /\ (\E s \in vex : s.status = "affected") <=> ExitCode(rs, None) = 1
PROOF
<1>1. ASSUME NEW i \in DOMAIN rs, Verdict(rs[i]) # "allow"
      PROVE  \E s \in vex :
               /\ s.product = Purl(rs[i].dep)
               /\ s.status = IF Verdict(rs[i]) = "block" THEN "affected" ELSE "under_investigation"
  <2>1. PICK c \in rs[i].decision.reasons : TRUE
    BY <1>1 DEF IsResults
  <2>2. PICK s : s = [code |-> c, product |-> Purl(rs[i].dep),
                      status |-> IF Verdict(rs[i]) = "block" THEN "affected" ELSE "under_investigation"]
    OBVIOUS
  <2>3. s \in vex
    BY <1>1, <2>1, <2>2, VexIs
  <2> QED
    BY <2>2, <2>3
<1>2. ASSUME NEW s \in vex
      PROVE  \E i \in DOMAIN rs :
               /\ Verdict(rs[i]) # "allow" /\ s.product = Purl(rs[i].dep)
               /\ s.status = "affected" <=> Verdict(rs[i]) = "block"
  <2>1. PICK i \in DOMAIN rs : \E c \in rs[i].decision.reasons :
          /\ Verdict(rs[i]) # "allow"
          /\ s = [code |-> c, product |-> Purl(rs[i].dep),
                  status |-> IF Verdict(rs[i]) = "block" THEN "affected" ELSE "under_investigation"]
    BY <1>2, VexIs
  <2> QED
    BY <2>1
<1>3. ASSUME NEW p \in DOMAIN bom.components
      PROVE  \E i \in DOMAIN rs : Purl(rs[i].dep) = p /\ bom.components[p].decision = Verdict(rs[i])
  <2>1. PICK i \in DOMAIN rs : /\ Purl(rs[i].dep) = p /\ bom.components[p] = Component(rs[i])
                              /\ i = Min({j \in DOMAIN rs : Purl(rs[j].dep) = p})
    BY BomIs
  <2>2. Component(rs[i]).decision = Verdict(rs[i])
    BY DEF Component
  <2> QED
    BY <2>1, <2>2
<1>4. ASSUME NEW p \in DOMAIN bom.components, bom.components[p].decision = "block"
      PROVE  \E s \in vex : s.product = p /\ s.status = "affected"
  <2>1. PICK i \in DOMAIN rs : Purl(rs[i].dep) = p /\ Verdict(rs[i]) = "block"
    BY <1>3, <1>4
  <2> QED
    BY <1>1, <2>1
<1>5. ASSUME NEW p \in DOMAIN bom.components, bom.components[p].decision = "warn"
      PROVE  \E s \in vex : s.product = p /\ s.status = "under_investigation"
  <2>1. PICK i \in DOMAIN rs : Purl(rs[i].dep) = p /\ Verdict(rs[i]) = "warn"
    BY <1>3, <1>5
  <2> QED
    BY <1>1, <2>1
<1>6. ASSUME NEW p \in DOMAIN bom.components, bom.components[p].decision = "allow",
             NEW s \in vex, s.product = p
      PROVE  \E k, l \in DOMAIN rs : k # l /\ Purl(rs[k].dep) = p /\ Purl(rs[l].dep) = p
  <2>1. PICK k \in DOMAIN rs : Purl(rs[k].dep) = p /\ Verdict(rs[k]) = "allow"
    BY <1>3, <1>6
  <2>2. PICK l \in DOMAIN rs : Purl(rs[l].dep) = p /\ Verdict(rs[l]) # "allow"
    BY <1>2, <1>6
  <2> QED
    BY <2>1, <2>2
<1>7. (\E s \in vex : s.status = "affected") <=> \E i \in DOMAIN rs : Verdict(rs[i]) = "block"
  <2>1. ASSUME NEW s \in vex, s.status = "affected" PROVE \E i \in DOMAIN rs : Verdict(rs[i]) = "block"
    BY <1>2, <2>1
  <2>2. ASSUME NEW i \in DOMAIN rs, Verdict(rs[i]) = "block" PROVE \E s \in vex : s.status = "affected"
    BY <1>1, <2>2
  <2> QED
    BY <2>1, <2>2
<1>8. (\E s \in vex : s.status = "affected") <=> ExitCode(rs, None) = 1
  BY <1>7, ExitIs
<1> QED
  BY <1>4, <1>5, <1>6, <1>8

\* Within one ecosystem the purl is the name and the version.
LEMMA PurlIs ==
  ASSUME NEW rs, IsResults(rs), NEW i \in DOMAIN rs, NEW j \in DOMAIN rs
  PROVE  Purl(rs[i].dep) = Purl(rs[j].dep) <=>
           rs[i].dep.name = rs[j].dep.name /\ rs[i].dep.version = rs[j].dep.version
PROOF
<1>1. PICK eco : \A k \in DOMAIN rs :
        rs[k].dep.eco = eco /\ (eco = "pypi" => Normalised(rs[k].dep.name) = rs[k].dep.name)
  BY DEF IsResults
<1>2. PICK d : d = rs[i].dep
  OBVIOUS
<1>3. PICK e : e = rs[j].dep
  OBVIOUS
<1>4. /\ d.eco = eco /\ (eco = "pypi" => Normalised(d.name) = d.name)
      /\ e.eco = eco /\ (eco = "pypi" => Normalised(e.name) = e.name)
  BY <1>1, <1>2, <1>3
<1>5. /\ Purl(d) = [type |-> FamilyOf(eco), version |-> d.version, name |-> d.name]
      /\ Purl(e) = [type |-> FamilyOf(eco), version |-> e.version, name |-> e.name]
  BY <1>4 DEF Purl
<1>6. Purl(d) = Purl(e) <=> d.name = e.name /\ d.version = e.version
  BY <1>5
<1> QED
  BY <1>2, <1>3, <1>6

\* `explain` shows the result the SBOM has the component of.
LEMMA ExplainAgrees ==
  ASSUME NEW rs, IsResults(rs), NEW name, NEW version, NEW shown, shown = Explain(rs, name, version),
         shown # None
  PROVE  Bom(rs).components[Purl(shown.dep)] = Component(shown)
PROOF
<1> DEFINE found == {i \in DOMAIN rs : rs[i].dep.name = name /\ rs[i].dep.version = version}
<1>1. found # {} /\ shown = rs[Min(found)]
  BY DEF Explain, Where
<1>2. PICK n \in Nat : DOMAIN rs = 1 .. n
  BY DEF IsResults
<1>3. PICK m : m = Min(found)
  OBVIOUS
<1>4. m \in found
  <2>1. found \in SUBSET Nat
    BY <1>2
  <2> HIDE DEF found
  <2> QED
    BY <1>1, <1>3, <2>1, LeastIs
<1>5. PICK p : p = Purl(rs[m].dep)
  OBVIOUS
<1>6. {j \in DOMAIN rs : Purl(rs[j].dep) = p} = found
  <2>1. \A j \in DOMAIN rs : Purl(rs[j].dep) = p <=>
          rs[j].dep.name = rs[m].dep.name /\ rs[j].dep.version = rs[m].dep.version
    BY <1>4, <1>5, PurlIs
  <2> QED
    BY <1>4, <2>1
<1>7. PICK bom : bom = Bom(rs)
  OBVIOUS
<1>8. p \in DOMAIN bom.components
  BY <1>4, <1>5, <1>7, BomIs
<1>9. PICK i \in DOMAIN rs : bom.components[p] = Component(rs[i]) /\ i = Min({j \in DOMAIN rs : Purl(rs[j].dep) = p})
  BY <1>7, <1>8, BomIs
<1>10. i = m
  BY <1>3, <1>6, <1>9
<1> QED
  BY <1>1, <1>3, <1>5, <1>7, <1>9, <1>10

\* (OutputsAgree) The exit status, the annotations, the report, the SBOM, the VEX
\* document and `explain` agree on every evaluation, for all lockfiles, policies and
\* registries (ci, report, sbom, vex, explain, main.rs; sbom.rs; vex.rs).
THEOREM OutputsDoAgree == Spec => []OutputsAgree
PROOF
<1>1. ASSUME IInv, Said("ci")
      PROVE  LET errors == Having(out.annotations, "level", "error")
                 warnings == Having(out.annotations, "level", "warning")
             IN /\ (out.exit = 1) = (errors # {} \/ (out.limit # None /\ Cardinality(warnings) > out.limit))
                /\ (out.report.headline = "BLOCKED") = (errors # {})
                /\ (out.report.headline = "Clean") = (out.annotations = <<>>)
                /\ Len(out.report.rows) + out.report.more = Len(out.annotations)
  <2>1. PICK rs : rs = Current
    OBVIOUS
  <2>2. PICK notes : notes = Annotations(rs)
    OBVIOUS
  <2>3. PICK report : report = Markdown(Summary(rs), MaxRows)
    OBVIOUS
  <2>4. PICK limit : out = CiSays(limit)
    BY <1>1, SaidIs
  <2>5. out.exit = ExitCode(rs, limit) /\ out.limit = limit /\ out.annotations = notes /\ out.report = report
    BY <2>1, <2>2, <2>3, <2>4 DEF CiSays
  <2>6. IsResults(rs)
    BY <1>1, <2>1, CurrentIs
  <2>7. /\ ExitCode(rs, limit) = 1 <=>
             \/ Having(notes, "level", "error") # {}
             \/ limit # None /\ Cardinality(Having(notes, "level", "warning")) > limit
        /\ report.headline = "BLOCKED" <=> Having(notes, "level", "error") # {}
        /\ report.headline = "Clean" <=> notes = <<>>
        /\ Len(report.rows) + report.more = Len(notes)
    BY <2>2, <2>3, <2>6, CiAgrees
  <2> QED
    BY <2>5, <2>7
<1>2. ASSUME IInv, Said("export")
      PROVE  LET rs == Current
                 products(status) == {s.product : s \in {x \in out.vex : x.status = status}}
                 all == DOMAIN out.bom.components
                 As(verdict) == {p \in all : out.bom.components[p].decision = verdict}
             IN /\ all = {Purl(d) : d \in Deps}
                /\ out.bom.dependsOn = {Purl(d) : d \in {x \in Deps : x.direct}}
                /\ As("block") \subseteq products("affected")
                /\ As("warn") \subseteq products("under_investigation")
                /\ (products("affected") # {}) = (ExitCode(rs, None) = 1)
                /\ \A p \in As("allow") \cap {s.product : s \in out.vex} :
                     \E i, j \in DOMAIN rs : i # j /\ Purl(rs[i].dep) = p /\ Purl(rs[j].dep) = p
  <2>1. PICK rs : rs = Current
    OBVIOUS
  <2>2. PICK bom : bom = Bom(rs)
    OBVIOUS
  <2>3. PICK vex : vex = Vex(rs)
    OBVIOUS
  <2>4. out.bom = bom /\ out.vex = vex
    BY <1>2, <2>1, <2>2, <2>3, SaidIs DEF ExportSays
  <2>5. IsResults(rs)
    BY <1>2, <2>1, CurrentIs
  <2>6. PICK deps : deps = Parse(Document).deps
    OBVIOUS
  <2>7. /\ Deps = {deps[i] : i \in DOMAIN deps}
        /\ DOMAIN rs = DOMAIN deps /\ \A i \in DOMAIN deps : rs[i].dep = deps[i]
    BY <2>1, <2>6, ResultsAre DEF Deps, Range, Decided, Current
  <2>8. DOMAIN bom.components = {Purl(d) : d \in Deps}
    <3>1. DOMAIN bom.components = {Purl(rs[i].dep) : i \in DOMAIN rs}
      BY <2>2, <2>5, BomIs
    <3> QED
      BY <2>7, <3>1
  <2>9. bom.dependsOn = {Purl(d) : d \in {x \in Deps : x.direct}}
    <3>1. bom.dependsOn = {Purl(rs[i].dep) : i \in {j \in DOMAIN rs : rs[j].dep.direct}}
      BY <2>2, <2>5, BomIs
    <3> QED
      BY <2>7, <3>1
  <2>10. /\ \A p \in DOMAIN bom.components :
              /\ bom.components[p].decision = "block" => \E s \in vex : s.product = p /\ s.status = "affected"
              /\ bom.components[p].decision = "warn" =>
                   \E s \in vex : s.product = p /\ s.status = "under_investigation"
              /\ bom.components[p].decision = "allow" =>
                   \A s \in vex : s.product = p =>
                     \E k, l \in DOMAIN rs : k # l /\ Purl(rs[k].dep) = p /\ Purl(rs[l].dep) = p
         /\ (\E s \in vex : s.status = "affected") <=> ExitCode(rs, None) = 1
    BY <2>2, <2>3, <2>5, ExportAgrees
  <2> DEFINE products(status) == {s.product : s \in {x \in vex : x.status = status}}
             As(verdict) == {p \in DOMAIN bom.components : bom.components[p].decision = verdict}
  <2>11. As("block") \subseteq products("affected") /\ As("warn") \subseteq products("under_investigation")
    BY <2>10
  <2>12. (products("affected") # {}) = (ExitCode(rs, None) = 1)
    <3>1. products("affected") # {} <=> \E s \in vex : s.status = "affected"
      OBVIOUS
    <3> QED
      BY <2>10, <3>1
  <2>13. \A p \in As("allow") \cap {s.product : s \in vex} :
           \E i, j \in DOMAIN rs : i # j /\ Purl(rs[i].dep) = p /\ Purl(rs[j].dep) = p
    BY <2>10
  <2> QED
    BY <2>1, <2>4, <2>8, <2>9, <2>11, <2>12, <2>13
<1>3. ASSUME IInv, Said("explain")
      PROVE  Bom(Current).components[Purl(out.shown.dep)] = Component(out.shown)
  <2>1. PICK rs : rs = Current
    OBVIOUS
  <2>2. PICK target : out = ExplainSays(target)
    BY <1>3, SaidIs
  <2>3. PICK shown : shown = Explain(rs, target.name, target.version)
    OBVIOUS
  <2>4. out.shown = shown /\ out.exit = IF shown = None THEN 2 ELSE 0
    BY <2>1, <2>2, <2>3 DEF ExplainSays
  <2>5. shown # None
    BY <1>3, <2>4 DEF Said
  <2>6. IsResults(rs)
    BY <1>3, <2>1, CurrentIs
  <2> QED
    BY <2>1, <2>3, <2>4, <2>5, <2>6, ExplainAgrees
<1>4. IInv => OutputsAgree
  BY <1>1, <1>2, <1>3 DEF OutputsAgree
<1> QED
  BY <1>4, Invariance, PTL

-----------------------------------------------------------------------------
(***************************************************************************)
(* What is asked about is what is installed: reading undoes writing, for   *)
(* any number of entries in any order.                                     *)
(***************************************************************************)
\* The dependencies are of the entries at the positions I, each once.
IsReading(deps, entries, I, of) ==
  \E from \in Bijection(DOMAIN deps, I) : \A k \in DOMAIN deps : deps[k] = of[entries[from[k]]]

LEMMA BijectionsCompose ==
  ASSUME NEW A, NEW B, NEW C, NEW f \in Bijection(A, B), NEW g \in Bijection(B, C)
  PROVE  [a \in A |-> g[f[a]]] \in Bijection(A, C)
PROOF
<1> DEFINE h == [a \in A |-> g[f[a]]]
<1>1. /\ f \in [A -> B] /\ g \in [B -> C]
      /\ \A x, y \in A : f[x] = f[y] => x = y
      /\ \A x, y \in B : g[x] = g[y] => x = y
      /\ \A y \in B : \E x \in A : f[x] = y
      /\ \A y \in C : \E x \in B : g[x] = y
  BY DEF Bijection, Injection, Surjection, IsInjective
<1>2. h \in [A -> C] /\ \A x \in A : h[x] = g[f[x]]
  BY <1>1
<1> HIDE DEF h
<1>3. ASSUME NEW x \in A, NEW y \in A, h[x] = h[y] PROVE x = y
  <2>1. f[x] \in B /\ f[y] \in B /\ g[f[x]] = g[f[y]]
    BY <1>1, <1>2, <1>3
  <2> QED
    BY <1>1, <2>1
<1>4. ASSUME NEW z \in C PROVE \E x \in A : h[x] = z
  <2>1. PICK y \in B : g[y] = z
    BY <1>1
  <2>2. PICK x \in A : f[x] = y
    BY <1>1
  <2> QED
    BY <1>2, <2>1, <2>2
<1> QED
  BY <1>2, <1>3, <1>4 DEF h, Bijection, Injection, Surjection, IsInjective

\* Sorting what was selected loses nothing, nor does it make anything up.
LEMMA SelectedReading ==
  ASSUME NEW entries, NEW n \in Nat, DOMAIN entries = 1 .. n, NEW I \in SUBSET DOMAIN entries, NEW of
  PROVE  LET kept == Selected(entries, I)
         IN IsReading(Sorted([k \in DOMAIN kept |-> of[kept[k]]]), entries, I, of)
PROOF
<1> DEFINE kept == Selected(entries, I)
           deps == [k \in DOMAIN kept |-> of[kept[k]]]
<1>1. I \in SUBSET Int /\ IsFiniteSet(I)
  BY PickedLength
<1>2. PICK m \in Nat : m = Cardinality(I)
  BY <1>1, SelectedIs
<1>3. PICK at \in Bijection(1 .. m, I) : kept = [k \in 1 .. m |-> entries[at[k]]]
  BY <1>1, <1>2, SelectedIs
<1>4. deps = [k \in 1 .. m |-> of[entries[at[k]]]]
  BY <1>3
<1> HIDE DEF kept, deps
<1>5. DOMAIN deps = 1 .. m /\ \A k \in 1 .. m : deps[k] = of[entries[at[k]]]
  BY <1>4
<1>6. PICK from \in Bijection(1 .. m, 1 .. m) : Sorted(deps) = [k \in 1 .. m |-> deps[from[k]]]
  BY <1>5, SortedRearranges
<1> DEFINE b == [k \in 1 .. m |-> at[from[k]]]
<1>7. b \in Bijection(1 .. m, I)
  BY BijectionsCompose
<1>8. \A k \in 1 .. m : b[k] = at[from[k]] /\ from[k] \in 1 .. m
  BY DEF Bijection, Injection
<1> HIDE DEF b
<1>9. DOMAIN Sorted(deps) = 1 .. m /\ \A k \in 1 .. m : Sorted(deps)[k] = of[entries[b[k]]]
  BY <1>5, <1>6, <1>8
<1>10. IsReading(Sorted(deps), entries, I, of)
  BY <1>7, <1>9 DEF IsReading
<1> QED
  BY <1>10 DEF deps, kept

LEMMA WholeReading ==
  ASSUME NEW entries, NEW n \in Nat, DOMAIN entries = 1 .. n, NEW of
  PROVE  IsReading(Sorted([k \in DOMAIN entries |-> of[entries[k]]]), entries, DOMAIN entries, of)
PROOF
<1> DEFINE deps == [k \in DOMAIN entries |-> of[entries[k]]]
<1>1. DOMAIN deps = 1 .. n /\ \A k \in 1 .. n : deps[k] = of[entries[k]]
  OBVIOUS
<1> HIDE DEF deps
<1>2. PICK from \in Bijection(1 .. n, 1 .. n) : Sorted(deps) = [k \in 1 .. n |-> deps[from[k]]]
  BY <1>1, SortedRearranges
<1>3. \A k \in 1 .. n : from[k] \in 1 .. n
  BY DEF Bijection, Injection
<1>4. DOMAIN Sorted(deps) = 1 .. n /\ \A k \in 1 .. n : Sorted(deps)[k] = of[entries[from[k]]]
  BY <1>1, <1>2, <1>3
<1>5. IsReading(Sorted(deps), entries, DOMAIN entries, of)
  BY <1>4 DEF IsReading
<1> QED
  BY <1>5 DEF deps

\* The formats whose lockfiles tell what the manifest names.
Telling == {"pnpm", "yarn", "uv", "poetry"}

\* A dependency is what is installed for its entry.
Faithful(doc, d, e) ==
  /\ e.real # Absent
  /\ Overlooked(doc, e) => Class(d) = "workspace" /\ ~d.direct
  /\ ~Overlooked(doc, e) =>
       /\ Class(d) = e.real.from
       /\ e.real.from = "registry" => Coordinates(d) = Coordinates(e.real)
       /\ RootFirst(doc) /\ e.real.declared = "plainly" =>
            d.direct /\ Coordinates(d) = Coordinates(e.real)
       /\ RootFirst(doc) /\ doc.format \in Telling /\ d.direct => e.real.declared = "plainly"

\* And whatever is installed and not overlooked is among them.
AllFaithful(doc, deps) ==
  \E I \in SUBSET DOMAIN doc.entries : \E from \in Bijection(DOMAIN deps, I) :
    /\ \A k \in DOMAIN deps : Faithful(doc, deps[k], doc.entries[from[k]])
    /\ \A i \in DOMAIN doc.entries :
         doc.entries[i].real # Absent /\ ~Overlooked(doc, doc.entries[i]) => i \in I

LEMMA FaithfulReading ==
  ASSUME NEW doc, NEW I \in SUBSET DOMAIN doc.entries, NEW of, NEW deps,
         IsReading(deps, doc.entries, I, of),
         \A i \in I : Faithful(doc, of[doc.entries[i]], doc.entries[i]),
         \A i \in DOMAIN doc.entries :
           doc.entries[i].real # Absent /\ ~Overlooked(doc, doc.entries[i]) => i \in I
  PROVE  AllFaithful(doc, deps)
PROOF
<1>1. PICK from \in Bijection(DOMAIN deps, I) :
        \A k \in DOMAIN deps : deps[k] = of[doc.entries[from[k]]]
  BY DEF IsReading
<1>2. \A k \in DOMAIN deps : from[k] \in I
  BY DEF Bijection, Injection
<1>3. \A k \in DOMAIN deps : Faithful(doc, deps[k], doc.entries[from[k]])
  BY <1>1, <1>2
<1> QED
  BY <1>3 DEF AllFaithful

\* The dependencies an adapter makes, entry by entry, of those that it lists.
Made(deps, kept, entries, of) ==
  /\ deps = [k \in DOMAIN kept |-> deps[k]]
  /\ \A k \in DOMAIN kept : (\E i \in DOMAIN entries : kept[k] = entries[i]) => deps[k] = of[kept[k]]

ListsFaithfully(doc, I, of) ==
  /\ \A i \in I : Faithful(doc, of[doc.entries[i]], doc.entries[i])
  /\ \A i \in DOMAIN doc.entries :
       doc.entries[i].real # Absent /\ ~Overlooked(doc, doc.entries[i]) => i \in I

LEMMA ListedFaithful ==
  ASSUME NEW doc, NEW n \in Nat, DOMAIN doc.entries = 1 .. n, NEW I \in SUBSET DOMAIN doc.entries,
         NEW of, ListsFaithfully(doc, I, of),
         NEW deps, Made(deps, Selected(doc.entries, I), doc.entries, of)
  PROVE  AllFaithful(doc, Sorted(deps))
PROOF
<1> DEFINE entries == doc.entries
           kept == Selected(entries, I)
<1>1. Cardinality(I) \in Nat /\ I \in SUBSET Int /\ IsFiniteSet(I)
  BY PickedLength
<1>2. PICK at \in Bijection(1 .. Cardinality(I), I) :
        kept = [k \in 1 .. Cardinality(I) |-> entries[at[k]]]
  BY <1>1, SelectedIs
<1>3. \A k \in DOMAIN kept : kept[k] = entries[at[k]] /\ at[k] \in I
  BY <1>2 DEF Bijection, Injection
<1> HIDE DEF kept
<1>4. Made(deps, kept, entries, of)
  BY DEF kept
<1>5. deps = [k \in DOMAIN kept |-> of[kept[k]]]
  <2>1. \A k \in DOMAIN kept : deps[k] = of[kept[k]]
    BY <1>3, <1>4 DEF Made
  <2> QED
    BY <1>4, <2>1 DEF Made
<1>6. IsReading(Sorted(deps), entries, I, of)
  BY <1>5, SelectedReading DEF kept
<1> QED
  BY <1>6, FaithfulReading DEF ListsFaithfully

NpmListed(e) == ~(e.dir = Empty /\ e.chain = <<>>) /\ ~e.link /\ e.version # Absent
NpmDep(e) ==
  Dep("npm", NpmName(e), e.version,
      IF UnderNodeModules(e) THEN NpmSource(e.resolved) ELSE "workspace",
      UnderNodeModules(e) /\ Len(e.chain) = 1)

LEMMA NpmEntry ==
  ASSUME NEW doc, doc.format = "npm", NEW e, NpmWrites(e)
  PROVE  /\ NpmListed(e) => Faithful(doc, NpmDep(e), e)
         /\ e.real # Absent => NpmListed(e)
PROOF
<1>1. ASSUME e.real # Absent PROVE NpmListed(e)
  BY <1>1, Zenon DEF NpmWrites, NpmListed
<1>2. ASSUME NpmListed(e) PROVE Faithful(doc, NpmDep(e), e)
  <2>1. e.real # Absent
    BY <1>2, Zenon DEF NpmWrites, NpmListed
  <2>2. CASE e.chain = <<>>
    BY <1>2, <2>1, <2>2
    DEF NpmWrites, Plainly, Faithful, Overlooked, Telling, NpmDep, Dep, UnderNodeModules, Class
  <2>3. CASE e.chain # <<>> /\ e.dir # Empty
    BY <1>2, <2>1, <2>3
    DEF NpmWrites, Plainly, Faithful, Overlooked, Telling, NpmDep, Dep, UnderNodeModules, Class
  <2>4. CASE e.chain # <<>> /\ e.dir = Empty
    <3>1. NpmName(e) = e.real.name /\ e.version = e.real.version
      BY <1>2, <2>1, <2>4 DEF NpmWrites, NpmName
    <3>2. UnderNodeModules(e) /\ ~Overlooked(doc, e)
      BY <2>4 DEF UnderNodeModules, Overlooked
    <3>3. Class(NpmDep(e)) = e.real.from
      BY <1>2, <2>1, <2>4, <3>2 DEF NpmWrites, NpmDep, Dep, NpmSource, Class
    <3>4. Plainly(e) => NpmDep(e).direct
      BY <1>2, <2>1, <3>2 DEF NpmWrites, NpmDep, Dep
    <3> QED
      BY <2>1, <3>1, <3>2, <3>3, <3>4 DEF Faithful, Plainly, Telling, NpmDep, Dep, Coordinates
  <2> QED
    BY <2>2, <2>3, <2>4
<1> QED
  BY <1>1, <1>2

LEMMA NpmFaithful ==
  ASSUME NEW doc, NEW n \in Nat, DOMAIN doc.entries = 1 .. n, doc.format = "npm", Written(doc),
         NpmParse(doc) # Failed
  PROVE  AllFaithful(doc, NpmParse(doc).deps)
PROOF
<1> DEFINE I == {i \in DOMAIN doc.entries : NpmListed(doc.entries[i])}
           of == [e \in {doc.entries[i] : i \in DOMAIN doc.entries} |-> NpmDep(e)]
           kept == Selected(doc.entries, I)
           deps == [k \in DOMAIN kept |-> NpmDep(kept[k])]
<1>1. NpmParse(doc) = Parsed(Sorted(deps))
  <2>1. NpmParse(doc) \in {Failed, Parsed(Sorted(deps))}
    BY DEF NpmParse, Each, Where, NpmListed, NpmDep
  <2> QED
    BY <2>1
<1>2. \A i \in DOMAIN doc.entries : of[doc.entries[i]] = NpmDep(doc.entries[i])
  OBVIOUS
<1>3. \A i \in DOMAIN doc.entries : NpmWrites(doc.entries[i])
  BY DEF Written
<1> HIDE DEF of
<1>4. \A i \in I : Faithful(doc, of[doc.entries[i]], doc.entries[i])
  BY <1>2, <1>3, NpmEntry
<1>5. \A i \in DOMAIN doc.entries :
        doc.entries[i].real # Absent /\ ~Overlooked(doc, doc.entries[i]) => i \in I
  BY <1>3, NpmEntry
<1>6. I \in SUBSET DOMAIN doc.entries
  OBVIOUS
<1> HIDE DEF I
<1>7. ListsFaithfully(doc, I, of)
  BY <1>4, <1>5 DEF ListsFaithfully
<1>8. PICK s : s = Selected(doc.entries, I)
  OBVIOUS
<1>9. PICK made : made = [k \in DOMAIN s |-> NpmDep(s[k])]
  OBVIOUS
<1>10. Made(made, s, doc.entries, of)
  BY <1>2, <1>9 DEF Made
<1>11. AllFaithful(doc, Sorted(made))
  BY <1>6, <1>7, <1>8, <1>10, ListedFaithful
<1> QED
  BY <1>1, <1>8, <1>9, <1>11 DEF Parsed

PnpmListed(doc, e) == PnpmReadable(doc, e)
PnpmDep(doc, e) ==
  Dep("pnpm", e.name, e.version, PnpmSource(e.resolution),
      [name |-> e.name, version |-> e.version] \in PnpmDirect(doc))

LEMMA PnpmEntry ==
  ASSUME NEW doc, doc.format = "pnpm", doc.version \in {6, 9}, NEW e, PnpmWrites(doc, e)
  PROVE  /\ PnpmListed(doc, e) => Faithful(doc, PnpmDep(doc, e), e)
         /\ e.real # Absent /\ ~Overlooked(doc, e) => PnpmListed(doc, e)
PROOF
<1> DEFINE this == [name |-> e.real.name, version |-> e.real.version]
<1>1. ASSUME ~Overlooked(doc, e)
      PROVE  /\ e.name # Empty /\ e.name = e.real.name
             /\ e.version # Empty /\ e.version = e.real.version
             /\ e.real.from = "exotic" <=>
                  e.resolution.tarball \/ e.resolution.repo \/ e.resolution.directory
             /\ doc.version = 6 => (Plainly(e) <=> this \in doc.top)
             /\ doc.version = 9 =>
                  (Plainly(e) <=> \E i \in DOMAIN doc.importers : this \in doc.importers[i])
  BY <1>1, Zenon DEF PnpmWrites
<1>2. e.real # Absent /\ e.real.from \in {"registry", "exotic"}
  BY Zenon DEF PnpmWrites
<1>3. ASSUME ~Overlooked(doc, e) PROVE PnpmListed(doc, e)
  <2>1. doc.version = 6 => e.slash
    BY <1>3, Zenon DEF Overlooked
  <2> QED
    BY <1>1, <1>3, <2>1, Zenon DEF PnpmListed, PnpmReadable
<1>4. ASSUME PnpmListed(doc, e) PROVE Faithful(doc, PnpmDep(doc, e), e)
  <2>1. ~Overlooked(doc, e)
    <3>1. doc.version = 6 => e.slash
      BY <1>4, Zenon DEF PnpmListed, PnpmReadable
    <3> QED
      BY <3>1 DEF Overlooked
  <2>2. Coordinates(PnpmDep(doc, e)) = Coordinates(e.real)
    BY <1>1, <2>1 DEF PnpmDep, Dep, Coordinates
  <2>3. PnpmSource(e.resolution) \in {"tarball", "git", "file", "registry"}
        /\ (PnpmSource(e.resolution) = "registry" <=>
              ~(e.resolution.tarball \/ e.resolution.repo \/ e.resolution.directory))
    BY DEF PnpmSource
  <2>4. Class(PnpmDep(doc, e)) = e.real.from
    BY <1>1, <1>2, <2>1, <2>3 DEF PnpmDep, Dep, Class
  <2>5. PnpmDep(doc, e).direct <=> Plainly(e)
    <3>1. PnpmDep(doc, e).direct <=> this \in PnpmDirect(doc)
      BY <1>1, <2>1 DEF PnpmDep, Dep
    <3>2. CASE doc.version = 6
      BY <1>1, <2>1, <3>1, <3>2 DEF PnpmDirect
    <3>3. CASE doc.version = 9
      <4>1. this \in PnpmDirect(doc) <=> \E i \in DOMAIN doc.importers : this \in doc.importers[i]
        BY <3>3 DEF PnpmDirect, Range
      <4> QED
        BY <1>1, <2>1, <3>1, <3>3, <4>1
    <3> QED
      BY <3>2, <3>3
  <2> QED
    BY <1>2, <2>1, <2>2, <2>4, <2>5 DEF Faithful, Plainly
<1> QED
  BY <1>3, <1>4

LEMMA PnpmFaithful ==
  ASSUME NEW doc, NEW n \in Nat, DOMAIN doc.entries = 1 .. n, doc.format = "pnpm", Written(doc),
         PnpmParse(doc) # Failed
  PROVE  AllFaithful(doc, PnpmParse(doc).deps)
PROOF
<1> DEFINE I == {i \in DOMAIN doc.entries : PnpmListed(doc, doc.entries[i])}
           of == [e \in {doc.entries[i] : i \in DOMAIN doc.entries} |-> PnpmDep(doc, e)]
           kept == Selected(doc.entries, I)
           deps == [k \in DOMAIN kept |-> PnpmDep(doc, kept[k])]
<1>1. PnpmParse(doc) = Parsed(Sorted(deps))
  <2>1. PnpmParse(doc) \in {Failed, Parsed(Sorted(deps))}
    BY DEF PnpmParse, Each, Where, PnpmListed, PnpmDep
  <2> QED
    BY <2>1
<1>2. \A i \in DOMAIN doc.entries : of[doc.entries[i]] = PnpmDep(doc, doc.entries[i])
  OBVIOUS
<1>3. \A i \in DOMAIN doc.entries : PnpmWrites(doc, doc.entries[i])
  BY DEF Written
<1>4. doc.version \in {6, 9}
  BY DEF PnpmParse
<1> HIDE DEF of
<1>5. \A i \in I : Faithful(doc, of[doc.entries[i]], doc.entries[i])
  BY <1>2, <1>3, <1>4, PnpmEntry
<1>6. \A i \in DOMAIN doc.entries :
        doc.entries[i].real # Absent /\ ~Overlooked(doc, doc.entries[i]) => i \in I
  BY <1>3, <1>4, PnpmEntry
<1>7. I \in SUBSET DOMAIN doc.entries
  OBVIOUS
<1> HIDE DEF I
<1>8. ListsFaithfully(doc, I, of)
  BY <1>5, <1>6 DEF ListsFaithfully
<1>9. PICK s : s = Selected(doc.entries, I)
  OBVIOUS
<1>10. PICK made : made = [k \in DOMAIN s |-> PnpmDep(doc, s[k])]
  OBVIOUS
<1>11. Made(made, s, doc.entries, of)
  BY <1>2, <1>10 DEF Made
<1>12. AllFaithful(doc, Sorted(made))
  BY <1>7, <1>8, <1>9, <1>11, ListedFaithful
<1> QED
  BY <1>1, <1>9, <1>10, <1>12 DEF Parsed

YarnListed(e) ==
  e.version # Absent /\ e.resolution # Absent
  /\ e.resolution.upto # Empty /\ e.resolution.protocol # "workspace"
YarnDep(doc, e) ==
  Dep("yarn", e.resolution.upto, e.version, YarnSource(e.resolution),
      \E d \in e.descriptors : [name |-> d.upto, range |-> d.value] \in YarnDirect(doc))

LEMMA YarnEntry ==
  ASSUME NEW doc, doc.format = "yarn", NEW e, YarnWrites(doc, e)
  PROVE  /\ YarnListed(e) => Faithful(doc, YarnDep(doc, e), e)
         /\ e.real # Absent => YarnListed(e)
PROOF
<1>1. ASSUME e.real # Absent PROVE YarnListed(e)
  BY <1>1 DEF YarnWrites, YarnListed
<1>2. ASSUME YarnListed(e) PROVE Faithful(doc, YarnDep(doc, e), e)
  <2>1. e.real # Absent /\ ~Overlooked(doc, e)
    BY <1>2 DEF YarnWrites, YarnListed, Overlooked
  <2>2. /\ e.version = e.real.version
        /\ \/ e.real.from = "registry" /\ e.resolution.protocol = "npm"
           \/ e.real.from = "exotic" /\ e.resolution.protocol \notin {Absent, "npm", "workspace"}
        /\ e.real.from = "registry" \/ Plainly(e) => e.resolution.upto = e.real.name
    BY <1>2, <2>1 DEF YarnWrites, YarnListed
  <2>3. e.real.from = "registry" \/ Plainly(e) => Coordinates(YarnDep(doc, e)) = Coordinates(e.real)
    BY <2>2 DEF YarnDep, Dep, Coordinates
  <2>4. Class(YarnDep(doc, e)) = e.real.from
    <3>1. e.resolution.protocol = "npm" => YarnSource(e.resolution) = "registry"
      BY DEF YarnSource
    <3>2. e.resolution.protocol \notin {Absent, "npm", "workspace"} =>
            YarnSource(e.resolution) \in {"git", "github", "file", "tarball"}
      BY DEF YarnSource
    <3> QED
      BY <2>2, <3>1, <3>2 DEF YarnDep, Dep, Class
  <2>5. YarnDep(doc, e).direct <=> Plainly(e)
    <3>1. Plainly(e) <=>
            /\ doc.manifest # Absent
            /\ \E d \in e.descriptors, m \in Manifests(doc) :
                 [name |-> d.upto, range |-> d.value] \in m.declared
      BY <1>2, <2>1, Zenon DEF YarnWrites, YarnListed
    <3>2. YarnDep(doc, e).direct <=>
            \E d \in e.descriptors : [name |-> d.upto, range |-> d.value] \in YarnDirect(doc)
      BY DEF YarnDep, Dep
    <3>3. ASSUME NEW x
          PROVE  x \in YarnDirect(doc) <=>
                   doc.manifest # Absent /\ \E m \in Manifests(doc) : x \in m.declared
      BY DEF YarnDirect, Manifests
    <3> QED
      BY <3>1, <3>2, <3>3
  <2> QED
    BY <2>1, <2>2, <2>3, <2>4, <2>5 DEF Faithful, Plainly
<1> QED
  BY <1>1, <1>2

LEMMA YarnFaithful ==
  ASSUME NEW doc, NEW n \in Nat, DOMAIN doc.entries = 1 .. n, doc.format = "yarn", Written(doc),
         YarnParse(doc) # Failed
  PROVE  AllFaithful(doc, YarnParse(doc).deps)
PROOF
<1> DEFINE I == {i \in DOMAIN doc.entries : YarnListed(doc.entries[i])}
           of == [e \in {doc.entries[i] : i \in DOMAIN doc.entries} |-> YarnDep(doc, e)]
           kept == Selected(doc.entries, I)
           deps == [k \in DOMAIN kept |-> YarnDep(doc, kept[k])]
<1>1. YarnParse(doc) = Parsed(Sorted(deps))
  <2>1. YarnParse(doc) \in {Failed, Parsed(Sorted(deps))}
    BY DEF YarnParse, Each, Where, YarnListed, YarnDep
  <2> QED
    BY <2>1
<1>2. \A i \in DOMAIN doc.entries : of[doc.entries[i]] = YarnDep(doc, doc.entries[i])
  OBVIOUS
<1>3. \A i \in DOMAIN doc.entries : YarnWrites(doc, doc.entries[i])
  BY DEF Written
<1> HIDE DEF of
<1>4. \A i \in I : Faithful(doc, of[doc.entries[i]], doc.entries[i])
  BY <1>2, <1>3, YarnEntry
<1>5. \A i \in DOMAIN doc.entries :
        doc.entries[i].real # Absent /\ ~Overlooked(doc, doc.entries[i]) => i \in I
  BY <1>3, YarnEntry
<1>6. I \in SUBSET DOMAIN doc.entries
  OBVIOUS
<1> HIDE DEF I
<1>7. ListsFaithfully(doc, I, of)
  BY <1>4, <1>5 DEF ListsFaithfully
<1>8. PICK s : s = Selected(doc.entries, I)
  OBVIOUS
<1>9. PICK made : made = [k \in DOMAIN s |-> YarnDep(doc, s[k])]
  OBVIOUS
<1>10. Made(made, s, doc.entries, of)
  BY <1>2, <1>9 DEF Made
<1>11. AllFaithful(doc, Sorted(made))
  BY <1>6, <1>7, <1>8, <1>10, ListedFaithful
<1> QED
  BY <1>1, <1>8, <1>9, <1>11 DEF Parsed

UvListed(e) == e.version # Absent /\ ~(e.source.kind = "virtual" /\ e.source.path = ".")
UvDep(doc, e) ==
  Dep("pypi", Normalised(e.name), e.version, UvSource(e.source),
      Normalised(e.name) \in UvDirect(doc))

\* The first virtual package is the project itself, if there is one.
LEMMA UvDirectIs ==
  ASSUME NEW doc, NEW n \in Nat, DOMAIN doc.entries = 1 .. n,
         doc.format = "uv", RootFirst(doc)
  PROVE  \A x : x \in UvDirect(doc) <=>
           \E i \in DOMAIN doc.entries :
             UvRoot(doc, i) /\ \E d \in doc.entries[i].dependencies : Normalised(d) = x
PROOF
<1> DEFINE virtual == {i \in DOMAIN doc.entries : doc.entries[i].source.kind = "virtual"}
<1>1. virtual \subseteq 1 .. n /\ \A i \in DOMAIN doc.entries : UvRoot(doc, i) => i \in virtual
  BY DEF UvRoot, UvProject
<1>2. UvDirect(doc) = IF virtual = {} THEN {}
                      ELSE {Normalised(d) : d \in doc.entries[Min(virtual)].dependencies}
  BY DEF UvDirect, Where
<1>3. CASE virtual = {}
  BY <1>1, <1>2, <1>3
<1>4. CASE virtual # {}
  <2>1. PICK m : m = Min(virtual)
    OBVIOUS
  <2>2. m \in virtual /\ \A j \in virtual : m <= j
    <3>1. virtual \in SUBSET Nat
      BY <1>1
    <3> HIDE DEF virtual
    <3> QED
      BY <1>4, <2>1, <3>1, LeastIs
  <2>3. PICK r \in DOMAIN doc.entries : UvRoot(doc, r) /\ r <= m
    BY <2>2 DEF RootFirst
  <2>4. r = m
    BY <1>1, <2>2, <2>3
  <2>5. \A i \in DOMAIN doc.entries : UvRoot(doc, i) => i = m
    <3>1. ASSUME NEW i \in DOMAIN doc.entries, UvRoot(doc, i) PROVE i <= m /\ m <= i
      BY <1>1, <2>2, <2>3, <2>4, <3>1 DEF UvRoot
    <3> QED
      BY <1>1, <2>2, <3>1
  <2>6. m \in DOMAIN doc.entries
    BY <2>2
  <2> HIDE DEF virtual
  <2> QED
    BY <1>2, <1>4, <2>1, <2>3, <2>4, <2>5, <2>6
<1> QED
  BY <1>3, <1>4

LEMMA UvEntry ==
  ASSUME NEW doc, doc.format = "uv", NEW n \in Nat, DOMAIN doc.entries = 1 .. n,
         NEW e, UvWrites(doc, e)
  PROVE  /\ UvListed(e) => Faithful(doc, UvDep(doc, e), e)
         /\ e.real # Absent => UvListed(e)
PROOF
<1>1. ASSUME e.real # Absent PROVE UvListed(e)
  BY <1>1 DEF UvWrites, UvListed, UvProject
<1>2. ASSUME UvListed(e) PROVE Faithful(doc, UvDep(doc, e), e)
  <2>1. e.real # Absent /\ ~Overlooked(doc, e)
    BY <1>2 DEF UvWrites, UvListed, UvProject, Overlooked
  <2>2. /\ e.version = e.real.version /\ Normalised(e.name) = e.real.name
        /\ \/ e.real.from = "registry" /\ e.source.kind \in {"registry", "none"}
           \/ e.real.from = "exotic" /\ e.source.kind \in {"editable", "directory", "git", "url"}
           \/ e.real.from = "workspace" /\ e.source.kind = "virtual"
    BY <1>2, <2>1 DEF UvWrites, UvListed, UvProject
  <2>3. Coordinates(UvDep(doc, e)) = Coordinates(e.real)
    BY <2>2 DEF UvDep, Dep, Coordinates
  <2>4. Class(UvDep(doc, e)) = e.real.from
    BY <2>2 DEF UvDep, Dep, Class, UvSource
  <2>5. ASSUME RootFirst(doc) PROVE UvDep(doc, e).direct <=> Plainly(e)
    <3>1. Plainly(e) <=>
            \E i \in DOMAIN doc.entries :
              UvRoot(doc, i) /\ \E d \in doc.entries[i].dependencies : Normalised(d) = e.real.name
      BY <1>2, <2>1, Zenon DEF UvWrites, UvListed, UvProject
    <3>2. UvDep(doc, e).direct <=> e.real.name \in UvDirect(doc)
      BY <2>2 DEF UvDep, Dep
    <3> QED
      BY <2>5, <3>1, <3>2, UvDirectIs, Zenon
  <2> QED
    BY <2>1, <2>2, <2>3, <2>4, <2>5 DEF Faithful, Plainly
<1> QED
  BY <1>1, <1>2

LEMMA UvFaithful ==
  ASSUME NEW doc, NEW n \in Nat, DOMAIN doc.entries = 1 .. n, doc.format = "uv", Written(doc),
         UvParse(doc) # Failed
  PROVE  AllFaithful(doc, UvParse(doc).deps)
PROOF
<1> DEFINE I == {i \in DOMAIN doc.entries : UvListed(doc.entries[i])}
           of == [e \in {doc.entries[i] : i \in DOMAIN doc.entries} |-> UvDep(doc, e)]
           kept == Selected(doc.entries, I)
           deps == [k \in DOMAIN kept |-> UvDep(doc, kept[k])]
<1>1. UvParse(doc) = Parsed(Sorted(deps))
  <2>1. UvParse(doc) \in {Failed, Parsed(Sorted(deps))}
    BY DEF UvParse, Each, Where, UvListed, UvDep
  <2> QED
    BY <2>1
<1>2. \A i \in DOMAIN doc.entries : of[doc.entries[i]] = UvDep(doc, doc.entries[i])
  OBVIOUS
<1>3. \A i \in DOMAIN doc.entries : UvWrites(doc, doc.entries[i])
  BY DEF Written
<1> HIDE DEF of
<1>4. \A i \in I : Faithful(doc, of[doc.entries[i]], doc.entries[i])
  BY <1>2, <1>3, UvEntry
<1>5. \A i \in DOMAIN doc.entries :
        doc.entries[i].real # Absent /\ ~Overlooked(doc, doc.entries[i]) => i \in I
  BY <1>3, UvEntry
<1>6. I \in SUBSET DOMAIN doc.entries
  OBVIOUS
<1> HIDE DEF I
<1>7. ListsFaithfully(doc, I, of)
  BY <1>4, <1>5 DEF ListsFaithfully
<1>8. PICK s : s = Selected(doc.entries, I)
  OBVIOUS
<1>9. PICK made : made = [k \in DOMAIN s |-> UvDep(doc, s[k])]
  OBVIOUS
<1>10. Made(made, s, doc.entries, of)
  BY <1>2, <1>9 DEF Made
<1>11. AllFaithful(doc, Sorted(made))
  BY <1>6, <1>7, <1>8, <1>10, ListedFaithful
<1> QED
  BY <1>1, <1>8, <1>9, <1>11 DEF Parsed

LEMMA GreatestIs ==
  ASSUME NEW n \in Nat, NEW S \in SUBSET (1 .. n), S # {}
  PROVE  Max(S) \in S
PROOF
<1> DEFINE T == {n - x : x \in S}
<1>1. T \in SUBSET Nat /\ T # {}
  <2>1. ASSUME NEW x \in S PROVE n - x \in Nat
    BY <2>1
  <2> QED
    BY <2>1
<1>2. PICK m : m = Min(T)
  OBVIOUS
<1>3. m \in T /\ \A y \in T : m <= y
  <2> HIDE DEF T
  <2> QED
    BY <1>1, <1>2, LeastIs
<1>4. PICK x \in S : m = n - x
  BY <1>3
<1>5. \A y \in S : x >= y
  <2>1. ASSUME NEW y \in S PROVE x >= y
    <3>1. n - x <= n - y
      BY <1>3, <1>4
    <3> QED
      BY <3>1
  <2> QED
    BY <2>1
<1> QED
  BY <1>5 DEF Max

RequirementsDep(e) ==
  Dep("pypi", Normalised(e.name), e.version, "pypi", LastVia(e) \in {Absent, "-r", "-c"})

LEMMA RequirementsEntry ==
  ASSUME NEW doc, doc.format = "requirements", NEW e, RequirementsWrites(e)
  PROVE  Faithful(doc, RequirementsDep(e), e)
PROOF
<1>1. /\ e.real # Absent /\ e.real.from = "registry"
      /\ e.version = e.real.version /\ Normalised(e.name) = e.real.name
  BY DEF RequirementsWrites
<1>2. ASSUME Plainly(e) PROVE LastVia(e) \in {Absent, "-r", "-c"}
  <2> DEFINE said == {i \in DOMAIN e.notes : e.notes[i].via # Absent}
  <2>1. \A i \in DOMAIN e.notes : e.notes[i].via \in {Absent, "-r", "-c"}
    BY <1>2 DEF RequirementsWrites
  <2>2. LastVia(e) = IF said = {} THEN Absent ELSE e.notes[Max(said)].via
    BY DEF LastVia, Where
  <2>3. CASE said = {}
    BY <2>2, <2>3
  <2>4. CASE said # {}
    <3>1. PICK n \in Nat : DOMAIN e.notes = 1 .. n
      BY DEF RequirementsWrites
    <3>2. said \in SUBSET (1 .. n)
      BY <3>1
    <3> HIDE DEF said
    <3>3. Max(said) \in said
      BY <2>4, <3>2, GreatestIs
    <3>4. Max(said) \in DOMAIN e.notes
      BY <3>3 DEF said
    <3> QED
      BY <2>1, <2>2, <2>4, <3>4
  <2> QED
    BY <2>3, <2>4
<1>3. ~Overlooked(doc, e) /\ doc.format \notin Telling
  BY DEF Overlooked, Telling
<1>4. /\ Class(RequirementsDep(e)) = "registry"
      /\ Coordinates(RequirementsDep(e)) = Coordinates(e.real)
  BY <1>1 DEF RequirementsDep, Dep, Class, Coordinates
<1>5. Plainly(e) => RequirementsDep(e).direct
  BY <1>2 DEF RequirementsDep, Dep
<1> QED
  BY <1>1, <1>3, <1>4, <1>5 DEF Faithful, Plainly

LEMMA RequirementsFaithful ==
  ASSUME NEW doc, NEW n \in Nat, DOMAIN doc.entries = 1 .. n, doc.format = "requirements", Written(doc),
         RequirementsParse(doc) # Failed
  PROVE  AllFaithful(doc, RequirementsParse(doc).deps)
PROOF
<1> DEFINE I == DOMAIN doc.entries
           of == [e \in {doc.entries[i] : i \in DOMAIN doc.entries} |-> RequirementsDep(e)]
           deps == [k \in DOMAIN doc.entries |-> RequirementsDep(doc.entries[k])]
<1>1. RequirementsParse(doc) = Parsed(Sorted(deps))
  <2>1. RequirementsParse(doc) \in {Failed, Parsed(Sorted(deps))}
    BY DEF RequirementsParse, Each, RequirementsDep
  <2> QED
    BY <2>1
<1>2. \A i \in DOMAIN doc.entries : of[doc.entries[i]] = RequirementsDep(doc.entries[i])
  OBVIOUS
<1>3. \A i \in DOMAIN doc.entries : RequirementsWrites(doc.entries[i])
  BY DEF Written
<1>4. deps = [k \in DOMAIN doc.entries |-> of[doc.entries[k]]]
  BY <1>2
<1> HIDE DEF of
<1>5. \A i \in I : Faithful(doc, of[doc.entries[i]], doc.entries[i])
  BY <1>2, <1>3, RequirementsEntry
<1>6. IsReading(Sorted(deps), doc.entries, I, of)
  BY <1>4, WholeReading
<1>7. PICK read : read = Sorted(deps)
  OBVIOUS
<1>8. AllFaithful(doc, read)
  BY <1>5, <1>6, <1>7, FaithfulReading
<1> QED
  BY <1>1, <1>7, <1>8 DEF Parsed

PoetryDep(doc, e) ==
  Dep("pypi", Normalised(e.name), e.version, PoetrySource(e.source),
      Normalised(e.name) \in PoetryDirect(doc))

LEMMA PoetryEntry ==
  ASSUME NEW doc, doc.format = "poetry", NEW e, PoetryWrites(doc, e)
  PROVE  Faithful(doc, PoetryDep(doc, e), e)
PROOF
<1>1. /\ e.real # Absent
      /\ e.version = e.real.version /\ Normalised(e.name) = e.real.name
      /\ \/ e.real.from = "registry" /\ e.source \in {"none", "legacy"}
         \/ e.real.from = "exotic" /\ e.source \in {"git", "url", "file", "directory"}
  BY DEF PoetryWrites
<1>2. Class(PoetryDep(doc, e)) = e.real.from
  BY <1>1 DEF PoetryDep, Dep, Class, PoetrySource
<1>3. Coordinates(PoetryDep(doc, e)) = Coordinates(e.real)
  BY <1>1 DEF PoetryDep, Dep, Coordinates
<1>4. PoetryDep(doc, e).direct <=> Plainly(e)
  <2>1. Plainly(e) <=>
          /\ doc.manifest # Absent
          /\ \/ \E n \in doc.manifest.dependencies \cup UNION doc.manifest.groups :
                  n # "python" /\ Normalised(n) = e.real.name
             \/ \E n \in doc.manifest.project : n # Empty /\ Normalised(n) = e.real.name
    BY Zenon DEF PoetryWrites
  <2>2. PoetryDep(doc, e).direct <=> e.real.name \in PoetryDirect(doc)
    BY <1>1 DEF PoetryDep, Dep
  <2>3. ASSUME NEW x
        PROVE  x \in PoetryDirect(doc) <=>
                 /\ doc.manifest # Absent
                 /\ \/ \E n \in doc.manifest.dependencies \cup UNION doc.manifest.groups :
                         n # "python" /\ Normalised(n) = x
                    \/ \E n \in doc.manifest.project : n # Empty /\ Normalised(n) = x
    BY DEF PoetryDirect
  <2> QED
    BY <2>1, <2>2, <2>3
<1>5. ~Overlooked(doc, e)
  BY DEF Overlooked
<1> QED
  BY <1>1, <1>2, <1>3, <1>4, <1>5 DEF Faithful, Plainly

LEMMA PoetryFaithful ==
  ASSUME NEW doc, NEW n \in Nat, DOMAIN doc.entries = 1 .. n, doc.format = "poetry", Written(doc),
         PoetryParse(doc) # Failed
  PROVE  AllFaithful(doc, PoetryParse(doc).deps)
PROOF
<1> DEFINE I == DOMAIN doc.entries
           of == [e \in {doc.entries[i] : i \in DOMAIN doc.entries} |-> PoetryDep(doc, e)]
           deps == [k \in DOMAIN doc.entries |-> PoetryDep(doc, doc.entries[k])]
<1>1. PoetryParse(doc) = Parsed(Sorted(deps))
  <2>1. PoetryParse(doc) \in {Failed, Parsed(Sorted(deps))}
    BY DEF PoetryParse, Each, PoetryDep
  <2> QED
    BY <2>1
<1>2. \A i \in DOMAIN doc.entries : of[doc.entries[i]] = PoetryDep(doc, doc.entries[i])
  OBVIOUS
<1>3. \A i \in DOMAIN doc.entries : PoetryWrites(doc, doc.entries[i])
  BY DEF Written
<1>4. deps = [k \in DOMAIN doc.entries |-> of[doc.entries[k]]]
  BY <1>2
<1> HIDE DEF of
<1>5. \A i \in I : Faithful(doc, of[doc.entries[i]], doc.entries[i])
  BY <1>2, <1>3, PoetryEntry
<1>6. IsReading(Sorted(deps), doc.entries, I, of)
  BY <1>4, WholeReading
<1>7. PICK read : read = Sorted(deps)
  OBVIOUS
<1>8. AllFaithful(doc, read)
  BY <1>5, <1>6, <1>7, FaithfulReading
<1> QED
  BY <1>1, <1>7, <1>8 DEF Parsed

\* Whatever the format.
LEMMA ParseFaithful ==
  ASSUME NEW doc, NEW n \in Nat, DOMAIN doc.entries = 1 .. n, doc.format \in Formats, Written(doc),
         Parse(doc).ok
  PROVE  AllFaithful(doc, Parse(doc).deps)
PROOF
<1>1. Parse(doc) # Failed
  <2>1. Failed.ok = FALSE
    BY DEF Failed
  <2> QED
    BY <2>1, Zenon
<1>2. CASE doc.format = "npm"
  <2>1. Parse(doc) = NpmParse(doc)
    BY <1>2 DEF Parse
  <2> QED
    BY <1>1, <1>2, <2>1, NpmFaithful
<1>3. CASE doc.format = "pnpm"
  <2>1. Parse(doc) = PnpmParse(doc)
    BY <1>3 DEF Parse
  <2> QED
    BY <1>1, <1>3, <2>1, PnpmFaithful
<1>4. CASE doc.format = "yarn"
  <2>1. Parse(doc) = YarnParse(doc)
    BY <1>4 DEF Parse
  <2> QED
    BY <1>1, <1>4, <2>1, YarnFaithful
<1>5. CASE doc.format = "uv"
  <2>1. Parse(doc) = UvParse(doc)
    BY <1>5 DEF Parse
  <2> QED
    BY <1>1, <1>5, <2>1, UvFaithful
<1>6. CASE doc.format = "requirements"
  <2>1. Parse(doc) = RequirementsParse(doc)
    BY <1>6 DEF Parse
  <2> QED
    BY <1>1, <1>6, <2>1, RequirementsFaithful
<1>7. CASE doc.format = "poetry"
  <2>1. Parse(doc) = PoetryParse(doc)
    BY <1>7 DEF Parse
  <2> QED
    BY <1>1, <1>7, <2>1, PoetryFaithful
<1> QED
  BY <1>2, <1>3, <1>4, <1>5, <1>6, <1>7 DEF Formats

LEMMA DocumentFaithful ==
  ASSUME scenario \in DOMAIN Scenarios, tree \in Trees[scenario], Readable
  PROVE  /\ \E n \in Nat : DOMAIN Document.entries = 1 .. n
         /\ AllFaithful(Document, Parse(Document).deps)
PROOF
<1> DEFINE all == Scenarios[scenario].entries
<1>1. /\ tree \in SUBSET DOMAIN all /\ all \in Seq(Range(all))
      /\ {"format", "entries"} \subseteq DOMAIN Scenarios[scenario] /\ Scenarios[scenario].format \in Formats
  BY ProjectAssumption
<1>2. Document.entries = Selected(all, tree) /\ Document.format = Scenarios[scenario].format
  BY <1>1 DEF Document, Lockfile
<1>3. Len(all) \in Nat /\ DOMAIN all = 1 .. Len(all)
  BY <1>1
<1> HIDE DEF all
<1>4. Cardinality(tree) \in Nat /\ DOMAIN Document.entries = 1 .. Cardinality(tree)
  BY <1>1, <1>2, <1>3, PickedLength
<1>5. Written(Document)
  BY WrittenAssumption DEF Document
<1>6. Parse(Document).ok
  BY Zenon DEF Readable
<1>7. Document.format \in Formats
  BY <1>1, <1>2
<1>8. AllFaithful(Document, Parse(Document).deps)
  <2>1. PICK doc : doc = Document
    OBVIOUS
  <2> QED
    BY <1>4, <1>5, <1>6, <1>7, <2>1, ParseFaithful
<1> QED
  BY <1>4, <1>8

\* Seen, of any lockfile.
InSight(doc) == {i \in DOMAIN doc.entries : doc.entries[i].real # Absent /\ ~Overlooked(doc, doc.entries[i])}

LEMMA AskedIs ==
  ASSUME NEW doc, NEW n \in Nat, DOMAIN doc.entries = 1 .. n,
         NEW deps, NEW m \in Nat, DOMAIN deps = 1 .. m, AllFaithful(doc, deps)
  PROVE  /\ \A c : (\E k \in DOMAIN deps : Class(deps[k]) = "registry" /\ Coordinates(deps[k]) = c) <=>
                   (\E i \in InSight(doc) :
                      doc.entries[i].real.from = "registry" /\ Coordinates(doc.entries[i].real) = c)
         /\ Cardinality({k \in DOMAIN deps : Class(deps[k]) = "exotic"}) =
            Cardinality({i \in InSight(doc) : doc.entries[i].real.from = "exotic"})
PROOF
<1> DEFINE decided == {k \in DOMAIN deps : Class(deps[k]) = "exotic"}
           elsewhere == {i \in InSight(doc) : doc.entries[i].real.from = "exotic"}
<1>1. PICK I \in SUBSET DOMAIN doc.entries : \E from \in Bijection(DOMAIN deps, I) :
        /\ \A k \in DOMAIN deps : Faithful(doc, deps[k], doc.entries[from[k]])
        /\ \A i \in DOMAIN doc.entries :
             doc.entries[i].real # Absent /\ ~Overlooked(doc, doc.entries[i]) => i \in I
  BY DEF AllFaithful
<1>2. PICK from \in Bijection(DOMAIN deps, I) :
        /\ \A k \in DOMAIN deps : Faithful(doc, deps[k], doc.entries[from[k]])
        /\ \A i \in DOMAIN doc.entries :
             doc.entries[i].real # Absent /\ ~Overlooked(doc, doc.entries[i]) => i \in I
  BY <1>1
<1>3. /\ \A k \in DOMAIN deps : from[k] \in I
      /\ \A k, l \in DOMAIN deps : from[k] = from[l] => k = l
      /\ \A i \in I : \E k \in DOMAIN deps : from[k] = i
  BY DEF Bijection, Injection, Surjection, IsInjective
<1>4. ASSUME NEW i \in InSight(doc) PROVE \E k \in DOMAIN deps : from[k] = i
  <2>1. i \in I
    BY <1>2 DEF InSight
  <2> QED
    BY <1>3, <2>1
<1>5. ASSUME NEW k \in DOMAIN deps, Class(deps[k]) # "workspace"
      PROVE  from[k] \in InSight(doc) /\ Class(deps[k]) = doc.entries[from[k]].real.from
  <2>1. Faithful(doc, deps[k], doc.entries[from[k]]) /\ from[k] \in DOMAIN doc.entries
    BY <1>2, <1>3
  <2>2. doc.entries[from[k]].real # Absent /\ ~Overlooked(doc, doc.entries[from[k]])
    BY <1>5, <2>1, Zenon DEF Faithful
  <2>3. Class(deps[k]) = doc.entries[from[k]].real.from
    BY <2>1, <2>2, Zenon DEF Faithful
  <2> QED
    BY <2>1, <2>2, <2>3 DEF InSight
<1>6. ASSUME NEW k \in DOMAIN deps, from[k] \in InSight(doc)
      PROVE  /\ Class(deps[k]) = doc.entries[from[k]].real.from
             /\ doc.entries[from[k]].real.from = "registry" =>
                  Coordinates(deps[k]) = Coordinates(doc.entries[from[k]].real)
  <2>1. Faithful(doc, deps[k], doc.entries[from[k]]) /\ ~Overlooked(doc, doc.entries[from[k]])
    BY <1>2, <1>6 DEF InSight
  <2> QED
    BY <2>1, Zenon DEF Faithful
<1>7. ASSUME NEW c
      PROVE  (\E k \in DOMAIN deps : Class(deps[k]) = "registry" /\ Coordinates(deps[k]) = c) <=>
             (\E i \in InSight(doc) :
                doc.entries[i].real.from = "registry" /\ Coordinates(doc.entries[i].real) = c)
  BY <1>4, <1>5, <1>6
<1>8. IsFiniteSet(decided)
  <2>1. IsFiniteSet(1 .. m)
    BY FS_Interval
  <2>2. decided \subseteq 1 .. m
    OBVIOUS
  <2> QED
    BY <2>1, <2>2, FS_Subset
<1>9. /\ \A k \in decided : from[k] \in elsewhere
      /\ \A i \in elsewhere : \E k \in decided : from[k] = i
  BY <1>4, <1>5, <1>6
<1>10. \A k \in decided : k \in DOMAIN deps
  OBVIOUS
<1> HIDE DEF decided, elsewhere
<1> DEFINE f == [k \in decided |-> from[k]]
<1>11. f \in Bijection(decided, elsewhere)
  <2>1. f \in [decided -> elsewhere]
    BY <1>9
  <2>2. \A k, l \in decided : f[k] = f[l] => k = l
    BY <1>3, <1>10
  <2>3. \A i \in elsewhere : \E k \in decided : f[k] = i
    BY <1>9
  <2> HIDE DEF f
  <2> QED
    BY <2>1, <2>2, <2>3 DEF Bijection, Injection, Surjection, IsInjective
<1>12. Cardinality(elsewhere) = Cardinality(decided)
  BY <1>8, <1>11, FS_Bijection DEF ExistsBijection
<1> QED
  BY <1>7, <1>12 DEF decided, elsewhere

\* DirectIsDeclared, of any lockfile and the dependencies read from it.
DirectAsManifest(doc, deps) ==
  /\ \A i \in InSight(doc) : doc.entries[i].real.declared = "plainly" =>
       \E k \in DOMAIN deps : deps[k].direct /\ Coordinates(deps[k]) = Coordinates(doc.entries[i].real)
  /\ doc.format \in Telling =>
       \A k \in DOMAIN deps : deps[k].direct =>
         \E i \in InSight(doc) :
           /\ doc.entries[i].real.declared = "plainly"
           /\ Coordinates(deps[k]) = Coordinates(doc.entries[i].real)

LEMMA DirectIs ==
  ASSUME NEW doc, NEW deps, AllFaithful(doc, deps), RootFirst(doc)
  PROVE  DirectAsManifest(doc, deps)
PROOF
<1>1. PICK I \in SUBSET DOMAIN doc.entries : \E from \in Bijection(DOMAIN deps, I) :
        /\ \A k \in DOMAIN deps : Faithful(doc, deps[k], doc.entries[from[k]])
        /\ \A i \in DOMAIN doc.entries :
             doc.entries[i].real # Absent /\ ~Overlooked(doc, doc.entries[i]) => i \in I
  BY DEF AllFaithful
<1>2. PICK from \in Bijection(DOMAIN deps, I) :
        /\ \A k \in DOMAIN deps : Faithful(doc, deps[k], doc.entries[from[k]])
        /\ \A i \in DOMAIN doc.entries :
             doc.entries[i].real # Absent /\ ~Overlooked(doc, doc.entries[i]) => i \in I
  BY <1>1
<1>3. /\ \A k \in DOMAIN deps : from[k] \in I
      /\ \A i \in I : \E k \in DOMAIN deps : from[k] = i
  BY DEF Bijection, Injection, Surjection, IsInjective
<1>4. ASSUME NEW i \in InSight(doc), doc.entries[i].real.declared = "plainly"
      PROVE  \E k \in DOMAIN deps :
               deps[k].direct /\ Coordinates(deps[k]) = Coordinates(doc.entries[i].real)
  <2>1. i \in I /\ ~Overlooked(doc, doc.entries[i])
    BY <1>2 DEF InSight
  <2>2. PICK k \in DOMAIN deps : from[k] = i
    BY <1>3, <2>1
  <2>3. Faithful(doc, deps[k], doc.entries[i])
    BY <1>2, <2>2
  <2> QED
    BY <1>4, <2>1, <2>3, Zenon DEF Faithful
<1>5. ASSUME doc.format \in Telling, NEW k \in DOMAIN deps, deps[k].direct
      PROVE  \E i \in InSight(doc) :
               /\ doc.entries[i].real.declared = "plainly"
               /\ Coordinates(deps[k]) = Coordinates(doc.entries[i].real)
  <2>1. Faithful(doc, deps[k], doc.entries[from[k]]) /\ from[k] \in DOMAIN doc.entries
    BY <1>2, <1>3
  <2>2. doc.entries[from[k]].real # Absent /\ ~Overlooked(doc, doc.entries[from[k]])
    BY <1>5, <2>1, Zenon DEF Faithful
  <2>3. /\ doc.entries[from[k]].real.declared = "plainly"
        /\ Coordinates(deps[k]) = Coordinates(doc.entries[from[k]].real)
    BY <1>5, <2>1, <2>2, Zenon DEF Faithful
  <2>4. from[k] \in InSight(doc)
    BY <2>1, <2>2 DEF InSight
  <2> QED
    BY <2>3, <2>4
<1> QED
  BY <1>4, <1>5 DEF DirectAsManifest

\* AskedAsLocked for every lockfile that is written as PackageManagers says: the
\* adapters take each package from a registry under its own name and version, and
\* count every other one.
THEOREM AskedIsLocked == Spec => []AskedAsLocked
PROOF
<1>1. IInv => AskedAsLocked
  <2> SUFFICES ASSUME IInv, Readable PROVE AskedAsLocked
    BY Zenon DEF AskedAsLocked
  <2>1. scenario \in DOMAIN Scenarios /\ tree \in Trees[scenario]
    BY DEF IInv
  <2>2. PICK doc : doc = Document
    OBVIOUS
  <2>3. PICK deps : deps = Parse(doc).deps
    OBVIOUS
  <2>4. PICK n \in Nat : DOMAIN doc.entries = 1 .. n
    BY <2>1, <2>2, DocumentFaithful
  <2>5. PICK m \in Nat : DOMAIN deps = 1 .. m
    BY <2>1, <2>2, <2>3, DocumentProper DEF Proper
  <2>6. AllFaithful(doc, deps)
    BY <2>1, <2>2, <2>3, DocumentFaithful
  <2>7. Seen = InSight(doc)
    BY <2>2 DEF Seen, InSight
  <2> DEFINE asked == {Coordinates(d) : d \in {x \in Range(deps) : Class(x) = "registry"}}
             installed == {Coordinates(r) :
                             r \in {x \in {doc.entries[i].real : i \in InSight(doc)} : x.from = "registry"}}
             decided == {k \in DOMAIN deps : Class(deps[k]) = "exotic"}
             elsewhere == {i \in InSight(doc) : doc.entries[i].real.from = "exotic"}
  <2>8. /\ \A c : (\E k \in DOMAIN deps : Class(deps[k]) = "registry" /\ Coordinates(deps[k]) = c) <=>
                  (\E i \in InSight(doc) :
                     doc.entries[i].real.from = "registry" /\ Coordinates(doc.entries[i].real) = c)
        /\ Cardinality(decided) = Cardinality(elsewhere)
    BY <2>4, <2>5, <2>6, AskedIs
  <2>9. asked = installed
    <3>1. ASSUME NEW c
          PROVE  c \in asked <=>
                 \E k \in DOMAIN deps : Class(deps[k]) = "registry" /\ Coordinates(deps[k]) = c
      BY DEF Range
    <3>2. ASSUME NEW c
          PROVE  c \in installed <=>
                 \E i \in InSight(doc) :
                   doc.entries[i].real.from = "registry" /\ Coordinates(doc.entries[i].real) = c
      OBVIOUS
    <3> HIDE DEF asked, installed
    <3> QED
      BY <2>8, <3>1, <3>2
  <2>10. /\ asked = {Coordinates(d) : d \in {x \in Deps : Class(x) = "registry"}}
         /\ installed = {Coordinates(r) : r \in {x \in RealSeen : x.from = "registry"}}
    BY <2>2, <2>3, <2>7 DEF Deps, RealSeen
  <2>11. /\ decided = {k \in DOMAIN Parse(Document).deps : Class(Parse(Document).deps[k]) = "exotic"}
         /\ elsewhere = {i \in Seen : Document.entries[i].real.from = "exotic"}
    BY <2>2, <2>3, <2>7
  <2> HIDE DEF asked, installed, decided, elsewhere
  <2> QED
    BY <2>8, <2>9, <2>10, <2>11 DEF AskedAsLocked
<1> QED
  BY <1>1, Invariance, PTL

\* DirectIsDeclared for every lockfile that is written as PackageManagers says: the
\* adapters find what the manifests declare through importers, descriptors,
\* virtual packages, comments and groups.
THEOREM DirectAreDeclared == Spec => []DirectIsDeclared
PROOF
<1>1. IInv => DirectIsDeclared
  <2> SUFFICES ASSUME IInv, Readable, RootFirst(Document) PROVE DirectIsDeclared
    BY Zenon DEF DirectIsDeclared
  <2>1. scenario \in DOMAIN Scenarios /\ tree \in Trees[scenario]
    BY DEF IInv
  <2>2. PICK doc : doc = Document
    OBVIOUS
  <2>3. PICK deps : deps = Parse(doc).deps
    OBVIOUS
  <2>4. AllFaithful(doc, deps)
    BY <2>1, <2>2, <2>3, DocumentFaithful
  <2>5. Seen = InSight(doc)
    BY <2>2 DEF Seen, InSight
  <2>6. DirectAsManifest(doc, deps)
    BY <2>2, <2>4, DirectIs
  <2> DEFINE direct == {Coordinates(d) : d \in {x \in Range(deps) : x.direct}}
             declared == {Coordinates(r) :
                            r \in {x \in {doc.entries[i].real : i \in InSight(doc)} : x.declared = "plainly"}}
  <2>7. ASSUME NEW c
        PROVE  c \in direct <=> \E k \in DOMAIN deps : deps[k].direct /\ Coordinates(deps[k]) = c
    BY Zenon DEF Range
  <2>8. ASSUME NEW c
        PROVE  c \in declared <=>
               \E i \in InSight(doc) :
                 doc.entries[i].real.declared = "plainly" /\ Coordinates(doc.entries[i].real) = c
    BY Zenon
  <2> HIDE DEF direct, declared
  <2>9. ASSUME NEW c \in declared PROVE c \in direct
    <3>1. PICK i \in InSight(doc) :
            doc.entries[i].real.declared = "plainly" /\ Coordinates(doc.entries[i].real) = c
      BY <2>8, <2>9
    <3>2. \E k \in DOMAIN deps : deps[k].direct /\ Coordinates(deps[k]) = Coordinates(doc.entries[i].real)
      BY <2>6, <3>1, Zenon DEF DirectAsManifest
    <3> QED
      BY <2>7, <3>1, <3>2, Zenon
  <2>10. ASSUME doc.format \in Telling, NEW c \in direct PROVE c \in declared
    <3>1. PICK k \in DOMAIN deps : deps[k].direct /\ Coordinates(deps[k]) = c
      BY <2>7, <2>10, Zenon
    <3>2. PICK i \in InSight(doc) :
            /\ doc.entries[i].real.declared = "plainly"
            /\ Coordinates(deps[k]) = Coordinates(doc.entries[i].real)
      BY <2>6, <2>10, <3>1, Zenon DEF DirectAsManifest
    <3> QED
      BY <2>8, <3>1, <3>2
  <2>11. /\ direct = {Coordinates(d) : d \in {x \in Deps : x.direct}}
         /\ declared = {Coordinates(r) : r \in {x \in RealSeen : x.declared = "plainly"}}
    BY <2>2, <2>3, <2>5, Zenon DEF Deps, RealSeen, direct, declared
  <2>12. Document.format \in Telling => direct \subseteq declared
    BY <2>2, <2>10
  <2> QED
    BY <2>9, <2>11, <2>12, Zenon DEF DirectIsDeclared, Telling
<1> QED
  BY <1>1, Invariance, PTL
=============================================================================
