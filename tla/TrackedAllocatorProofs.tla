------------------------ MODULE TrackedAllocatorProofs ------------------------
(***************************************************************************)
(* Theorems about TrackedAllocator.tla, for any number of threads, blocks  *)
(* and types, any sizes and counts, and any bound of the statistics.       *)
(*                                                                         *)
(* The first part is what they need of sums: SumFunction is a recursion    *)
(* over the subsets of its domain, and what it computes is proved by       *)
(* taking a smallest set for which it would compute something else.        *)
(***************************************************************************)
EXTENDS TrackedAllocator, FiniteSetTheorems, TLAPS

-----------------------------------------------------------------------------
(* Sums.                                                                   *)

Any(s) == CHOOSE x \in s : TRUE

(* g is the recursive function inside a sum of f, over the sets of D. *)
Sums(f, D, g) == g = [s \in D |-> IF s = {} THEN 0 ELSE f[Any(s)] + g[s \ {Any(s)}]]

LEMMA SumIsLast == ASSUME NEW f, NEW S
  PROVE SumFunctionOnSet(f, S) = (CHOOSE g : Sums(f, SUBSET S, g))[S]
BY DEF SumFunctionOnSet, FoldFunctionOnSet, MapThenFoldSet, Sums, Any

LEMMA MinimalSet ==
  ASSUME NEW S, IsFiniteSet(S), NEW F, \A s \in F : s \in SUBSET S, NEW e \in F
  PROVE  \E U \in F : \A V \in F : V \subseteq U => V = U
<1>1. F \subseteq FiniteSubsetsOf(S)
  BY FS_Subset DEF FiniteSubsetsOf
<1>2. IsWellFoundedOn(StrictSubsetOrdering(S), FiniteSubsetsOf(S))
  BY FS_StrictSubsetOrderingWellFounded
<1>3. PICK U \in F : \A V \in F : ~(<<V, U>> \in StrictSubsetOrdering(S))
  BY <1>1, <1>2, WFMin
<1> QED BY <1>3 DEF StrictSubsetOrdering

LEMMA SmallestNumber ==
  ASSUME NEW N \in SUBSET Nat, N # {}
  PROVE  \E n \in N : \A m \in N : n <= m
<1>1. PICK k \in N : TRUE
  OBVIOUS
<1> DEFINE F == {1..m : m \in {n \in N : n <= k}}
<1>2. IsFiniteSet(1..k)
  BY FS_Interval
<1>3. (\A s \in F : s \in SUBSET (1..k)) /\ 1..k \in F
  BY <1>1
<1>4. PICK U \in F : \A V \in F : V \subseteq U => V = U
  <2> HIDE DEF F
  <2> QED BY <1>2, <1>3, MinimalSet
<1>5. PICK n \in N : n <= k /\ U = 1..n
  BY <1>4
<1>6. ASSUME NEW m \in N, m < n PROVE FALSE
  <2>1. 1..m \in F /\ 1..m \subseteq U
    BY <1>5, <1>6
  <2>2. 1..m = 1..n
    BY <2>1, <1>4, <1>5
  <2> QED BY <2>2, <1>6
<1> QED BY <1>5, <1>6

LEMMA SumDefined ==
  ASSUME NEW f, NEW S, IsFiniteSet(S)
  PROVE  \E g : Sums(f, SUBSET S, g)
<1> DEFINE Upto(n) == {s \in SUBSET S : Cardinality(s) <= n}
           Missing == {n \in Nat : ~ \E g : Sums(f, Upto(n), g)}
<1>0. \A s \in SUBSET S : Cardinality(s) \in Nat /\ Cardinality(s) <= Cardinality(S)
  BY FS_Subset, FS_CardinalityType
<1>e. \A s \in SUBSET S : (Cardinality(s) = 0) <=> (s = {})
  BY FS_Subset, FS_EmptySet
<1>r. ASSUME NEW s \in SUBSET S, s # {}
      PROVE  Cardinality(s \ {Any(s)}) = Cardinality(s) - 1
  <2>1. IsFiniteSet(s)
    BY FS_Subset
  <2>2. Any(s) \in s
    BY <1>r DEF Any
  <2> QED BY <2>1, <2>2, FS_RemoveElement
<1>1. Missing = {}
  <2>1. SUFFICES ASSUME NEW n \in Missing, \A m \in Missing : n <= m PROVE FALSE
    <3>1. Missing \in SUBSET Nat
      OBVIOUS
    <3> HIDE DEF Missing
    <3> QED BY <3>1, SmallestNumber
  <2>2. CASE n = 0
    <3> DEFINE g == [s \in Upto(0) |-> 0]
    <3>1. \A s \in Upto(0) : s = {}
      BY <1>0, <1>e
    <3>2. Sums(f, Upto(0), g)
      BY <3>1 DEF Sums
    <3> QED BY <2>2, <3>2
  <2>3. CASE n # 0
    <3>1. n - 1 \in Nat /\ n - 1 \notin Missing
      <4>1. Missing \subseteq Nat
        OBVIOUS
      <4> HIDE DEF Missing
      <4> QED BY <2>1, <2>3, <4>1
    <3>2. PICK g : Sums(f, Upto(n - 1), g)
      BY <3>1
    <3> DEFINE h == [s \in Upto(n) |-> IF s = {} THEN 0 ELSE f[Any(s)] + g[s \ {Any(s)}]]
    <3>3. \A s \in Upto(n - 1) : h[s] = g[s]
      <4>1. \A s \in Upto(n - 1) : s \in Upto(n)
        BY <1>0
      <4> QED BY <3>2, <4>1 DEF Sums
    <3>4. \A s \in Upto(n) : s # {} => s \ {Any(s)} \in Upto(n - 1)
      BY <1>0, <1>r
    <3>5. Sums(f, Upto(n), h)
      BY <3>3, <3>4 DEF Sums
    <3> QED BY <3>5
  <2> QED BY <2>2, <2>3
<1>2. Cardinality(S) \in Nat /\ Upto(Cardinality(S)) = SUBSET S
  BY <1>0
<1>3. \E g : Sums(f, Upto(Cardinality(S)), g)
  BY <1>1, <1>2
<1> QED BY <1>2, <1>3

(* A sum of f over S, by the recursion that computes it. *)
LEMMA SumComputed ==
  ASSUME NEW f, NEW S, IsFiniteSet(S)
  PROVE  \E g : Sums(f, SUBSET S, g) /\ SumFunctionOnSet(f, S) = g[S]
BY SumDefined, SumIsLast

LEMMA SumsType ==
  ASSUME NEW S, IsFiniteSet(S), NEW f, \A x \in S : f[x] \in Nat, NEW g, Sums(f, SUBSET S, g)
  PROVE  \A s \in SUBSET S : g[s] \in Nat
<1> DEFINE Bad == {s \in SUBSET S : g[s] \notin Nat}
<1>1. ASSUME NEW e \in Bad PROVE \E U \in Bad : \A V \in Bad : V \subseteq U => V = U
  <2>1. \A s \in Bad : s \in SUBSET S
    OBVIOUS
  <2> HIDE DEF Bad
  <2> QED BY <1>1, <2>1, MinimalSet
<1>2. ASSUME NEW U \in Bad, \A V \in Bad : V \subseteq U => V = U PROVE FALSE
  <2>1. g[U] = IF U = {} THEN 0 ELSE f[Any(U)] + g[U \ {Any(U)}]
    BY DEF Sums
  <2>2. U # {} => Any(U) \in U
    BY DEF Any
  <2>3. U # {} => g[U \ {Any(U)}] \in Nat
    BY <1>2, <2>2
  <2> QED BY <2>1, <2>2, <2>3
<1> QED BY <1>1, <1>2

(* Equal values have equal sums, whatever they are taken from. *)
LEMMA SumsAgree ==
  ASSUME NEW S, IsFiniteSet(S), NEW D, NEW E, SUBSET S \subseteq D, SUBSET S \subseteq E,
         NEW f, NEW h, \A x \in S : f[x] = h[x],
         NEW g, Sums(f, D, g), NEW k, Sums(h, E, k)
  PROVE  \A s \in SUBSET S : g[s] = k[s]
<1> DEFINE Bad == {s \in SUBSET S : g[s] # k[s]}
<1>1. ASSUME NEW e \in Bad PROVE \E U \in Bad : \A V \in Bad : V \subseteq U => V = U
  <2>1. \A s \in Bad : s \in SUBSET S
    OBVIOUS
  <2> HIDE DEF Bad
  <2> QED BY <1>1, <2>1, MinimalSet
<1>2. ASSUME NEW U \in Bad, \A V \in Bad : V \subseteq U => V = U PROVE FALSE
  <2>1. /\ g[U] = IF U = {} THEN 0 ELSE f[Any(U)] + g[U \ {Any(U)}]
        /\ k[U] = IF U = {} THEN 0 ELSE h[Any(U)] + k[U \ {Any(U)}]
    BY DEF Sums
  <2>2. U # {} => Any(U) \in U
    BY DEF Any
  <2>3. U # {} => g[U \ {Any(U)}] = k[U \ {Any(U)}]
    BY <1>2, <2>2
  <2> QED BY <2>1, <2>2, <2>3
<1> QED BY <1>1, <1>2

Takes(f, g, s, x) == g[s] = f[x] + g[s \ {x}]

(* The order in which a sum is taken does not matter. *)
LEMMA SumsAny ==
  ASSUME NEW S, IsFiniteSet(S), NEW f, \A x \in S : f[x] \in Nat, NEW g, Sums(f, SUBSET S, g)
  PROVE  \A s \in SUBSET S : \A x \in s : Takes(f, g, s, x)
<1> DEFINE Bad == {s \in SUBSET S : \E x \in s : g[s] # f[x] + g[s \ {x}]}
<1>1. ASSUME NEW e \in Bad PROVE \E U \in Bad : \A V \in Bad : V \subseteq U => V = U
  <2>1. \A s \in Bad : s \in SUBSET S
    OBVIOUS
  <2> HIDE DEF Bad
  <2> QED BY <1>1, <2>1, MinimalSet
<1>2. ASSUME NEW U \in Bad, \A V \in Bad : V \subseteq U => V = U PROVE FALSE
  <2>1. PICK x \in U : g[U] # f[x] + g[U \ {x}]
    OBVIOUS
  <2> DEFINE y == Any(U)
  <2>2. y \in U /\ g[U] = f[y] + g[U \ {y}]
    BY DEF Sums, Any
  <2> HIDE DEF y
  <2>3. x # y
    BY <2>1, <2>2
  <2>4. g[U \ {y}] = f[x] + g[(U \ {y}) \ {x}]
    <3>1. U \ {y} \notin Bad
      BY <1>2, <2>2
    <3> QED BY <2>2, <2>3, <3>1
  <2>5. g[U \ {x}] = f[y] + g[(U \ {x}) \ {y}]
    <3>1. U \ {x} \notin Bad
      BY <1>2
    <3> QED BY <2>2, <2>3, <3>1
  <2>6. (U \ {x}) \ {y} = (U \ {y}) \ {x}
    OBVIOUS
  <2>7. f[x] \in Nat /\ f[y] \in Nat /\ g[(U \ {x}) \ {y}] \in Nat
    BY <2>2, SumsType
  <2>8. g[U] = f[y] + (f[x] + g[(U \ {x}) \ {y}])
    BY <2>2, <2>4, <2>6
  <2>9. f[x] + g[U \ {x}] = f[x] + (f[y] + g[(U \ {x}) \ {y}])
    BY <2>5
  <2> QED BY <2>1, <2>7, <2>8, <2>9
<1> QED BY <1>1, <1>2 DEF Takes

(* Sums of integers over finite sets. *)
LEMMA SumType ==
  ASSUME NEW S, IsFiniteSet(S), NEW f, \A x \in S : f[x] \in Nat
  PROVE  SumFunctionOnSet(f, S) \in Nat
<1>1. PICK g : Sums(f, SUBSET S, g) /\ SumFunctionOnSet(f, S) = g[S]
  BY SumComputed
<1> QED BY <1>1, SumsType

LEMMA SumEmpty ==
  ASSUME NEW f
  PROVE  SumFunctionOnSet(f, {}) = 0
<1>1. PICK g : Sums(f, SUBSET {}, g) /\ SumFunctionOnSet(f, {}) = g[{}]
  BY SumComputed, FS_EmptySet
<1> QED BY <1>1 DEF Sums

LEMMA SumSame ==
  ASSUME NEW S, IsFiniteSet(S), NEW f, NEW h, \A x \in S : f[x] = h[x]
  PROVE  SumFunctionOnSet(f, S) = SumFunctionOnSet(h, S)
<1>1. PICK g : Sums(f, SUBSET S, g) /\ SumFunctionOnSet(f, S) = g[S]
  BY SumComputed
<1>2. PICK k : Sums(h, SUBSET S, k) /\ SumFunctionOnSet(h, S) = k[S]
  BY SumComputed
<1> QED BY <1>1, <1>2, SumsAgree

LEMMA SumWithout ==
  ASSUME NEW S, IsFiniteSet(S), NEW f, \A x \in S : f[x] \in Nat, NEW x \in S
  PROVE  SumFunctionOnSet(f, S) = f[x] + SumFunctionOnSet(f, S \ {x})
<1> DEFINE R == S \ {x}
<1>0. IsFiniteSet(R) /\ R \in SUBSET S /\ SUBSET R \subseteq SUBSET S
  BY FS_Subset
<1>1. PICK g : Sums(f, SUBSET S, g) /\ SumFunctionOnSet(f, S) = g[S]
  BY SumComputed
<1> HIDE DEF R
<1>2. PICK k : Sums(f, SUBSET R, k) /\ SumFunctionOnSet(f, R) = k[R]
  BY <1>0, SumComputed
<1>3. g[R] = k[R]
  BY <1>0, <1>1, <1>2, SumsAgree
<1>4. g[S] = f[x] + g[R]
  <2>1. Takes(f, g, S, x)
    BY <1>1, SumsAny
  <2> QED BY <2>1 DEF R, Takes
<1> QED BY <1>1, <1>2, <1>3, <1>4 DEF R
(* The sum of a function, and of the same function with one argument less. *)
LEMMA TotalType ==
  ASSUME NEW S, IsFiniteSet(S), NEW f \in [S -> Nat]
  PROVE  SumFunction(f) \in Nat
<1>1. DOMAIN f = S /\ \A x \in S : f[x] \in Nat
  OBVIOUS
<1> QED BY <1>1, SumType DEF SumFunction

LEMMA TotalWithout ==
  ASSUME NEW S, IsFiniteSet(S), NEW f \in [S -> Nat], NEW x \in S,
         NEW h, h = [y \in S \ {x} |-> f[y]]
  PROVE  SumFunction(f) = f[x] + SumFunction(h)
<1>1. DOMAIN f = S /\ \A y \in S : f[y] \in Nat
  OBVIOUS
<1>2. DOMAIN h = S \ {x} /\ \A y \in S \ {x} : h[y] = f[y]
  OBVIOUS
<1>3. IsFiniteSet(S \ {x})
  BY FS_RemoveElement
<1>4. SumFunctionOnSet(f, S \ {x}) = SumFunctionOnSet(h, S \ {x})
  BY <1>2, <1>3, SumSame
<1>5. SumFunctionOnSet(f, S) = f[x] + SumFunctionOnSet(f, S \ {x})
  BY <1>1, SumWithout
<1> QED BY <1>1, <1>2, <1>4, <1>5 DEF SumFunction

-----------------------------------------------------------------------------
(* The invariant.                                                          *)

(* Whoever frees a block says the usage it was allocated for, and all its *)
(* bytes but those that a move to a base type cut off.                     *)
HandleInv ==
  \A b \in Blocks : handle[b] # None =>
    /\ block[b] # None /\ block[b].usage = UsageOf(handle[b])
    /\ FreeRequest(handle[b]).size + Sliced(handle[b]) = block[b].size
    /\ Sliced(handle[b]) \in Nat

(* A block being made into an object is held by nobody else.               *)
OpInv ==
  \A t \in Threads : op[t] # Idle =>
    /\ op[t].request = AllocateRequest(op[t].handle)
    /\ op[t].handle.made_as = op[t].handle.type
    /\ op[t].step = "construct" =>
         /\ op[t].at \in Blocks
         /\ block[op[t].at] = op[t].request
         /\ handle[op[t].at] = None
         /\ \A s \in Threads \ {t} :
              op[s] # Idle /\ op[s].step = "construct" => op[s].at # op[t].at

AllocatorInv == TypeOK /\ StatsExact /\ HandleInv /\ OpInv

-----------------------------------------------------------------------------
(* What is counted, of a state or of the next one.                         *)

OpState == [step : {"allocate", "construct"}, request : Request, handle : Handle,
            at : Blocks \cup {None}]

Making(o, u) == {t \in Threads : o[t] # Idle /\ o[t].request.usage = u}
MakingBytes(o, u) == SumFunction([t \in Making(o, u) |-> o[t].request.size])

Holding(h, bl, u) == {b \in Blocks : h[b] # None /\ bl[b].usage = u}
HoldingBytes(h, bl, u) == SumFunction([b \in Holding(h, bl, u) |-> bl[b].size])

LEMMA MakingType ==
  ASSUME NEW o \in [Threads -> {Idle} \cup OpState], NEW u
  PROVE  /\ IsFiniteSet(Making(o, u)) /\ Cardinality(Making(o, u)) \in Nat
         /\ [t \in Making(o, u) |-> o[t].request.size] \in [Making(o, u) -> Nat]
         /\ MakingBytes(o, u) \in Nat
<1>1. IsFiniteSet(Making(o, u))
  BY AllocatorAssumption, FS_Subset DEF Making
<1>2. [t \in Making(o, u) |-> o[t].request.size] \in [Making(o, u) -> Nat]
  BY DEF Making, OpState, Request
<1>3. Cardinality(Making(o, u)) \in Nat
  BY <1>1, FS_CardinalityType
<1>4. MakingBytes(o, u) \in Nat
  BY <1>1, <1>2, TotalType DEF MakingBytes
<1> QED BY <1>1, <1>2, <1>3, <1>4

(* An allocation that is over no longer counts, where it did. *)
MakingOneLess(o, p, u, r) ==
  /\ r.usage = u => /\ Cardinality(Making(o, u)) = Cardinality(Making(p, u)) + 1
                    /\ MakingBytes(o, u) = r.size + MakingBytes(p, u)
  /\ r.usage # u => /\ Cardinality(Making(o, u)) = Cardinality(Making(p, u))
                    /\ MakingBytes(o, u) = MakingBytes(p, u)

LEMMA MakingLess ==
  ASSUME NEW o \in [Threads -> {Idle} \cup OpState], NEW t \in Threads, o[t] # Idle,
         NEW p, \A s \in Threads \ {t} : p[s] = o[s], p[t] = Idle, NEW u
  PROVE  MakingOneLess(o, p, u, o[t].request)
<1>1. ASSUME o[t].request.usage # u
      PROVE  Making(p, u) = Making(o, u) /\ \A s \in Making(p, u) : p[s] = o[s]
  BY <1>1 DEF Making
<1>2. ASSUME o[t].request.usage # u
      PROVE  MakingBytes(o, u) = MakingBytes(p, u)
  BY <1>1, <1>2 DEF MakingBytes
<1>3. ASSUME o[t].request.usage = u
      PROVE  /\ t \in Making(o, u) /\ Making(p, u) = Making(o, u) \ {t}
             /\ \A s \in Making(p, u) : p[s] = o[s]
  BY <1>3 DEF Making
<1>4. ASSUME o[t].request.usage = u
      PROVE  Cardinality(Making(o, u)) = Cardinality(Making(p, u)) + 1
  <2>1. IsFiniteSet(Making(o, u)) /\ Cardinality(Making(o, u)) \in Nat
    BY MakingType
  <2>2. t \in Making(o, u) /\ Making(p, u) = Making(o, u) \ {t}
    BY <1>3, <1>4
  <2>3. Cardinality(Making(o, u) \ {t}) = Cardinality(Making(o, u)) - 1
    BY <2>1, <2>2, FS_RemoveElement
  <2> QED BY <2>1, <2>2, <2>3
<1>5. ASSUME o[t].request.usage = u
      PROVE  MakingBytes(o, u) = o[t].request.size + MakingBytes(p, u)
  <2> DEFINE f == [s \in Making(o, u) |-> o[s].request.size]
             h == [s \in Making(p, u) |-> p[s].request.size]
  <2>0. Making(p, u) = Making(o, u) \ {t} /\ \A s \in Making(p, u) : p[s] = o[s]
    BY <1>3, <1>5
  <2>1. h = [s \in Making(o, u) \ {t} |-> f[s]]
    BY <2>0
  <2>2. f \in [Making(o, u) -> Nat] /\ f[t] = o[t].request.size
    BY <1>3, <1>5, MakingType
  <2>3. IsFiniteSet(Making(o, u)) /\ t \in Making(o, u)
    BY <1>3, <1>5, MakingType
  <2>4. MakingBytes(o, u) = SumFunction(f) /\ MakingBytes(p, u) = SumFunction(h)
    BY DEF MakingBytes
  <2> DEFINE M == Making(o, u)
  <2>5. f \in [M -> Nat] /\ h = [s \in M \ {t} |-> f[s]] /\ t \in M /\ IsFiniteSet(M)
    BY <2>1, <2>2, <2>3
  <2> HIDE DEF f, h, M
  <2>6. SumFunction(f) = f[t] + SumFunction(h)
    <3>1. f \in [M -> Nat]
      BY <2>5
    <3>2. h = [s \in M \ {t} |-> f[s]]
      BY <2>5
    <3>3. t \in M /\ IsFiniteSet(M)
      BY <2>5
    <3> QED BY <3>1, <3>2, <3>3, TotalWithout
  <2> QED BY <2>2, <2>4, <2>6
<1> QED BY <1>1, <1>2, <1>3, <1>4, <1>5 DEF MakingOneLess

(* What is held was allocated. *)
HeldIsAllocated(h, bl) == \A b \in Blocks : h[b] # None => bl[b] \in Request

LEMMA HoldingType ==
  ASSUME NEW h, NEW bl, HeldIsAllocated(h, bl), NEW u
  PROVE  /\ IsFiniteSet(Holding(h, bl, u)) /\ Cardinality(Holding(h, bl, u)) \in Nat
         /\ [b \in Holding(h, bl, u) |-> bl[b].size] \in [Holding(h, bl, u) -> Nat]
         /\ HoldingBytes(h, bl, u) \in Nat
<1>1. IsFiniteSet(Holding(h, bl, u))
  BY AllocatorAssumption, FS_Subset DEF Holding
<1>2. [b \in Holding(h, bl, u) |-> bl[b].size] \in [Holding(h, bl, u) -> Nat]
  BY DEF Holding, HeldIsAllocated, Request
<1>3. Cardinality(Holding(h, bl, u)) \in Nat
  BY <1>1, FS_CardinalityType
<1>4. HoldingBytes(h, bl, u) \in Nat
  BY <1>1, <1>2, TotalType DEF HoldingBytes
<1> QED BY <1>1, <1>2, <1>3, <1>4

LEMMA HoldingSame ==
  ASSUME NEW h, NEW bl, NEW k, NEW bk, NEW u,
         \A b \in Blocks : h[b] # None <=> k[b] # None,
         \A b \in Blocks : h[b] # None => bk[b] = bl[b]
  PROVE  /\ Cardinality(Holding(h, bl, u)) = Cardinality(Holding(k, bk, u))
         /\ HoldingBytes(h, bl, u) = HoldingBytes(k, bk, u)
<1>1. Holding(h, bl, u) = Holding(k, bk, u) /\ \A b \in Holding(h, bl, u) : bk[b] = bl[b]
  BY DEF Holding
<1> QED BY <1>1 DEF HoldingBytes

(* A block that is freed no longer counts, where it did. *)
HoldingOneLess(h, bl, k, bk, u, r) ==
  /\ r.usage = u => /\ Cardinality(Holding(h, bl, u)) = Cardinality(Holding(k, bk, u)) + 1
                    /\ HoldingBytes(h, bl, u) = r.size + HoldingBytes(k, bk, u)
  /\ r.usage # u => /\ Cardinality(Holding(h, bl, u)) = Cardinality(Holding(k, bk, u))
                    /\ HoldingBytes(h, bl, u) = HoldingBytes(k, bk, u)

LEMMA HoldingLess ==
  ASSUME NEW h, NEW bl, HeldIsAllocated(h, bl), NEW b \in Blocks, h[b] # None, NEW u,
         NEW k, \A c \in Blocks \ {b} : k[c] = h[c], k[b] = None,
         NEW bk, \A c \in Blocks \ {b} : bk[c] = bl[c]
  PROVE  HoldingOneLess(h, bl, k, bk, u, bl[b])
<1>1. \A c \in Holding(k, bk, u) : bk[c] = bl[c]
  BY DEF Holding
<1>2. ASSUME bl[b].usage # u
      PROVE  /\ Cardinality(Holding(h, bl, u)) = Cardinality(Holding(k, bk, u))
             /\ HoldingBytes(h, bl, u) = HoldingBytes(k, bk, u)
  <2>1. Holding(k, bk, u) = Holding(h, bl, u)
    BY <1>2 DEF Holding
  <2> QED BY <1>1, <2>1 DEF HoldingBytes
<1>3. ASSUME bl[b].usage = u
      PROVE  b \in Holding(h, bl, u) /\ Holding(k, bk, u) = Holding(h, bl, u) \ {b}
  BY <1>3 DEF Holding
<1>4. ASSUME bl[b].usage = u
      PROVE  Cardinality(Holding(h, bl, u)) = Cardinality(Holding(k, bk, u)) + 1
  <2>1. IsFiniteSet(Holding(h, bl, u)) /\ Cardinality(Holding(h, bl, u)) \in Nat
    BY HoldingType
  <2>2. b \in Holding(h, bl, u) /\ Holding(k, bk, u) = Holding(h, bl, u) \ {b}
    BY <1>3, <1>4
  <2>3. Cardinality(Holding(h, bl, u) \ {b}) = Cardinality(Holding(h, bl, u)) - 1
    BY <2>1, <2>2, FS_RemoveElement
  <2> QED BY <2>1, <2>2, <2>3
<1>5. ASSUME bl[b].usage = u
      PROVE  HoldingBytes(h, bl, u) = bl[b].size + HoldingBytes(k, bk, u)
  <2> DEFINE f == [c \in Holding(h, bl, u) |-> bl[c].size]
             g == [c \in Holding(k, bk, u) |-> bk[c].size]
  <2>1. g = [c \in Holding(h, bl, u) \ {b} |-> f[c]]
    BY <1>1, <1>3, <1>5
  <2>2. f \in [Holding(h, bl, u) -> Nat] /\ f[b] = bl[b].size
    BY <1>3, <1>5, HoldingType
  <2>3. IsFiniteSet(Holding(h, bl, u)) /\ b \in Holding(h, bl, u)
    BY <1>3, <1>5, HoldingType
  <2>4. HoldingBytes(h, bl, u) = SumFunction(f) /\ HoldingBytes(k, bk, u) = SumFunction(g)
    BY DEF HoldingBytes
  <2> HIDE DEF f, g
  <2>5. SumFunction(f) = f[b] + SumFunction(g)
    BY <2>1, <2>2, <2>3, TotalWithout
  <2> QED BY <2>2, <2>4, <2>5
<1> QED BY <1>2, <1>3, <1>4, <1>5 DEF HoldingOneLess

(* StatsExact, field by field: of statistics that could be below zero.     *)
IntStats == [Usages -> [count : Int, bytes : Int]]
NatStats == [Usages -> [count : Nat, bytes : Nat]]

Exact(st, h, bl, o, ls) ==
  \A u \in Usages :
    /\ st[u].count = Cardinality(Holding(h, bl, u)) + Cardinality(Making(o, u)) + ls[u].count
    /\ st[u].bytes = HoldingBytes(h, bl, u) + MakingBytes(o, u) + ls[u].bytes

LEMMA StatsFields ==
  /\ StatsExact => Exact(by_usage, handle, block, op, lost)
  /\ by_usage \in IntStats /\ Exact(by_usage, handle, block, op, lost) => StatsExact
<1>1. \A u : /\ Held(u) = Holding(handle, block, u) /\ BytesHeld(u) = HoldingBytes(handle, block, u)
             /\ InProgress(u) = Making(op, u) /\ BytesInProgress(u) = MakingBytes(op, u)
  BY DEF Held, Holding, BytesHeld, HoldingBytes, InProgress, Making, BytesInProgress, MakingBytes
<1>2. ASSUME by_usage \in IntStats, NEW u \in Usages
      PROVE  by_usage[u] = [count |-> by_usage[u].count, bytes |-> by_usage[u].bytes]
  BY <1>2 DEF IntStats
<1>3. StatsExact => Exact(by_usage, handle, block, op, lost)
  <2> SUFFICES ASSUME StatsExact, NEW u \in Usages
               PROVE  /\ by_usage[u].count = Cardinality(Held(u)) + Cardinality(InProgress(u))
                                               + lost[u].count
                      /\ by_usage[u].bytes = BytesHeld(u) + BytesInProgress(u) + lost[u].bytes
    BY <1>1 DEF Exact
  <2>1. by_usage[u] =
          [count |-> Cardinality(Held(u)) + Cardinality(InProgress(u)) + lost[u].count,
           bytes |-> BytesHeld(u) + BytesInProgress(u) + lost[u].bytes]
    BY DEF StatsExact
  <2> QED BY <2>1
<1>4. by_usage \in IntStats /\ Exact(by_usage, handle, block, op, lost) => StatsExact
  BY <1>1, <1>2 DEF StatsExact, Exact
<1> QED BY <1>3, <1>4

LEMMA StatsFieldsNext ==
  by_usage' \in IntStats /\ Exact(by_usage', handle', block', op', lost') => StatsExact'
<1>1. by_usage \in IntStats /\ Exact(by_usage, handle, block, op, lost) => StatsExact
  BY StatsFields
<1>2. (by_usage \in IntStats /\ Exact(by_usage, handle, block, op, lost) => StatsExact)'
  BY <1>1, PTL
<1> QED BY <1>2

(* What Count and Uncount do to the statistics.                            *)
LEMMA Changed ==
  ASSUME NEW st \in IntStats, NEW w \in Usages, NEW c \in Int, NEW n \in Int,
         NEW to, to = [st EXCEPT ![w] = [count |-> c, bytes |-> n]]
  PROVE  /\ to \in IntStats
         /\ to[w].count = c /\ to[w].bytes = n
         /\ \A u \in Usages : u # w => to[u] = st[u]
BY DEF IntStats

LEMMA CountFields ==
  ASSUME NEW st \in IntStats, NEW r \in Request
  PROVE  /\ Count(st, r) \in IntStats
         /\ Count(st, r)[r.usage].count = st[r.usage].count + 1
         /\ Count(st, r)[r.usage].bytes = st[r.usage].bytes + r.size
         /\ \A u \in Usages : u # r.usage => Count(st, r)[u] = st[u]
<1>1. r.usage \in Usages /\ r.size \in Nat
  BY DEF Request
<1>2. st[r.usage].count \in Int /\ st[r.usage].bytes \in Int
  BY <1>1 DEF IntStats
<1>3. st[r.usage].count + 1 \in Int /\ st[r.usage].bytes + r.size \in Int
  BY <1>1, <1>2
<1> QED BY <1>1, <1>3, Changed DEF Count

LEMMA CountNat ==
  ASSUME NEW st \in NatStats, NEW r \in Request
  PROVE  Count(st, r) \in NatStats
<1>1. r.usage \in Usages /\ r.size \in Nat
  BY DEF Request
<1>2. st[r.usage].count + 1 \in Nat /\ st[r.usage].bytes + r.size \in Nat
  BY <1>1 DEF NatStats
<1> QED BY <1>1, <1>2 DEF NatStats, Count

LEMMA UncountFields ==
  ASSUME NEW st \in IntStats, NEW r \in Request
  PROVE  /\ Uncount(st, r) \in IntStats
         /\ Uncount(st, r)[r.usage].count = st[r.usage].count - 1
         /\ Uncount(st, r)[r.usage].bytes = st[r.usage].bytes - r.size
         /\ \A u \in Usages : u # r.usage => Uncount(st, r)[u] = st[u]
<1>1. r.usage \in Usages /\ r.size \in Nat
  BY DEF Request
<1>2. st[r.usage].count \in Int /\ st[r.usage].bytes \in Int
  BY <1>1 DEF IntStats
<1>3. st[r.usage].count - 1 \in Int /\ st[r.usage].bytes - r.size \in Int
  BY <1>1, <1>2
<1> QED BY <1>1, <1>3, Changed DEF Uncount

(* sizeof times a number, and no less for a larger type.                   *)
LEMMA TimesType ==
  ASSUME NEW m \in Nat, NEW n \in Nat
  PROVE  m * n \in Nat
OBVIOUS

LEMMA TimesMonotone ==
  ASSUME NEW m \in Nat, NEW n \in Nat, NEW k \in Nat, m <= n
  PROVE  m * k <= n * k
OBVIOUS

LEMMA Requests ==
  ASSUME NEW h \in Handle
  PROVE  /\ AllocateRequest(h) \in Request
         /\ FreeRequest(h) = AllocateRequest(h)
         /\ FreeRequest(h).usage = UsageOf(h)
         /\ h.made_as = h.type => Sliced(h) = 0
<1>1. SizeOf[h.type] \in Nat /\ h.count \in Nat
  BY AllocatorAssumption DEF Handle
<1>2. SizeOf[h.type] * h.count \in Nat
  BY <1>1, TimesType
<1>3. UsageOf(h) \in Usages
  BY DEF UsageOf, Usages
<1>4. FreeRequest(h) = AllocateRequest(h) /\ FreeRequest(h).usage = UsageOf(h)
  BY DEF FreeRequest, AllocateRequest
<1>5. h.made_as = h.type => Sliced(h) = 0
  BY <1>2 DEF Sliced
<1> QED BY <1>2, <1>3, <1>4, <1>5 DEF AllocateRequest, Request

(* A state's parts have their types.                                       *)
LEMMA Parts ==
  ASSUME TypeOK
  PROVE  /\ by_usage \in NatStats /\ lost \in NatStats
         /\ by_usage \in IntStats /\ lost \in IntStats
         /\ op \in [Threads -> {Idle} \cup OpState]
<1>1. by_usage \in NatStats /\ lost \in NatStats
  BY DEF TypeOK, NatStats
<1>2. NatStats \subseteq IntStats
  BY DEF NatStats, IntStats
<1>3. op \in [Threads -> {Idle} \cup OpState]
  BY DEF TypeOK, OpState
<1> QED BY <1>1, <1>2, <1>3

LEMMA OpParts ==
  ASSUME TypeOK, OpInv, NEW t \in Threads, op[t] # Idle
  PROVE  /\ op[t] \in OpState /\ op[t].request \in Request /\ op[t].handle \in Handle
         /\ op[t].request = AllocateRequest(op[t].handle)
         /\ op[t].request = FreeRequest(op[t].handle)
         /\ op[t].request.usage \in Usages /\ op[t].request.size \in Nat
<1>1. op[t] \in OpState
  BY Parts
<1>2. op[t].request \in Request /\ op[t].handle \in Handle
  BY <1>1 DEF OpState
<1>3. op[t].request = AllocateRequest(op[t].handle)
  BY DEF OpInv
<1>4. op[t].request.usage \in Usages /\ op[t].request.size \in Nat
  BY <1>2 DEF Request
<1> QED BY <1>1, <1>2, <1>3, <1>4, Requests

LEMMA HeldParts ==
  ASSUME TypeOK, HandleInv, NEW b \in Blocks, handle[b] # None
  PROVE  /\ block[b] \in Request /\ handle[b] \in Handle
         /\ FreeRequest(handle[b]) \in Request
         /\ FreeRequest(handle[b]).usage = block[b].usage
         /\ FreeRequest(handle[b]).size + Sliced(handle[b]) = block[b].size
         /\ FreeRequest(handle[b]).size \in Nat /\ block[b].size \in Nat
         /\ Sliced(handle[b]) \in Nat
<1>1. block[b] \in Request /\ handle[b] \in Handle
  BY DEF TypeOK, HandleInv
<1>2. FreeRequest(handle[b]) \in Request /\ FreeRequest(handle[b]).usage = UsageOf(handle[b])
  BY <1>1, Requests
<1>3. FreeRequest(handle[b]).size \in Nat /\ block[b].size \in Nat
  BY <1>1, <1>2 DEF Request
<1> QED BY <1>1, <1>2, <1>3 DEF HandleInv

LEMMA AllHeldAllocated ==
  ASSUME TypeOK, HandleInv
  PROVE  HeldIsAllocated(handle, block)
BY HeldParts DEF HeldIsAllocated

-----------------------------------------------------------------------------
(* The steps.                                                              *)

RestOK ==
  /\ block \in [Blocks -> Request \cup {None}]
  /\ handle \in [Blocks -> Handle \cup {None}]
  /\ lost \in NatStats
  /\ op \in [Threads -> {Idle} \cup OpState]

(* What a step is shown to keep: the invariant, but for a counter below    *)
(* zero ...                                                                *)
StepInv ==
  /\ RestOK /\ HandleInv /\ OpInv
  /\ by_usage \in IntStats /\ Exact(by_usage, handle, block, op, lost)

(* ... which exact statistics never are.                                   *)
LEMMA ExactIsNat ==
  StepInv => AllocatorInv
<1> SUFFICES ASSUME StepInv PROVE AllocatorInv
  OBVIOUS
<1>1. HeldIsAllocated(handle, block)
  BY DEF StepInv, RestOK, HandleInv, HeldIsAllocated
<1>2. ASSUME NEW u \in Usages
      PROVE  by_usage[u].count \in Nat /\ by_usage[u].bytes \in Nat
  <2>1. Cardinality(Holding(handle, block, u)) \in Nat /\ HoldingBytes(handle, block, u) \in Nat
    BY <1>1, HoldingType
  <2>2. Cardinality(Making(op, u)) \in Nat /\ MakingBytes(op, u) \in Nat
    BY MakingType DEF StepInv, RestOK
  <2>3. lost[u].count \in Nat /\ lost[u].bytes \in Nat
    BY DEF StepInv, RestOK, NatStats
  <2>4. /\ by_usage[u].count = Cardinality(Holding(handle, block, u))
                                 + Cardinality(Making(op, u)) + lost[u].count
        /\ by_usage[u].bytes = HoldingBytes(handle, block, u)
                                 + MakingBytes(op, u) + lost[u].bytes
    BY DEF StepInv, Exact
  <2> QED BY <2>1, <2>2, <2>3, <2>4
<1>3. by_usage \in NatStats
  <2>1. by_usage \in IntStats
    BY DEF StepInv
  <2> QED BY <1>2, <2>1 DEF IntStats, NatStats
<1>4. TypeOK
  BY <1>3 DEF StepInv, RestOK, TypeOK, NatStats, OpState
<1>5. StatsExact
  BY StatsFields DEF StepInv
<1> QED BY <1>4, <1>5 DEF StepInv, AllocatorInv

LEMMA ExactIsNatNext ==
  StepInv' => AllocatorInv'
BY ExactIsNat, PTL

(* What a step starts from.                                                *)
LEMMA Before ==
  ASSUME AllocatorInv
  PROVE  /\ TypeOK /\ HandleInv /\ OpInv /\ RestOK
         /\ by_usage \in IntStats /\ Exact(by_usage, handle, block, op, lost)
         /\ HeldIsAllocated(handle, block)
         /\ op \in [Threads -> {Idle} \cup OpState]
         /\ lost \in IntStats
<1>1. TypeOK /\ HandleInv /\ OpInv
  BY DEF AllocatorInv
<1>2. Exact(by_usage, handle, block, op, lost)
  BY StatsFields DEF AllocatorInv
<1>3. RestOK
  BY <1>1, Parts DEF RestOK, TypeOK
<1> QED BY <1>1, <1>2, <1>3, Parts, AllHeldAllocated

(* The numbers that the statistics are compared with.                      *)
LEMMA Numbers ==
  ASSUME NEW h, NEW bl, HeldIsAllocated(h, bl), NEW o \in [Threads -> {Idle} \cup OpState],
         NEW u \in Usages
  PROVE  /\ Cardinality(Holding(h, bl, u)) \in Nat /\ HoldingBytes(h, bl, u) \in Nat
         /\ Cardinality(Making(o, u)) \in Nat /\ MakingBytes(o, u) \in Nat
BY HoldingType, MakingType

LEMMA AllocateStep ==
  ASSUME AllocatorInv, NEW t \in Threads,
         NEW h \in [kind : Kinds, made_as : Types, type : Types, count : Counts], Allocate(t, h)
  PROVE  StepInv'
<1>0. /\ TypeOK /\ HandleInv /\ OpInv /\ RestOK
      /\ by_usage \in IntStats /\ Exact(by_usage, handle, block, op, lost)
      /\ HeldIsAllocated(handle, block)
  BY Before
<1> DEFINE r == AllocateRequest(h)
           new == [step |-> "allocate", request |-> r, handle |-> h, at |-> None]
<1>1. h \in Handle
  BY AllocatorAssumption DEF Handle
<1>2. r \in Request /\ r.usage \in Usages /\ r.size \in Nat
  BY <1>1, Requests DEF Request
<1> HIDE DEF r
<1>3. new \in OpState /\ new # Idle /\ new.request = r /\ new.handle = h /\ new.step # "construct"
  BY <1>1, <1>2 DEF OpState, Idle
<1>4. /\ by_usage' = Count(by_usage, r) /\ op' = [op EXCEPT ![t] = new] /\ op[t] = Idle
      /\ block' = block /\ handle' = handle /\ lost' = lost
      /\ h.made_as = h.type
  BY DEF Allocate, r
<1> HIDE DEF new
<1>5. op' \in [Threads -> {Idle} \cup OpState] /\ op'[t] = new
      /\ \A s \in Threads \ {t} : op'[s] = op[s]
  BY <1>0, <1>3, <1>4 DEF RestOK
<1>6. RestOK'
  BY <1>0, <1>4, <1>5 DEF RestOK
<1>7. HandleInv'
  BY <1>0, <1>4 DEF HandleInv
<1>8. OpInv'
  BY <1>0, <1>3, <1>4, <1>5 DEF OpInv, r
<1>9. by_usage' \in IntStats
  BY <1>0, <1>2, <1>4, CountFields
<1>10. ASSUME NEW u \in Usages
       PROVE  /\ by_usage'[u].count = Cardinality(Holding(handle', block', u))
                                        + Cardinality(Making(op', u)) + lost'[u].count
              /\ by_usage'[u].bytes = HoldingBytes(handle', block', u)
                                        + MakingBytes(op', u) + lost'[u].bytes
  <2>1. /\ by_usage[u].count = Cardinality(Holding(handle, block, u))
                                 + Cardinality(Making(op, u)) + lost[u].count
        /\ by_usage[u].bytes = HoldingBytes(handle, block, u)
                                 + MakingBytes(op, u) + lost[u].bytes
    BY <1>0 DEF Exact
  <2>2. /\ r.usage = u => /\ Cardinality(Making(op', u)) = Cardinality(Making(op, u)) + 1
                          /\ MakingBytes(op', u) = r.size + MakingBytes(op, u)
        /\ r.usage # u => /\ Cardinality(Making(op', u)) = Cardinality(Making(op, u))
                          /\ MakingBytes(op', u) = MakingBytes(op, u)
    <3>1. op'[t] # Idle /\ op[t] = Idle /\ op'[t].request = r
      BY <1>3, <1>4, <1>5
    <3>2. \A s \in Threads \ {t} : op[s] = op'[s]
      BY <1>5
    <3>3. op' \in [Threads -> {Idle} \cup OpState]
      BY <1>5
    <3>4. MakingOneLess(op', op, u, op'[t].request)
      BY <3>1, <3>2, <3>3, MakingLess
    <3> QED BY <3>1, <3>4 DEF MakingOneLess
  <2>3. /\ r.usage = u => /\ by_usage'[u].count = by_usage[u].count + 1
                          /\ by_usage'[u].bytes = by_usage[u].bytes + r.size
        /\ r.usage # u => by_usage'[u] = by_usage[u]
    BY <1>0, <1>2, <1>4, CountFields
  <2>4. /\ Cardinality(Holding(handle, block, u)) \in Nat /\ HoldingBytes(handle, block, u) \in Nat
        /\ Cardinality(Making(op, u)) \in Nat /\ MakingBytes(op, u) \in Nat
        /\ lost[u].count \in Nat /\ lost[u].bytes \in Nat
    BY <1>0, Numbers DEF RestOK, NatStats
  <2> QED BY <1>2, <1>4, <2>1, <2>2, <2>3, <2>4
<1> QED BY <1>6, <1>7, <1>8, <1>9, <1>10 DEF StepInv, Exact

(* An operation that ends, its request with it.                            *)
LEMMA OpEnds ==
  ASSUME TypeOK, OpInv, NEW t \in Threads, op[t] # Idle, op' = [op EXCEPT ![t] = Idle]
  PROVE  /\ op' \in [Threads -> {Idle} \cup OpState]
         /\ op'[t] = Idle /\ \A s \in Threads \ {t} : op'[s] = op[s]
         /\ \A u \in Usages : MakingOneLess(op, op', u, op[t].request)
<1>1. op \in [Threads -> {Idle} \cup OpState]
  BY Parts
<1>2. op' \in [Threads -> {Idle} \cup OpState]
  BY <1>1
<1>3. op'[t] = Idle /\ \A s \in Threads \ {t} : op'[s] = op[s]
  BY <1>1
<1>4. ASSUME NEW u \in Usages
      PROVE  MakingOneLess(op, op', u, op[t].request)
  BY <1>1, <1>3, MakingLess
<1> QED BY <1>2, <1>3, <1>4

(* The allocator returns a block that nobody holds and nobody makes.       *)
LEMMA AllocateReturnsStep ==
  ASSUME AllocatorInv, NEW t \in Threads, NEW b \in Blocks, Allocate_Returns(t, b)
  PROVE  StepInv'
<1>0. /\ TypeOK /\ HandleInv /\ OpInv /\ RestOK
      /\ by_usage \in IntStats /\ Exact(by_usage, handle, block, op, lost)
  BY Before
<1>1. /\ op[t].step = "allocate" /\ block[b] = None
      /\ block' = [block EXCEPT ![b] = op[t].request]
      /\ op' = [op EXCEPT ![t].step = "construct", ![t].at = b]
      /\ by_usage' = by_usage /\ handle' = handle /\ lost' = lost
  BY DEF Allocate_Returns
<1>2. op[t] # Idle
  BY <1>1 DEF Idle
<1>3. /\ op[t] \in OpState /\ op[t].request \in Request
      /\ op[t].request = AllocateRequest(op[t].handle)
      /\ op[t].handle.made_as = op[t].handle.type
  BY <1>0, <1>2, OpParts DEF OpInv
<1> DEFINE new == [op[t] EXCEPT !.step = "construct", !.at = b]
<1>4. /\ new \in OpState /\ new # Idle /\ new.request = op[t].request
      /\ new.handle = op[t].handle /\ new.step = "construct" /\ new.at = b
  BY <1>3 DEF OpState, Idle
<1>5. op' = [op EXCEPT ![t] = new]
  BY <1>0, <1>1 DEF RestOK
<1> HIDE DEF new
<1>6. /\ op' \in [Threads -> {Idle} \cup OpState]
      /\ op'[t] = new /\ \A s \in Threads \ {t} : op'[s] = op[s]
  BY <1>0, <1>4, <1>5 DEF RestOK
<1>7. /\ block' \in [Blocks -> Request \cup {None}] /\ block'[b] = op[t].request
      /\ \A c \in Blocks \ {b} : block'[c] = block[c]
  BY <1>0, <1>1, <1>3 DEF RestOK
<1>8. handle[b] = None
  BY <1>0, <1>1 DEF HandleInv
<1>9. \A s \in Threads : op[s] # Idle /\ op[s].step = "construct" => op[s].at # b
  <2> SUFFICES ASSUME NEW s \in Threads, op[s] # Idle, op[s].step = "construct", op[s].at = b
               PROVE  FALSE
    OBVIOUS
  <2>1. block[b] = op[s].request
    BY <1>0 DEF OpInv
  <2>2. op[s].request \in Request
    BY <1>0, OpParts
  <2> QED BY <1>1, <2>1, <2>2, AllocatorAssumption
<1>10. RestOK'
  BY <1>0, <1>1, <1>6, <1>7 DEF RestOK
<1>11. HandleInv'
  BY <1>0, <1>1, <1>7, <1>8 DEF HandleInv
<1>12. OpInv'
  <2>1. ASSUME NEW s \in Threads \ {t}, op'[s] # Idle
        PROVE  /\ op'[s].request = AllocateRequest(op'[s].handle)
               /\ op'[s].handle.made_as = op'[s].handle.type
               /\ op'[s].step = "construct" =>
                    /\ op'[s].at \in Blocks
                    /\ block'[op'[s].at] = op'[s].request
                    /\ handle'[op'[s].at] = None
                    /\ \A x \in Threads \ {s} :
                         op'[x] # Idle /\ op'[x].step = "construct" => op'[x].at # op'[s].at
    <3>1. op'[s] = op[s]
      BY <1>6
    <3>2. ASSUME op[s].step = "construct"
          PROVE  op[s].at \in Blocks /\ op[s].at # b
      BY <1>0, <1>9, <2>1, <3>1, <3>2 DEF OpInv
    <3>3. ASSUME op[s].step = "construct", NEW x \in Threads \ {s},
                 op'[x] # Idle, op'[x].step = "construct"
          PROVE  op'[x].at # op[s].at
      <4>1. CASE x = t
        BY <1>4, <1>6, <3>2, <3>3, <4>1
      <4>2. CASE x # t
        BY <1>0, <1>6, <2>1, <3>1, <3>3, <4>2 DEF OpInv
      <4> QED BY <4>1, <4>2
    <3>4. /\ op[s] # Idle /\ op'[s].request = AllocateRequest(op'[s].handle)
          /\ op'[s].handle.made_as = op'[s].handle.type
      BY <1>0, <2>1, <3>1 DEF OpInv
    <3>5. ASSUME op[s].step = "construct"
          PROVE  block'[op[s].at] = op[s].request /\ handle'[op[s].at] = None
      BY <1>0, <1>1, <1>7, <3>2, <3>4, <3>5 DEF OpInv
    <3> QED BY <3>1, <3>2, <3>3, <3>4, <3>5
  <2>2. /\ op'[t].request = AllocateRequest(op'[t].handle)
        /\ op'[t].handle.made_as = op'[t].handle.type
        /\ op'[t].at \in Blocks
        /\ block'[op'[t].at] = op'[t].request
        /\ handle'[op'[t].at] = None
    BY <1>1, <1>3, <1>4, <1>6, <1>7, <1>8
  <2>3. \A x \in Threads \ {t} :
          op'[x] # Idle /\ op'[x].step = "construct" => op'[x].at # op'[t].at
    BY <1>4, <1>6, <1>9
  <2> QED BY <2>1, <2>2, <2>3 DEF OpInv
<1>13. ASSUME NEW u \in Usages
       PROVE  /\ Making(op', u) = Making(op, u)
              /\ \A s \in Making(op, u) : op'[s].request = op[s].request
  BY <1>2, <1>4, <1>6 DEF Making
<1>14. ASSUME NEW u \in Usages
       PROVE  /\ Cardinality(Making(op', u)) = Cardinality(Making(op, u))
              /\ MakingBytes(op', u) = MakingBytes(op, u)
  BY <1>13 DEF MakingBytes
<1>15. ASSUME NEW u \in Usages
       PROVE  /\ Cardinality(Holding(handle, block, u)) = Cardinality(Holding(handle', block', u))
              /\ HoldingBytes(handle, block, u) = HoldingBytes(handle', block', u)
  <2>1. \A c \in Blocks : handle[c] # None => block'[c] = block[c]
    BY <1>7, <1>8
  <2>2. \A c \in Blocks : handle[c] # None <=> handle'[c] # None
    BY <1>1
  <2> QED BY <2>1, <2>2, HoldingSame
<1> QED BY <1>0, <1>1, <1>10, <1>11, <1>12, <1>14, <1>15 DEF StepInv, Exact

(* What is thrown away counts as lost.                                     *)
LEMMA LostStep ==
  ASSUME AllocatorInv, NEW t \in Threads, op[t] # Idle,
         lost' = Count(lost, op[t].request), op' = [op EXCEPT ![t] = Idle],
         UNCHANGED <<by_usage, block, handle>>
  PROVE  StepInv'
<1>0. /\ TypeOK /\ HandleInv /\ OpInv /\ RestOK
      /\ by_usage \in IntStats /\ Exact(by_usage, handle, block, op, lost)
      /\ HeldIsAllocated(handle, block) /\ lost \in IntStats
  BY Before
<1> DEFINE r == op[t].request
<1>1. r \in Request /\ r.usage \in Usages /\ r.size \in Nat
  BY <1>0, OpParts
<1>2. /\ op' \in [Threads -> {Idle} \cup OpState]
      /\ op'[t] = Idle /\ \A s \in Threads \ {t} : op'[s] = op[s]
  BY <1>0, OpEnds
<1>3. by_usage' = by_usage /\ block' = block /\ handle' = handle
  OBVIOUS
<1>4. RestOK'
  BY <1>0, <1>1, <1>2, <1>3, CountNat DEF RestOK
<1>5. HandleInv'
  BY <1>0, <1>3 DEF HandleInv
<1>6. OpInv'
  BY <1>0, <1>2, <1>3 DEF OpInv
<1>7. ASSUME NEW u \in Usages
      PROVE  /\ by_usage'[u].count = Cardinality(Holding(handle', block', u))
                                       + Cardinality(Making(op', u)) + lost'[u].count
             /\ by_usage'[u].bytes = HoldingBytes(handle', block', u)
                                       + MakingBytes(op', u) + lost'[u].bytes
  <2>1. /\ by_usage[u].count = Cardinality(Holding(handle, block, u))
                                 + Cardinality(Making(op, u)) + lost[u].count
        /\ by_usage[u].bytes = HoldingBytes(handle, block, u)
                                 + MakingBytes(op, u) + lost[u].bytes
    BY <1>0 DEF Exact
  <2>2. /\ r.usage = u => /\ Cardinality(Making(op, u)) = Cardinality(Making(op', u)) + 1
                          /\ MakingBytes(op, u) = r.size + MakingBytes(op', u)
        /\ r.usage # u => /\ Cardinality(Making(op, u)) = Cardinality(Making(op', u))
                          /\ MakingBytes(op, u) = MakingBytes(op', u)
    BY <1>0, OpEnds DEF MakingOneLess
  <2>3. /\ r.usage = u => /\ lost'[u].count = lost[u].count + 1
                          /\ lost'[u].bytes = lost[u].bytes + r.size
        /\ r.usage # u => lost'[u] = lost[u]
    BY <1>0, <1>1, CountFields
  <2>4. /\ Cardinality(Holding(handle, block, u)) \in Nat /\ HoldingBytes(handle, block, u) \in Nat
        /\ Cardinality(Making(op', u)) \in Nat /\ MakingBytes(op', u) \in Nat
        /\ lost[u].count \in Nat /\ lost[u].bytes \in Nat
    BY <1>0, <1>2, Numbers DEF RestOK, NatStats
  <2> HIDE DEF r
  <2> QED BY <1>1, <1>3, <2>1, <2>2, <2>3, <2>4
<1> QED BY <1>0, <1>3, <1>4, <1>5, <1>6, <1>7 DEF StepInv, Exact

(* The block becomes an object, which somebody holds.                      *)
LEMMA ConstructStep ==
  ASSUME AllocatorInv, NEW t \in Threads, Construct(t)
  PROVE  StepInv'
<1>0. /\ TypeOK /\ HandleInv /\ OpInv /\ RestOK
      /\ by_usage \in IntStats /\ Exact(by_usage, handle, block, op, lost)
      /\ HeldIsAllocated(handle, block)
  BY Before
<1> DEFINE r == op[t].request
           b == op[t].at
<1>1. /\ op[t].step = "construct" /\ op[t] # Idle
      /\ handle' = [handle EXCEPT ![b] = op[t].handle] /\ op' = [op EXCEPT ![t] = Idle]
      /\ by_usage' = by_usage /\ block' = block /\ lost' = lost
  BY DEF Construct, Idle
<1>2. /\ r \in Request /\ r.usage \in Usages /\ r.size \in Nat
      /\ op[t].handle \in Handle /\ op[t].handle # None
      /\ r = FreeRequest(op[t].handle) /\ r.usage = UsageOf(op[t].handle)
  <2>1. op[t].handle \in Handle /\ r = FreeRequest(op[t].handle)
    BY <1>0, <1>1, OpParts
  <2>2. op[t].handle # None
    BY <2>1, AllocatorAssumption
  <2> QED BY <1>0, <1>1, <2>1, <2>2, OpParts, Requests
<1>3. b \in Blocks /\ block[b] = r /\ handle[b] = None
  BY <1>0, <1>1 DEF OpInv
<1>4. /\ op' \in [Threads -> {Idle} \cup OpState]
      /\ op'[t] = Idle /\ \A s \in Threads \ {t} : op'[s] = op[s]
  BY <1>0, <1>1, OpEnds
<1>5. /\ handle' \in [Blocks -> Handle \cup {None}] /\ handle'[b] = op[t].handle
      /\ \A c \in Blocks \ {b} : handle'[c] = handle[c]
  BY <1>0, <1>1, <1>2, <1>3 DEF RestOK
<1>6. RestOK'
  BY <1>0, <1>1, <1>4, <1>5 DEF RestOK
<1>7. block[b] # None
  BY <1>2, <1>3, AllocatorAssumption
<1>8. HandleInv'
  <2>1. /\ block'[b] # None /\ block'[b].usage = UsageOf(handle'[b])
        /\ FreeRequest(handle'[b]).size + Sliced(handle'[b]) = block'[b].size
        /\ Sliced(handle'[b]) \in Nat
    <3>1. Sliced(op[t].handle) = 0
      BY <1>0, <1>1, <1>2, Requests DEF OpInv
    <3>2. block'[b] = FreeRequest(op[t].handle) /\ handle'[b] = op[t].handle
      BY <1>1, <1>2, <1>3, <1>5
    <3>3. FreeRequest(op[t].handle).size \in Nat
      BY <1>2
    <3> HIDE DEF b, r
    <3> QED BY <1>1, <1>2, <1>7, <3>1, <3>2, <3>3
  <2>2. ASSUME NEW c \in Blocks \ {b}, handle'[c] # None
        PROVE  /\ block'[c] # None /\ block'[c].usage = UsageOf(handle'[c])
               /\ FreeRequest(handle'[c]).size + Sliced(handle'[c]) = block'[c].size
               /\ Sliced(handle'[c]) \in Nat
    <3>1. handle'[c] = handle[c] /\ block'[c] = block[c]
      BY <1>1, <1>5
    <3> QED BY <1>0, <2>2, <3>1 DEF HandleInv
  <2> QED BY <2>1, <2>2 DEF HandleInv
<1>9. OpInv'
  <2>1. ASSUME NEW s \in Threads, op'[s] # Idle
        PROVE  s # t /\ op[s] # Idle /\ op'[s] = op[s]
    BY <1>4, <2>1
  <2>2. ASSUME NEW s \in Threads, op'[s] # Idle, op'[s].step = "construct"
        PROVE  op[s].at \in Blocks /\ op[s].at # b
    BY <1>0, <1>1, <2>1, <2>2 DEF OpInv
  <2> QED BY <1>0, <1>1, <1>5, <2>1, <2>2 DEF OpInv
<1>10. HeldIsAllocated(handle', block')
  BY <1>0, <1>1, <1>2, <1>3, <1>5 DEF HeldIsAllocated
<1>11. ASSUME NEW u \in Usages
       PROVE  HoldingOneLess(handle', block', handle, block, u, r)
  <2>1. handle'[b] # None /\ handle[b] = None /\ \A c \in Blocks \ {b} : handle[c] = handle'[c]
    BY <1>2, <1>3, <1>5
  <2>2. \A c \in Blocks \ {b} : block[c] = block'[c]
    BY <1>1
  <2>3. block'[b] = r
    BY <1>1, <1>3
  <2> QED BY <1>3, <1>10, <2>1, <2>2, <2>3, HoldingLess
<1>12. ASSUME NEW u \in Usages
       PROVE  /\ by_usage'[u].count = Cardinality(Holding(handle', block', u))
                                        + Cardinality(Making(op', u)) + lost'[u].count
              /\ by_usage'[u].bytes = HoldingBytes(handle', block', u)
                                        + MakingBytes(op', u) + lost'[u].bytes
  <2>1. /\ by_usage[u].count = Cardinality(Holding(handle, block, u))
                                 + Cardinality(Making(op, u)) + lost[u].count
        /\ by_usage[u].bytes = HoldingBytes(handle, block, u)
                                 + MakingBytes(op, u) + lost[u].bytes
    BY <1>0 DEF Exact
  <2>2. MakingOneLess(op, op', u, r)
    BY <1>0, <1>1, OpEnds
  <2>3. HoldingOneLess(handle', block', handle, block, u, r)
    BY <1>11
  <2>4. /\ Cardinality(Holding(handle, block, u)) \in Nat /\ HoldingBytes(handle, block, u) \in Nat
        /\ Cardinality(Making(op', u)) \in Nat /\ MakingBytes(op', u) \in Nat
        /\ lost[u].count \in Nat /\ lost[u].bytes \in Nat
    BY <1>0, <1>4, Numbers DEF RestOK, NatStats
  <2> HIDE DEF r, b
  <2> QED BY <1>1, <1>2, <2>1, <2>2, <2>3, <2>4 DEF MakingOneLess, HoldingOneLess
<1> QED BY <1>0, <1>1, <1>6, <1>8, <1>9, <1>12 DEF StepInv, Exact

(* A block that is freed is made by nobody.                                *)
LEMMA FreedOpInv ==
  ASSUME TypeOK, OpInv, NEW b \in Blocks,
         op' \in [Threads -> {Idle} \cup OpState],
         \A s \in Threads : op'[s] # Idle =>
           op'[s] = op[s] /\ (op[s].step = "construct" => op[s].at # b),
         \A c \in Blocks \ {b} : block'[c] = block[c] /\ handle'[c] = handle[c]
  PROVE  OpInv'
BY DEF OpInv

(* The Deleter takes the request off that Allocate has counted.            *)
LEMMA MakeSharedThrowsStep ==
  ASSUME AllocatorInv, NEW t \in Threads, MakeShared_Throws(t)
  PROVE  StepInv'
<1>0. /\ TypeOK /\ HandleInv /\ OpInv /\ RestOK
      /\ by_usage \in IntStats /\ Exact(by_usage, handle, block, op, lost)
      /\ HeldIsAllocated(handle, block)
  BY Before
<1> DEFINE r == op[t].request
           b == op[t].at
<1>1. /\ op[t].step = "construct" /\ op[t] # Idle
      /\ by_usage' = Uncount(by_usage, FreeRequest(op[t].handle))
      /\ block' = [block EXCEPT ![b] = None] /\ op' = [op EXCEPT ![t] = Idle]
      /\ handle' = handle /\ lost' = lost
  BY DEF MakeShared_Throws, Idle
<1>2. /\ r \in Request /\ r.usage \in Usages /\ r.size \in Nat
      /\ by_usage' = Uncount(by_usage, r)
  BY <1>0, <1>1, OpParts
<1>3. b \in Blocks /\ handle[b] = None
  BY <1>0, <1>1 DEF OpInv
<1>4. /\ op' \in [Threads -> {Idle} \cup OpState]
      /\ op'[t] = Idle /\ \A s \in Threads \ {t} : op'[s] = op[s]
  BY <1>0, <1>1, OpEnds
<1>5. /\ block' \in [Blocks -> Request \cup {None}]
      /\ \A c \in Blocks \ {b} : block'[c] = block[c]
  BY <1>0, <1>1, <1>3 DEF RestOK
<1>6. RestOK'
  BY <1>0, <1>1, <1>4, <1>5 DEF RestOK
<1>7. HandleInv'
  BY <1>0, <1>1, <1>3, <1>5 DEF HandleInv
<1>8. OpInv'
  <2>1. ASSUME NEW s \in Threads, op'[s] # Idle
        PROVE  op'[s] = op[s] /\ (op[s].step = "construct" => op[s].at # b)
    BY <1>0, <1>1, <1>4, <2>1 DEF OpInv
  <2>2. \A c \in Blocks \ {b} : block'[c] = block[c] /\ handle'[c] = handle[c]
    BY <1>1, <1>5
  <2> HIDE DEF b
  <2> QED BY <1>0, <1>3, <1>4, <2>1, <2>2, FreedOpInv
<1>9. ASSUME NEW u \in Usages
      PROVE  /\ Cardinality(Holding(handle, block, u)) = Cardinality(Holding(handle', block', u))
             /\ HoldingBytes(handle, block, u) = HoldingBytes(handle', block', u)
  <2>1. \A c \in Blocks : handle[c] # None => block'[c] = block[c]
    BY <1>3, <1>5
  <2>2. \A c \in Blocks : handle[c] # None <=> handle'[c] # None
    BY <1>1
  <2> QED BY <2>1, <2>2, HoldingSame
<1>10. by_usage' \in IntStats
  BY <1>0, <1>2, UncountFields
<1>11. ASSUME NEW u \in Usages
       PROVE  /\ by_usage'[u].count = Cardinality(Holding(handle', block', u))
                                        + Cardinality(Making(op', u)) + lost'[u].count
              /\ by_usage'[u].bytes = HoldingBytes(handle', block', u)
                                        + MakingBytes(op', u) + lost'[u].bytes
  <2>1. /\ by_usage[u].count = Cardinality(Holding(handle, block, u))
                                 + Cardinality(Making(op, u)) + lost[u].count
        /\ by_usage[u].bytes = HoldingBytes(handle, block, u)
                                 + MakingBytes(op, u) + lost[u].bytes
    BY <1>0 DEF Exact
  <2>2. MakingOneLess(op, op', u, r)
    BY <1>0, <1>1, OpEnds
  <2>3. /\ r.usage = u => /\ by_usage'[u].count = by_usage[u].count - 1
                          /\ by_usage'[u].bytes = by_usage[u].bytes - r.size
        /\ r.usage # u => by_usage'[u] = by_usage[u]
    BY <1>0, <1>2, UncountFields
  <2>4. /\ Cardinality(Holding(handle, block, u)) \in Nat /\ HoldingBytes(handle, block, u) \in Nat
        /\ Cardinality(Making(op', u)) \in Nat /\ MakingBytes(op', u) \in Nat
        /\ lost[u].count \in Nat /\ lost[u].bytes \in Nat
    BY <1>0, <1>4, Numbers DEF RestOK, NatStats
  <2>5. /\ Cardinality(Holding(handle, block, u)) = Cardinality(Holding(handle', block', u))
        /\ HoldingBytes(handle, block, u) = HoldingBytes(handle', block', u)
    BY <1>9
  <2> HIDE DEF r, b
  <2> QED BY <1>1, <1>2, <2>1, <2>2, <2>3, <2>4, <2>5 DEF MakingOneLess
<1> QED BY <1>0, <1>6, <1>7, <1>8, <1>10, <1>11 DEF StepInv, Exact

(* A base is no larger than what was derived from it.                      *)
LEMMA MoveToBaseStep ==
  ASSUME AllocatorInv, NEW b \in Blocks, NEW base \in Types, MoveToBase(b, base)
  PROVE  StepInv'
<1>0. /\ TypeOK /\ HandleInv /\ OpInv /\ RestOK
      /\ by_usage \in IntStats /\ Exact(by_usage, handle, block, op, lost)
  BY Before
<1>1. /\ handle[b] # None /\ <<handle[b].type, base>> \in Bases
      /\ handle' = [handle EXCEPT ![b].type = base]
      /\ by_usage' = by_usage /\ block' = block /\ lost' = lost /\ op' = op
  BY DEF MoveToBase
<1>2. handle[b] \in Handle
  BY <1>0, <1>1, HeldParts
<1> DEFINE new == [handle[b] EXCEPT !.type = base]
<1>3. /\ new \in Handle /\ new.kind = handle[b].kind /\ new.count = handle[b].count
      /\ new.type = base /\ new.made_as = handle[b].made_as
  BY <1>2 DEF Handle
<1>4. handle' = [handle EXCEPT ![b] = new]
  BY <1>0, <1>1 DEF RestOK
<1> HIDE DEF new
<1>5. new # None
  BY <1>3, AllocatorAssumption
<1>6. /\ handle' \in [Blocks -> Handle \cup {None}] /\ handle'[b] = new
      /\ \A c \in Blocks \ {b} : handle'[c] = handle[c]
  BY <1>0, <1>3, <1>4 DEF RestOK
<1>7. RestOK'
  BY <1>0, <1>1, <1>6 DEF RestOK
<1> DEFINE whole   == SizeOf[handle[b].made_as] * handle[b].count
           bytes   == SizeOf[handle[b].type] * handle[b].count
           smaller == SizeOf[base] * handle[b].count
<1>8. smaller <= bytes /\ smaller \in Nat /\ bytes \in Nat /\ whole \in Nat
  <2>1. /\ SizeOf[base] <= SizeOf[handle[b].type] /\ SizeOf[handle[b].made_as] \in Nat
        /\ SizeOf[base] \in Nat /\ SizeOf[handle[b].type] \in Nat /\ handle[b].count \in Nat
    BY <1>1, <1>2, AllocatorAssumption DEF Handle
  <2> QED BY <2>1, TimesMonotone, TimesType
<1>9. HandleInv'
  <2>1. /\ block'[b] # None /\ block'[b].usage = UsageOf(handle'[b])
        /\ FreeRequest(handle'[b]).size + Sliced(handle'[b]) = block'[b].size
        /\ Sliced(handle'[b]) \in Nat
    <3>1. UsageOf(new) = UsageOf(handle[b])
      BY <1>3 DEF UsageOf
    <3>2. FreeRequest(new).size = smaller /\ Sliced(new) = whole - smaller
      BY <1>3 DEF FreeRequest, Sliced
    <3>3. FreeRequest(handle[b]).size = bytes /\ Sliced(handle[b]) = whole - bytes
      BY DEF FreeRequest, Sliced
    <3>4. /\ FreeRequest(handle[b]).size + Sliced(handle[b]) = block[b].size
          /\ Sliced(handle[b]) \in Nat
          /\ block[b] # None /\ block[b].usage = UsageOf(handle[b])
      BY <1>0, <1>1 DEF HandleInv
    <3> HIDE DEF whole, bytes, smaller
    <3>5. FreeRequest(new).size + Sliced(new) = block[b].size /\ Sliced(new) \in Nat
      BY <1>8, <3>2, <3>3, <3>4
    <3> QED BY <1>1, <1>6, <3>1, <3>4, <3>5
  <2>2. ASSUME NEW c \in Blocks \ {b}, handle'[c] # None
        PROVE  /\ block'[c] # None /\ block'[c].usage = UsageOf(handle'[c])
               /\ FreeRequest(handle'[c]).size + Sliced(handle'[c]) = block'[c].size
               /\ Sliced(handle'[c]) \in Nat
    <3>1. handle'[c] = handle[c] /\ block'[c] = block[c]
      BY <1>1, <1>6
    <3> QED BY <1>0, <2>2, <3>1 DEF HandleInv
  <2> QED BY <2>1, <2>2 DEF HandleInv
<1>10. \A c \in Blocks : handle'[c] # None <=> handle[c] # None
  BY <1>1, <1>5, <1>6
<1>11. OpInv'
  BY <1>0, <1>1, <1>10 DEF OpInv
<1>12. ASSUME NEW u \in Usages
       PROVE  /\ Cardinality(Holding(handle, block, u)) = Cardinality(Holding(handle', block', u))
              /\ HoldingBytes(handle, block, u) = HoldingBytes(handle', block', u)
  <2>1. \A c \in Blocks : handle[c] # None => block'[c] = block[c]
    BY <1>1
  <2>2. \A c \in Blocks : handle[c] # None <=> handle'[c] # None
    BY <1>10
  <2> QED BY <2>1, <2>2, HoldingSame
<1> QED BY <1>0, <1>1, <1>7, <1>9, <1>11, <1>12 DEF StepInv, Exact

(* What is freed is what was counted, less what the base is smaller by.    *)
LEMMA FreeStep ==
  ASSUME AllocatorInv, NEW t \in Threads, NEW b \in Blocks, Free(t, b)
  PROVE  StepInv'
<1>0. /\ TypeOK /\ HandleInv /\ OpInv /\ RestOK
      /\ by_usage \in IntStats /\ Exact(by_usage, handle, block, op, lost)
      /\ HeldIsAllocated(handle, block)
  BY Before
<1> DEFINE q == FreeRequest(handle[b])
           extra == Sliced(handle[b])
<1>1. /\ handle[b] # None
      /\ by_usage' = Uncount(by_usage, q)
      /\ lost' = [lost EXCEPT ![q.usage].bytes = @ + extra]
      /\ block' = [block EXCEPT ![b] = None] /\ handle' = [handle EXCEPT ![b] = None]
      /\ op' = op
  BY DEF Free
<1>2. /\ block[b] \in Request /\ q \in Request /\ q.usage = block[b].usage
      /\ q.usage \in Usages /\ q.size \in Nat /\ block[b].size \in Nat
      /\ extra \in Nat /\ block[b].size = q.size + extra
  <2>1. /\ block[b] \in Request /\ q \in Request /\ q.usage = block[b].usage
        /\ q.size \in Nat /\ block[b].size \in Nat /\ q.size + extra = block[b].size
        /\ extra \in Nat
    BY <1>0, <1>1, HeldParts
  <2> HIDE DEF q, extra
  <2> QED BY <2>1 DEF Request
<1> HIDE DEF q, extra
<1>3. /\ lost' \in NatStats
      /\ lost'[q.usage].count = lost[q.usage].count
      /\ lost'[q.usage].bytes = lost[q.usage].bytes + extra
      /\ \A u \in Usages : u # q.usage => lost'[u] = lost[u]
  BY <1>0, <1>1, <1>2 DEF RestOK, NatStats
<1>4. /\ block' \in [Blocks -> Request \cup {None}] /\ handle' \in [Blocks -> Handle \cup {None}]
      /\ handle'[b] = None
      /\ \A c \in Blocks \ {b} : block'[c] = block[c] /\ handle'[c] = handle[c]
  BY <1>0, <1>1 DEF RestOK
<1>5. RestOK'
  BY <1>0, <1>1, <1>3, <1>4 DEF RestOK
<1>6. HandleInv'
  BY <1>0, <1>4 DEF HandleInv
<1>7. OpInv'
  <2>1. ASSUME NEW s \in Threads, op'[s] # Idle
        PROVE  op'[s] = op[s] /\ (op[s].step = "construct" => op[s].at # b)
    BY <1>0, <1>1, <2>1 DEF OpInv
  <2>2. op' \in [Threads -> {Idle} \cup OpState]
    BY <1>0, <1>1 DEF RestOK
  <2> QED BY <1>0, <1>4, <2>1, <2>2, FreedOpInv
<1>8. by_usage' \in IntStats
  BY <1>0, <1>1, <1>2, UncountFields
<1>9. HeldIsAllocated(handle', block')
  BY <1>0, <1>4 DEF HeldIsAllocated
<1>10. ASSUME NEW u \in Usages
       PROVE  HoldingOneLess(handle, block, handle', block', u, block[b])
  BY <1>0, <1>1, <1>4, HoldingLess
<1>11. ASSUME NEW u \in Usages
       PROVE  /\ by_usage'[u].count = Cardinality(Holding(handle', block', u))
                                        + Cardinality(Making(op', u)) + lost'[u].count
              /\ by_usage'[u].bytes = HoldingBytes(handle', block', u)
                                        + MakingBytes(op', u) + lost'[u].bytes
  <2>1. /\ by_usage[u].count = Cardinality(Holding(handle, block, u))
                                 + Cardinality(Making(op, u)) + lost[u].count
        /\ by_usage[u].bytes = HoldingBytes(handle, block, u)
                                 + MakingBytes(op, u) + lost[u].bytes
    BY <1>0 DEF Exact
  <2>2. HoldingOneLess(handle, block, handle', block', u, block[b])
    BY <1>10
  <2>3. /\ q.usage = u => /\ by_usage'[u].count = by_usage[u].count - 1
                          /\ by_usage'[u].bytes = by_usage[u].bytes - q.size
        /\ q.usage # u => by_usage'[u] = by_usage[u]
    BY <1>0, <1>1, <1>2, UncountFields
  <2>4. /\ Cardinality(Holding(handle', block', u)) \in Nat
        /\ HoldingBytes(handle', block', u) \in Nat
        /\ Cardinality(Making(op, u)) \in Nat /\ MakingBytes(op, u) \in Nat
        /\ lost[u].count \in Nat /\ lost[u].bytes \in Nat
    BY <1>0, <1>9, Numbers DEF RestOK, NatStats
  <2>5. op' = op
    BY <1>1
  <2>6. CASE q.usage = u
    BY <1>2, <1>3, <2>1, <2>2, <2>3, <2>4, <2>5, <2>6 DEF HoldingOneLess
  <2>7. CASE q.usage # u
    BY <1>2, <1>3, <2>1, <2>2, <2>3, <2>5, <2>7 DEF HoldingOneLess
  <2> QED BY <2>6, <2>7
<1> QED BY <1>5, <1>6, <1>7, <1>8, <1>11 DEF StepInv, Exact

-----------------------------------------------------------------------------
(* Theorems.                                                               *)

LEMMA InitInv == Init => AllocatorInv
<1> SUFFICES ASSUME Init PROVE AllocatorInv
  OBVIOUS
<1>1. /\ by_usage = Nothing /\ lost = Nothing
      /\ block = [b \in Blocks |-> None] /\ handle = [b \in Blocks |-> None]
      /\ op = [t \in Threads |-> Idle]
  BY DEF Init
<1>2. Nothing \in NatStats /\ Nothing \in IntStats
  BY DEF Nothing, NatStats, IntStats
<1>3. RestOK /\ HandleInv /\ OpInv
  BY <1>1, <1>2 DEF RestOK, HandleInv, OpInv
<1>4. ASSUME NEW u \in Usages
      PROVE  /\ Holding(handle, block, u) = {} /\ Making(op, u) = {}
             /\ Cardinality(Holding(handle, block, u)) = 0 /\ Cardinality(Making(op, u)) = 0
  BY <1>1, FS_EmptySet DEF Holding, Making
<1>5. ASSUME NEW f, DOMAIN f = {} PROVE SumFunction(f) = 0
  BY <1>5, SumEmpty DEF SumFunction
<1>6. ASSUME NEW u \in Usages
      PROVE  HoldingBytes(handle, block, u) = 0 /\ MakingBytes(op, u) = 0
  BY <1>4, <1>5 DEF HoldingBytes, MakingBytes
<1>7. ASSUME NEW u \in Usages
      PROVE  /\ by_usage[u].count = 0 /\ by_usage[u].bytes = 0
             /\ lost[u].count = 0 /\ lost[u].bytes = 0
  BY <1>1 DEF Nothing
<1>8. Exact(by_usage, handle, block, op, lost)
  BY <1>4, <1>6, <1>7 DEF Exact
<1> QED BY <1>1, <1>2, <1>3, <1>8, ExactIsNat DEF StepInv

LEMMA NextInv ==
  AllocatorInv /\ [Next]_vars => AllocatorInv'
<1> SUFFICES ASSUME AllocatorInv, [Next]_vars PROVE AllocatorInv'
  OBVIOUS
<1>1. ASSUME NEW t \in Threads,
             NEW h \in [kind : Kinds, made_as : Types, type : Types, count : Counts],
             Allocate(t, h)
      PROVE  AllocatorInv'
  BY <1>1, AllocateStep, ExactIsNatNext
<1>2. ASSUME NEW t \in Threads, NEW b \in Blocks, Allocate_Returns(t, b)
      PROVE  AllocatorInv'
  BY <1>2, AllocateReturnsStep, ExactIsNatNext
<1>3. ASSUME NEW t \in Threads, NEW b \in Blocks, Free(t, b)
      PROVE  AllocatorInv'
  BY <1>3, FreeStep, ExactIsNatNext
<1>4. ASSUME NEW t \in Threads, Allocate_Throws(t) \/ Construct_Throws(t)
      PROVE  AllocatorInv'
  <2>1. /\ op[t] # Idle /\ lost' = Count(lost, op[t].request) /\ op' = [op EXCEPT ![t] = Idle]
        /\ UNCHANGED <<by_usage, block, handle>>
    BY <1>4 DEF Allocate_Throws, Construct_Throws, Idle
  <2> QED BY <2>1, LostStep, ExactIsNatNext
<1>5. ASSUME NEW t \in Threads, Construct(t)
      PROVE  AllocatorInv'
  BY <1>5, ConstructStep, ExactIsNatNext
<1>6. ASSUME NEW t \in Threads, MakeShared_Throws(t)
      PROVE  AllocatorInv'
  BY <1>6, MakeSharedThrowsStep, ExactIsNatNext
<1>7. ASSUME NEW b \in Blocks, NEW base \in Types, MoveToBase(b, base)
      PROVE  AllocatorInv'
  BY <1>7, MoveToBaseStep, ExactIsNatNext
<1>8. CASE UNCHANGED vars
  <2>1. /\ by_usage' = by_usage /\ block' = block /\ handle' = handle /\ lost' = lost
        /\ op' = op
    BY <1>8 DEF vars
  <2>2. RestOK /\ HandleInv /\ OpInv /\ by_usage \in IntStats
        /\ Exact(by_usage, handle, block, op, lost)
    BY Before
  <2>3. RestOK'
    BY <2>1, <2>2 DEF RestOK
  <2>4. HandleInv'
    BY <2>1, <2>2 DEF HandleInv
  <2>5. OpInv'
    BY <2>1, <2>2 DEF OpInv
  <2> QED BY <2>1, <2>2, <2>3, <2>4, <2>5, ExactIsNatNext DEF StepInv
<1>9. CASE Next
  BY <1>1, <1>2, <1>3, <1>4, <1>5, <1>6, <1>7, <1>9, Zenon DEF Next
<1> QED BY <1>8, <1>9

LEMMA Invariance == Spec => []AllocatorInv
BY InitInv, NextInv, PTL DEF Spec

(* No counter of the statistics goes below zero, whoever frees what, in    *)
(* whatever order, and with whatever static type.                          *)
THEOREM CountersNeverWrap == Spec => []TypeOK
<1>1. AllocatorInv => TypeOK
  BY DEF AllocatorInv
<1> QED BY <1>1, Invariance, PTL

(* The statistics are, at any moment, those of what is held and of what is *)
(* in the making, and of what nobody will ever free.                       *)
THEOREM StatisticsExact == Spec => []StatsExact
<1>1. AllocatorInv => StatsExact
  BY DEF AllocatorInv
<1> QED BY <1>1, Invariance, PTL

(* Whoever frees says the usage the block was allocated for, and all its   *)
(* bytes but those that a move to a base type cut off; no block is given   *)
(* to two.                                                                 *)
THEOREM FreedAsAllocated == Spec => [](HandleInv /\ OpInv)
<1>1. AllocatorInv => HandleInv /\ OpInv
  BY DEF AllocatorInv
<1> QED BY <1>1, Invariance, PTL

(* What Free asserts before it takes anything off.                         *)
FreeAsserts ==
  \A t \in Threads, b \in Blocks : Free(t, b) =>
    LET request == FreeRequest(handle[b])
    IN  by_usage[request.usage].count >= 1 /\ by_usage[request.usage].bytes >= request.size

(* Free's assertions (memory.h, "TrackedAllocator detected abnormal        *)
(* free()") never fail.                                                    *)
THEOREM FreeNeverAbnormal == Spec => [][FreeAsserts]_vars
<1>1. ASSUME AllocatorInv, AllocatorInv', [Next]_vars
      PROVE  [FreeAsserts]_vars
  <2> SUFFICES ASSUME NEW t \in Threads, NEW b \in Blocks, Free(t, b)
               PROVE  LET request == FreeRequest(handle[b])
                      IN  /\ by_usage[request.usage].count >= 1
                          /\ by_usage[request.usage].bytes >= request.size
    BY DEF FreeAsserts
  <2> DEFINE q == FreeRequest(handle[b])
  <2>1. q \in Request /\ by_usage \in IntStats /\ by_usage' = Uncount(by_usage, q)
    BY <1>1, Before, HeldParts DEF Free
  <2>2. TypeOK'
    BY <1>1 DEF AllocatorInv
  <2> HIDE DEF q
  <2>3. q.usage \in Usages /\ q.size \in Nat
    BY <2>1 DEF Request
  <2>4. by_usage'[q.usage].count \in Nat /\ by_usage'[q.usage].bytes \in Nat
    BY <2>2, <2>3 DEF TypeOK
  <2>5. /\ by_usage'[q.usage].count = by_usage[q.usage].count - 1
        /\ by_usage'[q.usage].bytes = by_usage[q.usage].bytes - q.size
    BY <2>1, UncountFields
  <2>6. by_usage[q.usage].count \in Int /\ by_usage[q.usage].bytes \in Int
    BY <2>1, <2>3 DEF IntStats
  <2>7. by_usage[q.usage].count >= 1 /\ by_usage[q.usage].bytes >= q.size
    BY <2>3, <2>4, <2>5, <2>6
  <2> QED BY <2>7 DEF q
<1> QED BY <1>1, Invariance, PTL DEF Spec

(* When nobody holds or makes anything, what the statistics still show is  *)
(* what was lost, and nothing if nothing was.                              *)
NothingLeft ==
  (\A b \in Blocks : handle[b] = None) /\ (\A t \in Threads : op[t] = Idle) => by_usage = lost

THEOREM OnlyLossesLeft == Spec => []NothingLeft
<1>1. ASSUME AllocatorInv, \A b \in Blocks : handle[b] = None, \A t \in Threads : op[t] = Idle
      PROVE  by_usage = lost
  <2>1. by_usage \in NatStats /\ lost \in NatStats /\ Exact(by_usage, handle, block, op, lost)
    BY <1>1, Parts, Before
  <2>2. ASSUME NEW u \in Usages
        PROVE  /\ Holding(handle, block, u) = {} /\ Making(op, u) = {}
               /\ Cardinality(Holding(handle, block, u)) = 0 /\ Cardinality(Making(op, u)) = 0
    BY <1>1, FS_EmptySet DEF Holding, Making
  <2>3. ASSUME NEW f, DOMAIN f = {} PROVE SumFunction(f) = 0
    BY <2>3, SumEmpty DEF SumFunction
  <2>4. ASSUME NEW u \in Usages
        PROVE  HoldingBytes(handle, block, u) = 0 /\ MakingBytes(op, u) = 0
    BY <2>2, <2>3 DEF HoldingBytes, MakingBytes
  <2>5. ASSUME NEW u \in Usages
        PROVE  by_usage[u].count = lost[u].count /\ by_usage[u].bytes = lost[u].bytes
    BY <2>1, <2>2, <2>4 DEF Exact, NatStats
  <2> QED BY <2>1, <2>5 DEF NatStats
<1>2. AllocatorInv => NothingLeft
  BY <1>1 DEF NothingLeft
<1> QED BY <1>2, Invariance, PTL

=============================================================================
