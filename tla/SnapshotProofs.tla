---------------------------- MODULE SnapshotProofs ----------------------------
(***************************************************************************)
(* Machine-checked lemmas about SnapshotDB for the components whose        *)
(* requests end with their one statement: a request then holds no row      *)
(* between two steps, and what it read is what is committed except where   *)
(* it missed a change.  The proofs of these components start from here.    *)
(*                                                                         *)
(* The second part is about sums over rows: the recursion by which the     *)
(* community modules fold a finite set has a solution, one only, and its   *)
(* value does not depend on the order of the elements.                     *)
(***************************************************************************)
EXTENDS SnapshotDB, Folds, FiniteSetTheorems, WellFoundedInduction, TLAPS

Discipline ==
  /\ active \subseteq Txn
  /\ DOMAIN db = Row /\ DOMAIN view = Txn /\ \A t \in Txn : DOMAIN view[t] = Row
  /\ wrote = [t \in Txn |-> {}] /\ shared = [t \in Txn |-> {}]
  /\ missed \in [Txn -> SUBSET Row]
  /\ IdleClean /\ ViewsCurrent

LEMMA DisciplineInit ==
  ASSUME NEW rows, DOMAIN rows = Row, DBInitWith(rows) PROVE Discipline
BY DEF DBInitWith, EmptyView, Discipline, IdleClean, ViewsCurrent

LEMMA DisciplineStutter ==
  ASSUME Discipline, UNCHANGED dbVars PROVE Discipline'
BY DEF dbVars, Discipline, IdleClean, ViewsCurrent

LEMMA DisciplineBegin ==
  ASSUME Discipline, NEW t \in Txn, BeginTxn(t) PROVE Discipline'
<1>1. IdleClean'
  BY DEF Discipline, IdleClean, BeginTxn
<1>2. ViewsCurrent'
  BY DEF Discipline, IdleClean, ViewsCurrent, BeginTxn
<1>3. QED
  BY <1>1, <1>2 DEF Discipline, BeginTxn

LEMMA DisciplineAbort ==
  ASSUME Discipline, NEW t \in Txn, AbortTxn(t) PROVE Discipline'
<1>1. IdleClean'
  BY DEF Discipline, IdleClean, AbortTxn, EndTxn
<1>2. ViewsCurrent'
  BY DEF Discipline, ViewsCurrent, AbortTxn, EndTxn
<1>3. QED
  BY <1>1, <1>2 DEF Discipline, AbortTxn, EndTxn, EmptyView

(* A row that a request may lock reads as it is committed.                 *)
LEMMA LockedIsCurrent ==
  ASSUME Discipline, NEW t \in active, NEW r \in Row, CanWrite(t, r)
  PROVE  view[t][r] = db[r]
BY DEF Discipline, CanWrite, ViewsCurrent

(* A commit changes the rows it names, each of which its request had read  *)
(* as it was committed, and every other request has then missed them.      *)
LEMMA CommitFacts ==
  ASSUME Discipline, NEW t \in active, NEW new, DOMAIN new \subseteq Row, CommitWith(t, new)
  PROVE  /\ \A r \in DOMAIN new : view[t][r] = db[r]
         /\ \A r \in DOMAIN new : db'[r] = new[r]
         /\ \A r \in Row \ DOMAIN new : db'[r] = db[r]
         /\ active' = active \ {t}
         /\ \A u \in active' : view'[u] = view[u] /\ missed'[u] = missed[u] \cup DOMAIN new
         /\ Discipline'
<1>1. t \in Txn /\ wrote[t] = {} /\ active' = active \ {t}
  BY DEF Discipline, CommitWith, EndTxn
<1>2. \A r \in DOMAIN new : r \notin missed[t] /\ view[t][r] = db[r]
  BY <1>1 DEF Discipline, CommitWith, CanWrite, ViewsCurrent
<1>3. /\ \A r \in DOMAIN new : db'[r] = new[r]
      /\ \A r \in Row \ DOMAIN new : db'[r] = db[r]
  BY <1>1 DEF CommitWith
<1>4. \A u \in Txn \ {t} : view'[u] = view[u]
  BY <1>1 DEF Discipline, CommitWith, EndTxn
<1>5. /\ DOMAIN view' = Txn /\ view'[t] = EmptyView
      /\ wrote' = [u \in Txn |-> {}] /\ shared' = [u \in Txn |-> {}]
  BY <1>1 DEF Discipline, CommitWith, EndTxn
<1>6. missed' = [u \in Txn |-> IF u \in active \ {t} THEN missed[u] \cup DOMAIN new ELSE {}]
  BY <1>1 DEF CommitWith
<1>7. missed' \in [Txn -> SUBSET Row]
  BY <1>6 DEF Discipline
<1>8. IdleClean'
  BY <1>1, <1>4, <1>5, <1>6 DEF Discipline, IdleClean
<1>9. ViewsCurrent'
  BY <1>1, <1>3, <1>4, <1>6 DEF Discipline, ViewsCurrent
<1>10. DOMAIN db' = Row /\ \A u \in Txn : DOMAIN view'[u] = Row
  BY <1>1, <1>4, <1>5 DEF Discipline, CommitWith, EmptyView
<1>11. QED
  BY <1>1, <1>2, <1>3, <1>4, <1>5, <1>6, <1>7, <1>8, <1>9, <1>10 DEF Discipline

(* What a commit of some rows leaves alone.                                *)
Commits(t, S) ==
  /\ t \in active /\ active' = active \ {t}
  /\ \A r \in Row \ S : db'[r] = db[r]
  /\ \A u \in active' : view'[u] = view[u]
  /\ Discipline'

LEMMA CommitRows ==
  ASSUME Discipline, NEW t \in active, NEW S \in SUBSET Row, NEW new,
         DOMAIN new \subseteq S, CommitWith(t, new)
  PROVE  /\ Commits(t, S)
         /\ \A r \in DOMAIN new : view[t][r] = db[r] /\ db'[r] = new[r]
         /\ \A r \in S \ DOMAIN new : db'[r] = db[r]
BY CommitFacts DEF Commits

-----------------------------------------------------------------------------
(* Numbers: < is well-founded on the naturals.                             *)
LEMMA FirstExists ==
  ASSUME NEW S \in SUBSET Nat, S # {}
  PROVE  \E n \in S : \A k \in S : n <= k
<1> DEFINE R == OpToRel(<, Nat)
<1>1. PICK n \in S : \A k \in S : <<k, n>> \notin R
  <2> HIDE DEF R
  <2>1. IsWellFoundedOn(R, Nat) BY NatLessThanWellFounded DEF R
  <2> QED BY <2>1, WFMin
<1>2. \A k \in S : ~(k < n)
  BY <1>1 DEF OpToRel
<1>3. \A k \in S : n <= k
  <2> TAKE k \in S
  <2> HIDE DEF R
  <2> QED BY <1>2
<1> QED BY <1>3

(* Sums: a fold of + over the values of a function, unfolded to the        *)
(* recursion it stands for.                                                *)
SumOver(f, S) ==
  MapThenFoldSet(+, 0, LAMBDA x : f[x], LAMBDA s : CHOOSE x \in s : TRUE, S)

AnyOf(s) == CHOOSE x \in s : TRUE
SumStep(f, g, s) == IF s = {} THEN 0 ELSE f[AnyOf(s)] + g[s \ {AnyOf(s)}]
IsSums(f, S, g) == g = [s \in SUBSET S |-> SumStep(f, g, s)]
Solves(f, S, g) == \A s \in SUBSET S : g[s] = SumStep(f, g, s)
Sums(f, S) == CHOOSE g : IsSums(f, S, g)

LEMMA SumUnfolds == ASSUME NEW f, NEW S PROVE SumOver(f, S) = Sums(f, S)[S]
BY DEF SumOver, Sums, IsSums, SumStep, AnyOf, MapThenFoldSet

LEMMA AnyOfIn == ASSUME NEW s, s # {} PROVE AnyOf(s) \in s
BY DEF AnyOf

(* Of the subsets of a finite set that lack something, one is smallest.    *)
LEMMA SmallestSubset ==
  ASSUME NEW S, IsFiniteSet(S), NEW bad \in SUBSET SUBSET S, bad # {}
  PROVE  \E s \in bad : \A r \in SUBSET S :
           Cardinality(r) < Cardinality(s) => r \notin bad
<1> DEFINE sizes == {Cardinality(s) : s \in bad}
<1>1. \A s \in SUBSET S : Cardinality(s) \in Nat
  BY FS_Subset, FS_CardinalityType
<1>2. sizes \in SUBSET Nat /\ sizes # {} BY <1>1
<1>3. PICK n \in sizes : \A k \in sizes : n <= k
  <2> HIDE DEF sizes
  <2> QED BY <1>2, FirstExists
<1>4. PICK s \in bad : n = Cardinality(s) OBVIOUS
<1>5. ASSUME NEW r \in SUBSET S, Cardinality(r) < Cardinality(s), r \in bad PROVE FALSE
  <2>1. Cardinality(r) \in sizes BY <1>5
  <2>2. Cardinality(s) <= Cardinality(r) BY <1>3, <1>4, <2>1
  <2> QED BY <2>2, <1>1, <1>5
<1> QED BY <1>5

LEMMA SmallerWithout ==
  ASSUME NEW S, IsFiniteSet(S), NEW s \in SUBSET S, NEW x \in s
  PROVE  /\ s \ {x} \in SUBSET S /\ Cardinality(s \ {x}) < Cardinality(s)
         /\ Cardinality(s) \in Nat /\ Cardinality(s \ {x}) = Cardinality(s) - 1
<1>1. IsFiniteSet(s) BY FS_Subset
<1>2. Cardinality(s) \in Nat BY <1>1, FS_CardinalityType
<1>3. Cardinality(s \ {x}) = Cardinality(s) - 1 BY <1>1, FS_RemoveElement
<1> QED BY <1>2, <1>3

(* The recursion of a sum has a solution over a finite set, and one only.  *)
LEMMA SumsExist ==
  ASSUME NEW f, NEW S, IsFiniteSet(S)
  PROVE  IsSums(f, S, Sums(f, S))
<1> DEFINE upTo(n, g) == \A s \in SUBSET S :
             Cardinality(s) <= n => g[s] = SumStep(f, g, s)
           bad == {n \in Nat : ~\E g : upTo(n, g)}
<1>1. \A s \in SUBSET S : Cardinality(s) \in Nat /\ Cardinality(s) <= Cardinality(S)
  BY FS_Subset, FS_CardinalityType
<1>2. bad = {}
  <2> SUFFICES ASSUME bad # {} PROVE FALSE OBVIOUS
  <2>1. bad \in SUBSET Nat OBVIOUS
  <2>2. PICK n \in bad : \A k \in bad : n <= k
    <3> HIDE DEF bad
    <3> QED BY <2>1, FirstExists
  <2>3. CASE n = 0
    <3> DEFINE g == [s \in SUBSET S |-> 0]
    <3>1. ASSUME NEW s \in SUBSET S, Cardinality(s) <= 0 PROVE g[s] = SumStep(f, g, s)
      <4>1. IsFiniteSet(s) BY FS_Subset
      <4>2. s = {} BY <4>1, <3>1, <1>1, FS_EmptySet
      <4> QED BY <4>2 DEF SumStep
    <3>2. upTo(0, g) BY <3>1
    <3> QED BY <3>2, <2>3, <2>2
  <2>4. CASE n # 0
    <3>1. n - 1 \in Nat /\ n - 1 \notin bad BY <2>2, <2>4
    <3>2. PICK g : upTo(n - 1, g) BY <3>1
    <3> DEFINE h == [s \in SUBSET S |-> SumStep(f, g, s)]
    <3>3. ASSUME NEW s \in SUBSET S, Cardinality(s) <= n PROVE h[s] = SumStep(f, h, s)
      <4>1. CASE s = {} BY <4>1 DEF SumStep
      <4>2. CASE s # {}
        <5>1. /\ s \ {AnyOf(s)} \in SUBSET S
              /\ Cardinality(s \ {AnyOf(s)}) <= n - 1
          BY <3>3, <4>2, <1>1, AnyOfIn, SmallerWithout
        <5>2. h[s \ {AnyOf(s)}] = g[s \ {AnyOf(s)}] BY <5>1, <3>2
        <5> QED BY <4>2, <5>2 DEF SumStep
      <4> QED BY <4>1, <4>2
    <3>4. upTo(n, h) BY <3>3
    <3> QED BY <3>4, <2>2
  <2> QED BY <2>3, <2>4
<1>3. PICK g : upTo(Cardinality(S), g)
  BY <1>2, FS_CardinalityType
<1> DEFINE h == [s \in SUBSET S |-> g[s]]
<1>4. ASSUME NEW s \in SUBSET S PROVE h[s] = SumStep(f, h, s)
  <2>1. g[s] = SumStep(f, g, s) BY <1>1, <1>3
  <2>2. s # {} => s \ {AnyOf(s)} \in SUBSET S OBVIOUS
  <2> QED BY <2>1, <2>2 DEF SumStep
<1>5. IsSums(f, S, h) BY <1>4 DEF IsSums
<1>6. \E k : IsSums(f, S, k) BY <1>5
<1> QED BY <1>6 DEF Sums

LEMMA SumsAt ==
  ASSUME NEW f, NEW S, IsFiniteSet(S)
  PROVE  \A s \in SUBSET S : Sums(f, S)[s] = SumStep(f, Sums(f, S), s)
<1> DEFINE g == Sums(f, S)
<1>1. IsSums(f, S, g) BY SumsExist
<1> HIDE DEF g
<1>2. \A s \in SUBSET S : g[s] = SumStep(f, g, s) BY <1>1 DEF IsSums
<1> QED BY <1>2 DEF g

LEMMA SumsUnique ==
  ASSUME NEW f, NEW S, IsFiniteSet(S), NEW g, NEW h,
         Solves(f, S, g), Solves(f, S, h)
  PROVE  \A s \in SUBSET S : g[s] = h[s]
<1> USE DEF Solves
<1> DEFINE bad == {s \in SUBSET S : g[s] # h[s]}
<1> SUFFICES ASSUME bad # {} PROVE FALSE OBVIOUS
<1>1. PICK s \in bad : \A r \in SUBSET S : Cardinality(r) < Cardinality(s) => r \notin bad
  <2>1. bad \in SUBSET SUBSET S OBVIOUS
  <2> HIDE DEF bad
  <2> QED BY <2>1, SmallestSubset
<1>2. s # {} BY DEF SumStep
<1>3. s \ {AnyOf(s)} \in SUBSET S /\ s \ {AnyOf(s)} \notin bad
  BY <1>1, <1>2, AnyOfIn, SmallerWithout
<1> QED BY <1>2, <1>3 DEF SumStep

LEMMA SumOfPart ==
  ASSUME NEW f, NEW S, IsFiniteSet(S), NEW s \in SUBSET S
  PROVE  SumOver(f, s) = Sums(f, S)[s]
<1>1. IsFiniteSet(s) BY FS_Subset
<1>2. \A r \in SUBSET s : Sums(f, s)[r] = SumStep(f, Sums(f, s), r)
  BY <1>1, SumsAt
<1>3. \A r \in SUBSET s : Sums(f, S)[r] = SumStep(f, Sums(f, S), r)
  BY SumsAt
<1>4. \A r \in SUBSET s : Sums(f, s)[r] = Sums(f, S)[r]
  <2> DEFINE g == Sums(f, s)
             h == Sums(f, S)
  <2>1. Solves(f, s, g) BY <1>2 DEF Solves
  <2>2. Solves(f, s, h) BY <1>3 DEF Solves
  <2> HIDE DEF g, h
  <2>3. \A r \in SUBSET s : g[r] = h[r] BY <1>1, <2>1, <2>2, SumsUnique
  <2> QED BY <2>3 DEF g, h
<1> QED BY <1>4, SumUnfolds

(* A sum of integers is one, whatever is summed first.                     *)
LEMMA SumType ==
  ASSUME NEW f, NEW S, IsFiniteSet(S), \A x \in S : f[x] \in Int
  PROVE  \A s \in SUBSET S : SumOver(f, s) \in Int
<1> DEFINE g == Sums(f, S)
           bad == {s \in SUBSET S : g[s] \notin Int}
<1>1. \A s \in SUBSET S : g[s] = SumStep(f, g, s) BY SumsAt
<1> HIDE DEF g
<1>2. bad = {}
  <2> SUFFICES ASSUME bad # {} PROVE FALSE OBVIOUS
  <2>1. PICK s \in bad : \A r \in SUBSET S : Cardinality(r) < Cardinality(s) => r \notin bad
    <3>1. bad \in SUBSET SUBSET S OBVIOUS
    <3> HIDE DEF bad
    <3> QED BY <3>1, SmallestSubset
  <2>0. s \in SUBSET S /\ g[s] = SumStep(f, g, s) /\ g[s] \notin Int BY <1>1
  <2>2. s # {} BY <2>0 DEF SumStep
  <2>3. AnyOf(s) \in s BY <2>2, AnyOfIn
  <2>4. s \ {AnyOf(s)} \in SUBSET S /\ s \ {AnyOf(s)} \notin bad
    BY <2>1, <2>3, SmallerWithout
  <2>5. g[s \ {AnyOf(s)}] \in Int /\ f[AnyOf(s)] \in Int BY <2>0, <2>3, <2>4
  <2> HIDE DEF bad
  <2> QED BY <2>0, <2>2, <2>5 DEF SumStep
<1> QED BY <1>2, SumOfPart DEF g

LEMMA SumWithout ==
  ASSUME NEW f, NEW S, IsFiniteSet(S), \A x \in S : f[x] \in Int, NEW e \in S
  PROVE  SumOver(f, S) = f[e] + SumOver(f, S \ {e})
<1> DEFINE g == Sums(f, S)
           bad == {s \in SUBSET S : \E x \in s : g[s] # f[x] + g[s \ {x}]}
<1>1. \A s \in SUBSET S : g[s] = SumStep(f, g, s) BY SumsAt
<1>2. \A s \in SUBSET S : SumOver(f, s) = g[s] BY SumOfPart
<1>3. \A s \in SUBSET S : g[s] \in Int BY <1>2, SumType
<1> HIDE DEF g
<1>4. bad = {}
  <2> SUFFICES ASSUME bad # {} PROVE FALSE OBVIOUS
  <2>1. PICK s \in bad : \A r \in SUBSET S : Cardinality(r) < Cardinality(s) => r \notin bad
    <3>1. bad \in SUBSET SUBSET S OBVIOUS
    <3> HIDE DEF bad
    <3> QED BY <3>1, SmallestSubset
  <2>2. PICK x \in s : g[s] # f[x] + g[s \ {x}] OBVIOUS
  <2> DEFINE c == AnyOf(s)
             rest == s \ {x, c}
  <2>3. c \in s /\ g[s] = f[c] + g[s \ {c}]
    BY <1>1, AnyOfIn DEF SumStep
  <2>4. x # c BY <2>2, <2>3
  <2>5. s \ {c} \notin bad /\ s \ {x} \notin bad
    BY <2>1, <2>3, SmallerWithout
  <2> HIDE DEF c
  <2>6. /\ s \ {c} \in SUBSET S /\ x \in s \ {c} /\ (s \ {c}) \ {x} = rest
        /\ s \ {x} \in SUBSET S /\ c \in s \ {x} /\ (s \ {x}) \ {c} = rest
        /\ rest \in SUBSET S
    BY <2>3, <2>4
  <2>7. g[s \ {c}] = f[x] + g[rest] /\ g[s \ {x}] = f[c] + g[rest]
    BY <2>5, <2>6
  <2>8. f[x] \in Int /\ f[c] \in Int /\ g[rest] \in Int BY <1>3, <2>3, <2>6
  <2>9. g[s] = f[x] + g[s \ {x}] BY <2>3, <2>7, <2>8
  <2> QED BY <2>2, <2>9
<1>5. g[S] = f[e] + g[S \ {e}] BY <1>4
<1> QED BY <1>2, <1>5

LEMMA SumSame ==
  ASSUME NEW f, NEW h, NEW S, IsFiniteSet(S), \A x \in S : f[x] = h[x]
  PROVE  SumOver(f, S) = SumOver(h, S)
<1>1. \A s \in SUBSET S : Sums(f, S)[s] = SumStep(f, Sums(f, S), s) BY SumsAt
<1>2. ASSUME NEW s \in SUBSET S PROVE SumStep(f, Sums(f, S), s) = SumStep(h, Sums(f, S), s)
  <2>1. s # {} => AnyOf(s) \in S BY AnyOfIn
  <2> QED BY <2>1 DEF SumStep
<1>3. \A s \in SUBSET S : Sums(f, S)[s] = SumStep(h, Sums(f, S), s) BY <1>1, <1>2
<1>4. \A s \in SUBSET S : Sums(h, S)[s] = SumStep(h, Sums(h, S), s) BY SumsAt
<1>5. \A s \in SUBSET S : Sums(f, S)[s] = Sums(h, S)[s]
  <2> DEFINE g == Sums(f, S)
             k == Sums(h, S)
  <2>1. Solves(h, S, g) BY <1>3 DEF Solves
  <2>2. Solves(h, S, k) BY <1>4 DEF Solves
  <2> HIDE DEF g, k
  <2>3. \A s \in SUBSET S : g[s] = k[s] BY <2>1, <2>2, SumsUnique
  <2> QED BY <2>3 DEF g, k
<1> QED BY <1>5, SumUnfolds
===============================================================================
