------------------------ MODULE LayerLoading_proofs ------------------------
(***************************************************************************)
(* Lemmas about loading layers (get_layer of src/src/storage/layer.rs and of *)
(* the cache): the ancestors by the parent files, the stacks of layers in  *)
(* memory and their triples, and that a load ends with the layer that was  *)
(* asked for.                                                              *)
(***************************************************************************)
EXTENDS LayerInvariants, SequenceTheorems, WellFoundedInduction, TLAPS

\* A set of natural numbers that is not empty has a least member: the induction
\* of the proofs below, as the absence of a least counterexample.
LEMMA LeastNat == \A T \in SUBSET Nat : T # {} => \E x \in T : \A y \in T : x <= y
<1> SUFFICES ASSUME NEW T \in SUBSET Nat, T # {} PROVE \E x \in T : \A y \in T : x <= y
  OBVIOUS
<1>1. PICK x \in T : \A y \in T : ~(<<y,x>> \in OpToRel(<, Nat))
  BY NatLessThanWellFounded, WFMin
<1>2. \A y \in T : ~(y < x)
  BY <1>1 DEF OpToRel
<1> QED BY <1>2

\* The last member of layers_to_load and those before it.
LEMMA LastAndFront == ASSUME NEW S, NEW s \in Seq(S), s # <<>>
  PROVE /\ Last(s) = s[Len(s)] /\ Last(s) \in S
        /\ Front(s) \in Seq(S) /\ Len(Front(s)) = Len(s) - 1
        /\ \A i \in 1..Len(s) - 1 : Front(s)[i] = s[i]
<1> DEFINE k == Len(s) - 1
<1>1. Len(s) \in Nat \ {0} /\ \A i \in 1..Len(s) : s[i] \in S
  OBVIOUS
<1>2. k \in Nat /\ \A i \in 1..k : s[i] \in S
  BY <1>1
<1>3. Last(s) = s[Len(s)] /\ Last(s) \in S
  BY <1>1 DEF Last
<1>4. Front(s) = SubSeq(s, 1, k)
  BY DEF Front
<1> HIDE DEF k
<1>5. /\ SubSeq(s,1,k) \in Seq(S)
      /\ Len(SubSeq(s,1,k)) = IF 1 <= k THEN k - 1 + 1 ELSE 0
      /\ \A i \in 1 .. k - 1 + 1 : SubSeq(s,1,k)[i] = s[1 + i - 1]
  BY <1>2, SubSeqProperties
<1> DEFINE q == SubSeq(s,1,k)
<1> HIDE DEF q
<1>6. Len(q) = k /\ \A i \in 1..k : q[i] = s[i]
  BY <1>2, <1>5 DEF q
<1>7. q = Front(s) /\ q \in Seq(S)
  BY <1>4, <1>5 DEF q
<1> QED BY <1>3, <1>6, <1>7 DEF k

\* Ancestors
IsChain(par, n, s) ==
    /\ s \in Seq(Names) /\ s # <<>> /\ s[1] = n
    /\ \A i \in 1..Len(s) : par[s[i]] = IF i = Len(s) THEN None ELSE s[i + 1]

\* A layer on top of the chain of its parent is the chain of that layer.
LEMMA ChainOnTop ==
  ASSUME NEW par \in [Names -> Names \cup {None}], NEW n \in Names, par[n] \in Names, NEW s,
         IsChain(par, par[n], s)
  PROVE  IsChain(par, n, <<n>> \o s)
<1> DEFINE r == <<n>> \o s
<1>1. r \in Seq(Names) /\ Len(r) = Len(s) + 1 /\ r[1] = n /\ Len(s) \in Nat \ {0}
  BY DEF IsChain
<1>2. \A i \in 1..Len(s) : r[i + 1] = s[i]
  BY DEF IsChain
<1>3. \A i \in 2..Len(r) : r[i] = s[i - 1]
  BY DEF IsChain
<1>4. ASSUME NEW i \in 1..Len(r) PROVE par[r[i]] = IF i = Len(r) THEN None ELSE r[i + 1]
  <2> HIDE DEF r
  <2>1. CASE i = 1
    BY <2>1, <1>1, <1>2 DEF IsChain
  <2>2. CASE i # 1
     <3>1. i - 1 \in 1..Len(s) /\ r[i] = s[i - 1]
       BY <2>2, <1>1, <1>3
     <3>2. par[s[i - 1]] = IF i - 1 = Len(s) THEN None ELSE s[i]
       BY <3>1 DEF IsChain
     <3>3. i # Len(r) => r[i + 1] = s[i]
       BY <1>1, <1>2
     <3> QED BY <3>1, <3>2, <3>3, <1>1
  <2> QED BY <2>1, <2>2
<1> QED BY <1>1, <1>4 DEF IsChain

\* Two chains of the same layer agree as far as the first one goes.
LEMMA ChainPrefix ==
  ASSUME NEW par \in [Names -> Names \cup {None}], None \notin Names, NEW n, NEW s, NEW r,
         IsChain(par, n, s), IsChain(par, n, r)
  PROVE  \A i \in 1..Len(s) : i \in 1..Len(r) /\ s[i] = r[i]
<1>1. s \in Seq(Names) /\ Len(s) \in Nat \ {0} /\ s[1] = n
  BY DEF IsChain
<1>2. r \in Seq(Names) /\ Len(r) \in Nat \ {0} /\ r[1] = n
  BY DEF IsChain
<1> DEFINE T == {i \in 1..Len(s) : ~(i \in 1..Len(r) /\ s[i] = r[i])}
<1> SUFFICES ASSUME T # {} PROVE FALSE
  OBVIOUS
<1> T \in SUBSET Nat
  OBVIOUS
<1>3. PICK i \in T : \A j \in T : i <= j
  BY LeastNat
<1>4. i # 1
  BY <1>1, <1>2
<1>5. i - 1 \in 1..Len(s) /\ i \in 1..Len(s) /\ i - 1 \notin T
  BY <1>1, <1>3, <1>4
<1>6. i - 1 \in 1..Len(r) /\ s[i - 1] = r[i - 1]
  BY <1>5
<1>7. par[s[i - 1]] = s[i] /\ s[i] \in Names
  BY <1>5, <1>1 DEF IsChain
<1>8. i - 1 # Len(r) /\ par[r[i - 1]] = r[i]
  BY <1>6, <1>7, <1>2 DEF IsChain
<1> QED BY <1>5, <1>6, <1>7, <1>8, <1>2

\* A layer has one chain of ancestors.
LEMMA ChainUnique ==
  ASSUME NEW par \in [Names -> Names \cup {None}], None \notin Names, NEW n, NEW s, NEW r,
         IsChain(par, n, s), IsChain(par, n, r)
  PROVE  s = r
<1>1. s \in Seq(Names) /\ Len(s) \in Nat /\ r \in Seq(Names) /\ Len(r) \in Nat
  BY DEF IsChain
<1>2. \A i \in 1..Len(s) : i \in 1..Len(r) /\ s[i] = r[i]
  BY ChainPrefix
<1>3. \A i \in 1..Len(r) : i \in 1..Len(s)
  BY ChainPrefix
<1> QED BY <1>1, <1>2, <1>3, SeqEqual

\* A base layer is a chain on its own.
LEMMA ChainOfOne ==
  ASSUME NEW par \in [Names -> Names \cup {None}], None \notin Names, NEW n \in Names,
         par[n] = None
  PROVE  IsChain(par, n, <<n>>)
  BY DEF IsChain

\* When the parent files make no circle, every layer has a chain of ancestors.
LEMMA ChainExists ==
  ASSUME NEW par \in [Names -> Names \cup {None}], WellFounded(par), None \notin Names
  PROVE  \A n \in Names : \E s : IsChain(par, n, s)
<1> DEFINE S == {n \in Names : ~ \E s : IsChain(par, n, s)}
<1> SUFFICES ASSUME S # {} PROVE FALSE
  OBVIOUS
<1>1. PICK n \in S : par[n] \notin S
  BY DEF WellFounded
<1>2. CASE par[n] = None
  BY <1>2, ChainOfOne
<1>3. CASE par[n] \in Names
  BY <1>1, <1>3, ChainOnTop
<1> QED BY <1>2, <1>3

\* The recursion that walks back the parent files has a solution when they make no
\* circle.
LEMMA AncestryExists ==
  ASSUME NEW par \in [Names -> Names \cup {None}], WellFounded(par), None \notin Names
  PROVE  \E f : f = [m \in Names |-> <<m>> \o IF par[m] = None THEN <<>> ELSE f[par[m]]]
<1> DEFINE f == [m \in Names |-> CHOOSE s : IsChain(par, m, s)]
<1>1. \A m \in Names : IsChain(par, m, f[m])
  BY ChainExists
<1>2. ASSUME NEW m \in Names PROVE f[m] = <<m>> \o IF par[m] = None THEN <<>> ELSE f[par[m]]
  <2> HIDE DEF f
  <2>1. CASE par[m] = None
    <3>1. f[m] = <<m>>
      BY <1>1, <2>1, ChainOfOne, ChainUnique
    <3> QED BY <2>1, <3>1
  <2>2. CASE par[m] \in Names
    BY <2>2, <1>1, ChainOnTop, ChainUnique
  <2> QED BY <2>1, <2>2
<1>3. f = [m \in Names |-> <<m>> \o IF par[m] = None THEN <<>> ELSE f[par[m]]]
  <2>1. f = [m \in Names |-> f[m]]
    OBVIOUS
  <2> HIDE DEF f
  <2> QED BY <2>1, <1>2
<1> QED BY <1>3

\* What solves that recursion gives every layer its chain.
LEMMA AncestryIsChain ==
  ASSUME NEW par \in [Names -> Names \cup {None}], WellFounded(par), None \notin Names, NEW f,
         \A m \in Names : f[m] = <<m>> \o IF par[m] = None THEN <<>> ELSE f[par[m]]
  PROVE  \A m \in Names : IsChain(par, m, f[m])
<1> DEFINE S == {m \in Names : ~IsChain(par, m, f[m])}
<1> SUFFICES ASSUME S # {} PROVE FALSE
  OBVIOUS
<1>1. PICK n \in S : par[n] \notin S
  BY DEF WellFounded
<1>2. CASE par[n] = None
  <2>1. f[n] = <<n>> \o <<>>
    BY <1>2
  <2>2. f[n] = <<n>>
    BY <2>1
  <2> QED BY <2>2, <1>2, ChainOfOne
<1>3. CASE par[n] \in Names
  <2>1. IsChain(par, par[n], f[par[n]])
    BY <1>1, <1>3
  <2>2. f[n] = <<n>> \o f[par[n]]
    BY <1>3
  <2>3. IsChain(par, n, f[n])
    BY <2>1, <2>2, <1>3, ChainOnTop
  <2> QED BY <2>3
<1> QED BY <1>2, <1>3

\* f solves the recursion of StacksOn up to the n-th stack.
StacksUpTo(f, entries, ancestor, k, n) ==
    f = [i \in 0..n |-> IF i = 0 THEN ancestor
              ELSE LET e == entries[k + 1 - i] IN Rename(e, Loaded(e, f[i - 1]))]

\* The loop that loads layers_to_load one by one has a result.
LEMMA StacksExist ==
  ASSUME NEW entries, NEW ancestor, NEW k \in Nat
  PROVE  \A n \in Nat : \E f : StacksUpTo(f, entries, ancestor, k, n)
<1> DEFINE Sol(f, n) == StacksUpTo(f, entries, ancestor, k, n)
<1> USE DEF StacksUpTo
<1> DEFINE T == {n \in Nat : ~ \E f : Sol(f, n)}
<1> SUFFICES ASSUME T # {} PROVE FALSE
  OBVIOUS
<1> T \in SUBSET Nat
  OBVIOUS
<1>1. PICK n \in T : \A m \in T : n <= m
  BY LeastNat
<1>2. CASE n = 0
  <2>1. Sol([i \in 0..0 |-> ancestor], 0)
    OBVIOUS
  <2> QED BY <2>1, <1>2
<1>3. CASE n # 0
  <2>1. n - 1 \in Nat /\ n - 1 \notin T
    <3> HIDE DEF T
    <3> QED BY <1>1, <1>3
  <2>2. PICK f : Sol(f, n - 1)
    BY <2>1
  <2> DEFINE new == LET e == entries[k + 1 - n] IN Rename(e, Loaded(e, f[n - 1]))
             g == [i \in 0..n |-> IF i = n THEN new ELSE f[i]]
  <2>3. ASSUME NEW i \in 0..n PROVE g[i] = IF i = 0 THEN ancestor
              ELSE LET e == entries[k + 1 - i] IN Rename(e, Loaded(e, g[i - 1]))
    <3>1. CASE i = n
      <4>1. g[n - 1] = f[n - 1]
        BY <2>1
      <4> QED BY <3>1, <4>1, <1>3
    <3>2. CASE i # n
      <4>1. /\ i \in 0..(n - 1) /\ (i # 0 => i - 1 \in 0..(n - 1) /\ g[i - 1] = f[i - 1])
            /\ g[i] = f[i]
        BY <3>2, <2>1
      <4> QED BY <4>1, <2>2
    <3> QED BY <3>1, <3>2
  <2>4. Sol(g, n)
    <3>1. g = [i \in 0..n |-> g[i]]
      OBVIOUS
    <3> HIDE DEF g
    <3> QED BY <3>1, <2>3
  <2> QED BY <2>4
<1> QED BY <1>2, <1>3

\* What that loop computes: the i-th stack is the i-th entry from the end of
\* layers_to_load, loaded on top of the stack before and renamed.
LEMMA StacksOnDef ==
  ASSUME NEW entries, NEW ancestor, Len(entries) \in Nat
  PROVE  LET u == StacksOn(entries, ancestor)
             k == Len(entries)
         IN  /\ u[0] = ancestor
             /\ \A i \in 1..k :
                  u[i] = Rename(entries[k + 1 - i], Loaded(entries[k + 1 - i], u[i - 1]))
<1> DEFINE k == Len(entries)
           f == CHOOSE f : StacksUpTo(f, entries, ancestor, k, k)
<1>1. StacksOn(entries, ancestor) = f
  BY DEF StacksOn, StacksUpTo
<1>2. StacksUpTo(f, entries, ancestor, k, k)
  <2>1. \E g : StacksUpTo(g, entries, ancestor, k, k)
    BY StacksExist
  <2> QED BY <2>1
<1> HIDE DEF f
<1>4. 0 \in 0..k /\ 1..k \subseteq 0..k /\ 0 \notin 1..k
  OBVIOUS
<1> HIDE DEF k
<1>3. /\ f[0] = ancestor
      /\ \A i \in 1..k : f[i] = Rename(entries[k + 1 - i], Loaded(entries[k + 1 - i], f[i - 1]))
  BY <1>2, <1>4 DEF StacksUpTo
<1> QED BY <1>1, <1>3 DEF k

\* A sequence with one more member in front.
LEMMA InFront ==
  ASSUME NEW S, NEW x \in S, NEW s \in Seq(S)
  PROVE  /\ <<x>> \o s \in Seq(S) /\ <<x>> \o s # <<>>
         /\ Len(<<x>> \o s) = Len(s) + 1
         /\ Head(<<x>> \o s) = x
         /\ (<<x>> \o s)[1] = x
         /\ \A i \in 1..Len(s) : (<<x>> \o s)[i + 1] = s[i]
         /\ \A i \in 2..(Len(s) + 1) : (<<x>> \o s)[i] = s[i - 1]
  OBVIOUS

\* The layer that the files of an entry make on top of the layers below it.
LEMMA LoadedStack ==
  ASSUME NEW e \in Entry, NEW below \in Seq(Frame)
  PROVE  LET l == Loaded(e, below) IN
         /\ l \in Stacks
         /\ Len(l) = Len(below) + 1
         /\ Head(l) = l[1]
         /\ l[1] = [name |-> Source(e), data |-> Source(e),
                    parent |-> IF below = <<>> THEN None ELSE Head(below).name]
         /\ \A i \in 2..Len(l) : l[i] = below[i - 1]
<1> DEFINE f == [name |-> Source(e), data |-> Source(e),
                 parent |-> IF below = <<>> THEN None ELSE Head(below).name]
<1>1. below # <<>> => Head(below) \in Frame
  OBVIOUS
<1>2. f \in Frame
  BY <1>1 DEF Frame, Source, Entry
<1>3. Loaded(e, below) = <<f>> \o below
  BY DEF Loaded
<1> HIDE DEF f
<1>4. /\ <<f>> \o below \in Stacks
      /\ Len(<<f>> \o below) = Len(below) + 1
      /\ Head(<<f>> \o below) = f
      /\ (<<f>> \o below)[1] = f
      /\ \A i \in 2..(Len(below) + 1) : (<<f>> \o below)[i] = below[i - 1]
  BY <1>2, InFront DEF Stacks
<1> QED BY <1>3, <1>4 DEF f

\* A rollup layer shows the name and the parent of the layer it stands for.
LEMMA RenameStack ==
  ASSUME NEW e \in Entry, NEW l \in Stacks
  PROVE  LET r == Rename(e, l) IN
         /\ r \in Stacks
         /\ Len(r) = Len(l)
         /\ Head(r) = r[1]
         /\ r[1] = IF e.rollup = None THEN l[1]
                   ELSE [name |-> e.name, data |-> l[1].data, parent |-> e.parent]
         /\ \A i \in 2..Len(l) : r[i] = l[i]
<1>1. l \in Seq(Frame) /\ l # <<>> /\ Len(l) \in Nat \ {0} /\ Head(l) = l[1] /\ l[1] \in Frame
  BY DEF Stacks
<1>2. CASE e.rollup = None
  BY <1>1, <1>2 DEF Rename
<1>3. CASE e.rollup # None
  <2> DEFINE f == [name |-> e.name, data |-> l[1].data, parent |-> e.parent]
             t == Tail(l)
  <2>1. f \in Frame
    BY <1>1 DEF Frame, Entry
  <2>2. t \in Seq(Frame) /\ Len(t) = Len(l) - 1 /\ \A i \in 1..Len(t) : t[i] = l[i + 1]
    BY <1>1, HeadTailProperties
  <2>3. Rename(e, l) = <<f>> \o t
    BY <1>1, <1>3 DEF Rename
  <2> HIDE DEF f, t
  <2>4. /\ <<f>> \o t \in Stacks
        /\ Len(<<f>> \o t) = Len(t) + 1
        /\ Head(<<f>> \o t) = f
        /\ (<<f>> \o t)[1] = f
        /\ \A i \in 2..(Len(t) + 1) : (<<f>> \o t)[i] = t[i - 1]
    BY <2>1, <2>2, InFront DEF Stacks
  <2>5. ASSUME NEW i \in 2..Len(l) PROVE (<<f>> \o t)[i] = l[i]
    <3>1. i \in 2..(Len(t) + 1) /\ i - 1 \in 1..Len(t) /\ (i - 1) + 1 = i
      BY <1>1, <2>2
    <3>2. t[i - 1] = l[(i - 1) + 1]
      BY <3>1, <2>2
    <3> QED BY <3>1, <3>2, <2>4
  <2>6. Len(<<f>> \o t) = Len(l)
    BY <1>1, <2>2, <2>4
  <2> DEFINE r == <<f>> \o t
  <2> HIDE DEF r
  <2>7. /\ r \in Stacks /\ Len(r) = Len(l) /\ Head(r) = r[1] /\ r[1] = f
        /\ \A i \in 2..Len(l) : r[i] = l[i]
    BY <2>4, <2>5, <2>6 DEF r
  <2>8. Rename(e, l) = r
    BY <2>3 DEF r
  <2> QED BY <1>3, <2>7, <2>8 DEF f
<1> QED BY <1>2, <1>3

\* All stacks of the loop are layers.
LEMMA StacksOnType ==
  ASSUME NEW entries \in Seq(Entry), NEW ancestor \in Seq(Frame)
  PROVE  LET u == StacksOn(entries, ancestor)
             k == Len(entries)
         IN  /\ \A i \in 0..k : u[i] \in Seq(Frame)
             /\ \A i \in 1..k : u[i] \in Stacks
             /\ \A i \in 1..k : Loaded(entries[k + 1 - i], u[i - 1]) \in Stacks
<1> DEFINE u == StacksOn(entries, ancestor)
           k == Len(entries)
<1>1. k \in Nat /\ \A i \in 1..k : entries[k + 1 - i] \in Entry
  OBVIOUS
<1>2. /\ u[0] = ancestor
      /\ \A i \in 1..k : u[i] = Rename(entries[k + 1 - i], Loaded(entries[k + 1 - i], u[i - 1]))
  BY StacksOnDef
<1> HIDE DEF u, k
<1>3. ASSUME NEW i \in 1..k, u[i - 1] \in Seq(Frame)
      PROVE  u[i] \in Stacks /\ Loaded(entries[k + 1 - i], u[i - 1]) \in Stacks
  <2> DEFINE e == entries[k + 1 - i]
  <2>1. e \in Entry /\ u[i] = Rename(e, Loaded(e, u[i - 1]))
    BY <1>1, <1>2
  <2> HIDE DEF e
  <2>2. Loaded(e, u[i - 1]) \in Stacks
    BY <1>3, <2>1, LoadedStack
  <2>3. u[i] \in Stacks
    BY <2>1, <2>2, RenameStack
  <2> QED BY <2>2, <2>3 DEF e
<1>4. \A i \in 0..k : u[i] \in Seq(Frame)
  <2> DEFINE T == {i \in 0..k : u[i] \notin Seq(Frame)}
  <2> SUFFICES ASSUME T # {} PROVE FALSE
    OBVIOUS
  <2>1. T \in SUBSET Nat
    BY <1>1
  <2>2. PICK i \in T : \A j \in T : i <= j
    BY <2>1, LeastNat
  <2>3. i # 0 /\ i \in 0..k
    BY <1>2
  <2>4. i \in 1..k /\ i - 1 \in 0..k /\ i - 1 \notin T
    <3> HIDE DEF T
    <3> QED BY <1>1, <2>1, <2>2, <2>3
  <2>5. u[i - 1] \in Seq(Frame)
    BY <2>4
  <2> QED BY <1>3, <2>4, <2>5 DEF Stacks
<1>5. \A i \in 1..k : i - 1 \in 0..k
  BY <1>1
<1>6. \A i \in 1..k : u[i] \in Stacks /\ Loaded(entries[k + 1 - i], u[i - 1]) \in Stacks
  BY <1>3, <1>4, <1>5
<1> QED BY <1>4, <1>6 DEF u, k

HoldsIn(d, dirs, x) ==
    \E i \in DOMAIN dirs : x \in d[dirs[i]].add /\ \A j \in 1..(i - 1) : x \notin d[dirs[j]].rem

\* A triple is in a layer when the newest directory adds it, or does not remove it
\* and the rest has it.
LEMMA HoldsOnTop ==
  ASSUME NEW d, NEW dirs \in Seq(Names), NEW rest \in Seq(Names), NEW x,
         Len(dirs) = Len(rest) + 1, \A i \in 2..Len(dirs) : dirs[i] = rest[i - 1]
  PROVE  HoldsIn(d, dirs, x) <=> \/ x \in d[dirs[1]].add
                                 \/ x \notin d[dirs[1]].rem /\ HoldsIn(d, rest, x)
<1>1. /\ DOMAIN dirs = 1..Len(dirs) /\ DOMAIN rest = 1..Len(rest)
      /\ Len(dirs) \in Nat /\ Len(rest) \in Nat
  OBVIOUS
<1>2. ASSUME HoldsIn(d, dirs, x), x \notin d[dirs[1]].add
      PROVE  x \notin d[dirs[1]].rem /\ HoldsIn(d, rest, x)
  <2>1. PICK i \in 1..Len(dirs) :
          x \in d[dirs[i]].add /\ \A j \in 1..(i - 1) : x \notin d[dirs[j]].rem
    BY <1>1, <1>2 DEF HoldsIn
  <2>2. i \in 2..Len(dirs) /\ i - 1 \in 1..Len(rest) /\ 1 \in 1..(i - 1)
    BY <1>1, <1>2, <2>1
  <2>3. x \in d[rest[i - 1]].add
    BY <2>1, <2>2
  <2>4. ASSUME NEW j \in 1..((i - 1) - 1) PROVE x \notin d[rest[j]].rem
    <3>1. j + 1 \in 1..(i - 1) /\ j + 1 \in 2..Len(dirs) /\ (j + 1) - 1 = j
      BY <1>1, <2>2
    <3>2. dirs[j + 1] = rest[(j + 1) - 1]
      BY <3>1
    <3> QED BY <2>1, <3>1, <3>2
  <2> QED BY <1>1, <2>1, <2>2, <2>3, <2>4 DEF HoldsIn
<1>3. ASSUME x \in d[dirs[1]].add PROVE HoldsIn(d, dirs, x)
  <2>1. 1 \in 1..Len(dirs) /\ 1..(1 - 1) = {}
    BY <1>1
  <2> QED BY <1>1, <1>3, <2>1 DEF HoldsIn
<1>4. ASSUME x \notin d[dirs[1]].rem, HoldsIn(d, rest, x) PROVE HoldsIn(d, dirs, x)
  <2>1. PICK i \in 1..Len(rest) :
          x \in d[rest[i]].add /\ \A j \in 1..(i - 1) : x \notin d[rest[j]].rem
    BY <1>1, <1>4 DEF HoldsIn
  <2>2. i + 1 \in 2..Len(dirs) /\ (i + 1) - 1 = i /\ i + 1 \in 1..Len(dirs)
    BY <1>1, <2>1
  <2>3. dirs[i + 1] = rest[(i + 1) - 1]
    BY <2>2
  <2>4. ASSUME NEW j \in 1..((i + 1) - 1) PROVE x \notin d[dirs[j]].rem
    <3>1. CASE j = 1
      BY <1>4, <3>1
    <3>2. CASE j # 1
      <4>1. j \in 2..Len(dirs) /\ j - 1 \in 1..(i - 1)
        BY <1>1, <3>2, <2>2
      <4> QED BY <2>1, <4>1
    <3> QED BY <3>1, <3>2
  <2> QED BY <1>1, <2>1, <2>2, <2>3, <2>4 DEF HoldsIn
<1> QED BY <1>2, <1>3, <1>4

\* No triple is in no layer.
LEMMA HoldsNowhere == ASSUME NEW d, NEW x PROVE ~HoldsIn(d, <<>>, x)
  BY DEF HoldsIn

\* Which triples a layer has depends on the additions and removals of its
\* directories only.
LEMMA HoldsSame ==
  ASSUME NEW d, NEW g, NEW dirs, NEW x,
         \A i \in DOMAIN dirs :
           d[dirs[i]].add = g[dirs[i]].add /\ d[dirs[i]].rem = g[dirs[i]].rem,
         dirs \in Seq(Names)
  PROVE  HoldsIn(d, dirs, x) <=> HoldsIn(g, dirs, x)
<1>1. \A i \in DOMAIN dirs : \A j \in 1..(i - 1) : j \in DOMAIN dirs
  OBVIOUS
<1> QED BY <1>1 DEF HoldsIn

\* The directories of a layer in memory.
LEMMA DirsOfStack ==
  ASSUME NEW l \in Seq(Frame)
  PROVE  /\ DirsOf(l) \in Seq(Names) /\ Len(DirsOf(l)) = Len(l)
         /\ \A i \in 1..Len(l) : DirsOf(l)[i] = l[i].data
<1>1. DirsOf(l) = [i \in 1..Len(l) |-> l[i].data] /\ Len(l) \in Nat
  BY DEF DirsOf
<1>2. \A i \in 1..Len(l) : l[i] \in Frame
  OBVIOUS
<1>3. \A i \in 1..Len(l) : l[i].data \in Names
  BY <1>2 DEF Frame
<1> QED BY <1>1, <1>3

\* The triples of a layer, with the directories as a parameter.
LEMMA ContentHolds == \A l : Content(l) = {x \in Triples : HoldsIn(disk, DirsOf(l), x)}
  BY DEF Content, Holds, HoldsIn

\* The triples of a layer are those of the layers below without its removals, and
\* its additions.
LEMMA ContentOnTop ==
  ASSUME NEW l \in Seq(Frame), NEW below \in Seq(Frame), disk \in [Names -> Directory],
         Len(l) = Len(below) + 1, \A i \in 2..Len(l) : l[i].data = below[i - 1].data
  PROVE  Content(l) = (Content(below) \ disk[l[1].data].rem) \cup disk[l[1].data].add
<1> DEFINE dirs == DirsOf(l)
           rest == DirsOf(below)
<1>1. /\ dirs \in Seq(Names) /\ Len(dirs) = Len(l)
      /\ \A i \in 1..Len(l) : dirs[i] = l[i].data
  BY DirsOfStack
<1>2. /\ rest \in Seq(Names) /\ Len(rest) = Len(below)
      /\ \A i \in 1..Len(below) : rest[i] = below[i].data
  BY DirsOfStack
<1>3. /\ Content(l) = {x \in Triples : HoldsIn(disk, dirs, x)}
      /\ Content(below) = {x \in Triples : HoldsIn(disk, rest, x)}
  BY ContentHolds
<1> HIDE DEF dirs, rest
<1>4. Len(l) \in Nat /\ Len(below) \in Nat
  OBVIOUS
<1>5. ASSUME NEW i \in 2..Len(dirs) PROVE dirs[i] = rest[i - 1]
  <2>1. i \in 2..Len(l) /\ i \in 1..Len(l) /\ i - 1 \in 1..Len(below)
    BY <1>1, <1>4
  <2> QED BY <1>1, <1>2, <2>1
<1>6. dirs[1] = l[1].data /\ dirs[1] \in Names
  <2>1. 1 \in 1..Len(l)
    BY <1>4
  <2> QED BY <1>1, <2>1
<1>7. \A x : HoldsIn(disk, dirs, x) <=>
               (x \in disk[dirs[1]].add \/ (x \notin disk[dirs[1]].rem /\ HoldsIn(disk, rest, x)))
  <2>1. Len(dirs) = Len(rest) + 1 /\ \A i \in 2..Len(dirs) : dirs[i] = rest[i - 1]
    BY <1>1, <1>2, <1>5
  <2>2. dirs \in Seq(Names) /\ rest \in Seq(Names)
    BY <1>1, <1>2
  <2> QED BY <2>1, <2>2, HoldsOnTop
<1>8. disk[dirs[1]].add \subseteq Triples
  BY <1>6 DEF Directory
<1>9. \A x : x \in Content(l) <=>
        x \in (Content(below) \ disk[l[1].data].rem) \cup disk[l[1].data].add
  BY <1>3, <1>6, <1>7, <1>8
<1> QED BY <1>9

\* Nothing below a base layer.
LEMMA ContentOfNone == Content(<<>>) = {}
<1>1. DirsOf(<<>>) = <<>>
  BY DEF DirsOf
<1> QED BY <1>1, ContentHolds, HoldsNowhere

\* Layers made of the same directories have the same triples, whatever they are
\* named.
LEMMA ContentByDirs ==
  ASSUME NEW l \in Seq(Frame), NEW r \in Seq(Frame), Len(l) = Len(r),
         \A i \in 1..Len(l) : l[i].data = r[i].data
  PROVE  Content(l) = Content(r)
<1>1. DirsOf(l) = DirsOf(r)
  BY DEF DirsOf
<1> QED BY <1>1 DEF Content

\* retrieve_layer_stack_names: the ancestors of a layer are the layer, and the
\* ancestors of its parent.
LEMMA AncestryDef ==
  ASSUME disk \in [Names -> Directory], WellFounded(Parent), None \notin Names
  PROVE  \A n \in Names :
           /\ Ancestry(n) \in Seq(Names)
           /\ IsChain(Parent, n, Ancestry(n))
           /\ Ancestry(n) = <<n>> \o IF disk[n].parent = None THEN <<>>
                                    ELSE Ancestry(disk[n].parent)
<1> DEFINE IsBack(g) ==
             g = [m \in Names |->
                    <<m>> \o IF disk[m].parent = None THEN <<>> ELSE g[disk[m].parent]]
           f == CHOOSE g : IsBack(g)
<1>1. \A n : Ancestry(n) = f[n]
  BY DEF Ancestry
<1>2. Parent \in [Names -> Names \cup {None}]
  BY DEF Parent, Directory
<1>3. PICK b : b = [m \in Names |-> <<m>> \o IF Parent[m] = None THEN <<>> ELSE b[Parent[m]]]
  BY <1>2, AncestryExists
<1>4. IsBack(b)
  <2>1. \A m \in Names : Parent[m] = disk[m].parent
    BY DEF Parent
  <2>2. \A m \in Names :
          b[m] = <<m>> \o IF disk[m].parent = None THEN <<>> ELSE b[disk[m].parent]
    BY <1>3, <2>1
  <2>3. b = [m \in Names |-> b[m]]
    BY <1>3
  <2> QED BY <2>2, <2>3
<1>5. IsBack(f)
  BY <1>4
<1> HIDE DEF f
<1>6. \A m \in Names : f[m] = <<m>> \o IF disk[m].parent = None THEN <<>> ELSE f[disk[m].parent]
  BY <1>5
<1> HIDE DEF IsBack
<1>7. \A m \in Names : IsChain(Parent, m, f[m])
  <2>1. \A m \in Names : Parent[m] = disk[m].parent
    BY DEF Parent
  <2>2. \A m \in Names : f[m] = <<m>> \o IF Parent[m] = None THEN <<>> ELSE f[Parent[m]]
    BY <1>6, <2>1
  <2> QED BY <1>2, <2>2, AncestryIsChain
<1>8. \A m \in Names : f[m] \in Seq(Names)
  BY <1>7 DEF IsChain
<1> QED BY <1>1, <1>6, <1>7, <1>8

\* Loading the files of a complete directory on top of its parent gives that
\* layer.
LEMMA LoadedFits ==
  ASSUME TypeInv, DirectoryInv, NEW b \in BOOLEAN, ValuesFit(b),
         NEW e \in Entry, NEW below \in Seq(Frame),
         disk[Source(e)].state = "done",
         below = <<>> => disk[Source(e)].parent = None,
         below # <<>> => Fits(b, disk[Source(e)].parent, below)
  PROVE  Fits(b, Source(e), Loaded(e, below))
<1> DEFINE l == Loaded(e, below)
           n == Source(e)
           p == disk[n].parent
<1>1. /\ l \in Stacks
      /\ Len(l) = Len(below) + 1
      /\ Head(l) = l[1]
      /\ l[1] = [name |-> n, data |-> n, parent |-> IF below = <<>> THEN None ELSE Head(below).name]
      /\ \A i \in 2..Len(l) : l[i] = below[i - 1]
  BY LoadedStack
<1>2. n \in Names /\ disk[n].state = "done"
  BY LayerStoreAssumption DEF Source, Entry
<1>3. l[1].name = n /\ l[1].data = n /\ l[1].parent = p
  BY <1>1 DEF Fits, Named
<1> HIDE DEF l, n, p
<1>4. l \in Seq(Frame) /\ Len(l) \in Nat /\ Len(below) \in Nat
  BY <1>1 DEF Stacks
<1>5. ASSUME NEW i \in 1..Len(l) PROVE disk[l[i].data].state = "done"
  <2>1. CASE i = 1
    BY <2>1, <1>2, <1>3
  <2>2. CASE i # 1
    <3>1. i \in 2..Len(l) /\ i - 1 \in 1..Len(below) /\ l[i] = below[i - 1]
      BY <1>1, <1>4, <2>2
    <3>2. below # <<>>
      BY <3>1
    <3> QED BY <3>1, <3>2 DEF Fits, Named
  <2> QED BY <2>1, <2>2
<1>6. Named(n, l)
  BY <1>1, <1>2, <1>3, <1>5 DEF Named, p
<1>7. ASSUME b PROVE Content(l) = OwnValue(n)
  <2>1. Content(l) = (Content(below) \ disk[n].rem) \cup disk[n].add
    <3>1. \A i \in 2..Len(l) : l[i].data = below[i - 1].data
      BY <1>1
    <3>2. disk \in [Names -> Directory]
      BY DEF TypeInv
    <3> QED BY <3>1, <3>2, <1>1, <1>3, <1>4, ContentOnTop
  <2>2. CASE below = <<>>
    <3>1. p = None /\ Content(below) = {}
      BY <2>2, ContentOfNone DEF p, n
    <3> QED BY <2>1, <3>1 DEF OwnValue, p
  <2>3. CASE below # <<>>
    <3>1. Fits(b, p, below) /\ p \in Names
      BY <2>3 DEF p, n, Fits, Named
    <3>2. p # None /\ Committed(p)
      BY <3>1, <1>2, LayerStoreAssumption DEF p, DirectoryInv
    <3>3. Content(below) = truth[p]
      BY <1>7, <3>1, <3>2 DEF Fits, ValuesFit
    <3> QED BY <2>1, <3>2, <3>3 DEF OwnValue, p
  <2> QED BY <2>2, <2>3
<1>8. Fits(b, n, l)
  BY <1>6, <1>7 DEF Fits
<1> QED BY <1>8 DEF n, l

\* Renaming a loaded rollup gives the layer that the rollup stands for.
LEMMA RenamedFits ==
  ASSUME TypeInv, DirectoryInv, NEW b \in BOOLEAN, ValuesFit(b),
         NEW e \in Entry, EntryFits(b, e), NEW l, Fits(b, Source(e), l)
  PROVE  Fits(b, e.name, Rename(e, l))
<1>1. CASE e.rollup = None
  BY <1>1 DEF Source, Rename
<1>2. CASE e.rollup # None
  <2> DEFINE r == Rename(e, l)
             n == e.name
  <2>1. l \in Stacks /\ l \in Seq(Frame) /\ Len(l) \in Nat \ {0}
    BY DEF Fits, Named, Stacks
  <2>2. /\ r \in Stacks
        /\ Len(r) = Len(l)
        /\ Head(r) = r[1]
        /\ r[1] = [name |-> n, data |-> l[1].data, parent |-> e.parent]
        /\ \A i \in 2..Len(l) : r[i] = l[i]
    BY <2>1, <1>2, RenameStack
  <2>3. n \in Names /\ disk[n].state = "done" /\ e.parent = disk[n].parent /\ Committed(n)
    BY <1>2 DEF Entry, EntryFits, DirectoryInv
  <2> HIDE DEF r, n
  <2>4. \A i \in 1..Len(l) : r[i].data = l[i].data
    <3>1. r[1].data = l[1].data
      BY <2>2
    <3>2. \A i \in 1..Len(l) : i = 1 \/ i \in 2..Len(l)
      BY <2>1
    <3> QED BY <3>1, <3>2, <2>2
  <2>5. Named(n, r)
    <3>1. \A i \in 1..Len(r) : disk[r[i].data].state = "done"
      BY <2>2, <2>4 DEF Fits, Named
    <3>2. Head(r).name = n /\ Head(r).parent = disk[n].parent
      BY <2>2, <2>3
    <3> QED BY <3>1, <3>2, <2>2, <2>3 DEF Named
  <2>6. ASSUME b PROVE Content(r) = OwnValue(n)
    <3>1. Content(r) = Content(l)
      BY <2>1, <2>2, <2>4, ContentByDirs DEF Stacks
    <3>2. Content(l) = OwnValue(e.rollup)
      BY <2>6, <1>2 DEF Fits, Source
    <3>3. OwnValue(e.rollup) = truth[n] /\ truth[n] = OwnValue(n)
      BY <2>6, <1>2, <2>3 DEF EntryFits, ValuesFit, n
    <3> QED BY <3>1, <3>2, <3>3
  <2>7. Fits(b, n, r)
    BY <2>5, <2>6 DEF Fits
  <2> QED BY <2>7 DEF n, r
<1> QED BY <1>1, <1>2

\* As long as the directories are complete, every layer that the loop of get_layer
\* loads is the one it is loaded for, and so is what a rollup is loaded as.
LEMMA StacksFit ==
  ASSUME TypeInv, DirectoryInv, NEW b \in BOOLEAN, ValuesFit(b),
         NEW entries \in Seq(Entry), NEW ancestor \in Seq(Frame), NEW n \in 0..Len(entries),
         \A i \in 1..Len(entries) : EntryFits(b, entries[i]),
         \A i \in 1..(Len(entries) - 1) : disk[Source(entries[i])].parent = entries[i + 1].name,
         entries # <<>> =>
           IF ancestor = <<>> THEN disk[Source(entries[Len(entries)])].parent = None
                           ELSE Fits(b, disk[Source(entries[Len(entries)])].parent, ancestor),
         \A i \in (Len(entries) + 1 - n)..Len(entries) : disk[Source(entries[i])].state = "done"
  PROVE  LET u == StacksOn(entries, ancestor)
             entry(i) == entries[Len(entries) + 1 - i]
         IN  \A i \in 1..n : /\ Fits(b, entry(i).name, u[i])
                             /\ Fits(b, Source(entry(i)), Loaded(entry(i), u[i - 1]))
<1> DEFINE u == StacksOn(entries, ancestor)
           k == Len(entries)
           entry(i) == entries[k + 1 - i]
<1>1. /\ k \in Nat /\ n \in Nat /\ n <= k
      /\ \A i \in 1..k : k + 1 - i \in 1..k /\ entry(i) \in Entry
  OBVIOUS
<1>2. u[0] = ancestor /\ \A i \in 1..k : u[i] = Rename(entry(i), Loaded(entry(i), u[i - 1]))
  BY StacksOnDef
<1>3. \A i \in 0..k : u[i] \in Seq(Frame)
  BY StacksOnType
<1>4. \A i \in 1..n : i \in 1..k /\ i - 1 \in 0..k
  BY <1>1
<1>5. \A i \in 1..n : disk[Source(entry(i))].state = "done"
  <2>1. \A i \in 1..n : k + 1 - i \in (k + 1 - n)..k
    BY <1>1
  <2> QED BY <2>1
<1>6. \A i \in 1..n : EntryFits(b, entry(i))
  BY <1>1, <1>4
<1>7. \A i \in 2..k : disk[Source(entry(i))].parent = entry(i - 1).name
  <2>1. \A i \in 2..k : k + 1 - i \in 1..(k - 1) /\ (k + 1 - i) + 1 = k + 1 - (i - 1)
    BY <1>1
  <2> QED BY <2>1
<1>8. k # 0 => IF ancestor = <<>> THEN disk[Source(entry(1))].parent = None
                                  ELSE Fits(b, disk[Source(entry(1))].parent, ancestor)
  <2>1. k # 0 => entries # <<>>
    BY <1>1
  <2>2. k + 1 - 1 = k
    BY <1>1
  <2> QED BY <2>1, <2>2
<1> DEFINE OK(i) == /\ Fits(b, entry(i).name, u[i])
                    /\ Fits(b, Source(entry(i)), Loaded(entry(i), u[i - 1]))
<1> HIDE DEF u, k, entry
<1>9. ASSUME NEW i \in 1..n, i # 1 => Fits(b, entry(i - 1).name, u[i - 1]) PROVE OK(i)
  <2> DEFINE e == entry(i)
             below == u[i - 1]
  <2>1. /\ e \in Entry /\ below \in Seq(Frame) /\ disk[Source(e)].state = "done"
        /\ EntryFits(b, e)
        /\ u[i] = Rename(e, Loaded(e, below))
    BY <1>1, <1>2, <1>3, <1>4, <1>5, <1>6
  <2>2. /\ below = <<>> => disk[Source(e)].parent = None
        /\ below # <<>> => Fits(b, disk[Source(e)].parent, below)
    <3>1. CASE i = 1
      <4>1. below = ancestor /\ k # 0
        BY <3>1, <1>1, <1>2
      <4> QED BY <3>1, <4>1, <1>8
    <3>2. CASE i # 1
      <4>1. i \in 2..k
        BY <3>2, <1>1
      <4>2. Fits(b, disk[Source(e)].parent, below)
        BY <3>2, <4>1, <1>7, <1>9
      <4>3. below # <<>>
        BY <4>2 DEF Fits, Named, Stacks
      <4> QED BY <4>2, <4>3
    <3> QED BY <3>1, <3>2
  <2> HIDE DEF e, below
  <2>3. Fits(b, Source(e), Loaded(e, below))
    BY <2>1, <2>2, LoadedFits
  <2>4. Fits(b, e.name, u[i])
    BY <2>1, <2>3, RenamedFits
  <2> QED BY <2>3, <2>4 DEF e, below
<1>10. \A i \in 1..n : OK(i)
  <2> DEFINE T == {i \in 1..n : ~OK(i)}
  <2> SUFFICES ASSUME T # {} PROVE FALSE
    OBVIOUS
  <2>1. T \in SUBSET Nat
    BY <1>1
  <2>2. PICK i \in T : \A j \in T : i <= j
    BY <2>1, LeastNat
  <2>3. i \in 1..n /\ (i # 1 => i - 1 \in 1..n /\ i - 1 \notin T)
    <3>1. i \in 1..n
      OBVIOUS
    <3> HIDE DEF T
    <3> QED BY <3>1, <1>1, <2>1, <2>2
  <2>4. i # 1 => OK(i - 1)
    BY <2>3
  <2> QED BY <1>9, <2>3, <2>4
<1> QED BY <1>10 DEF u, k, entry

\* The loop stops at the first directory that is not complete, or at the end.
LEMMA LoadableExists ==
  ASSUME NEW entries, Len(entries) \in Nat
  PROVE  LET k == Len(entries)
             complete(n) == \A i \in (k + 1 - n)..k : disk[Source(entries[i])].state = "done"
         IN  \E n \in 0..k : complete(n) /\ (n = k \/ ~complete(n + 1))
<1> DEFINE k == Len(entries)
           complete(n) == \A i \in (k + 1 - n)..k : disk[Source(entries[i])].state = "done"
           T == {n \in 0..k : n = k \/ ~complete(n + 1)}
<1>1. k \in T /\ T \in SUBSET Nat
  OBVIOUS
<1>2. PICK n \in T : \A m \in T : n <= m
  BY <1>1, LeastNat
<1>3. n \in 0..k /\ (n = k \/ ~complete(n + 1))
  OBVIOUS
<1>4. complete(n)
  <2>1. CASE n = 0
    BY <2>1
  <2>2. CASE n # 0
    <3>1. n - 1 \in 0..k /\ n - 1 \notin T /\ n - 1 # k /\ (n - 1) + 1 = n
      <4> HIDE DEF T
      <4> QED BY <1>1, <1>2, <1>3, <2>2
    <3>2. complete((n - 1) + 1)
      BY <3>1
    <3> QED BY <3>1, <3>2
  <2> QED BY <2>1, <2>2
<1> QED BY <1>3, <1>4

\* What the loop puts into the cache is what the cache should have.
LEMMA CacheAfterFits ==
  ASSUME NEW b, TypeInv, NEW entries \in Seq(Entry), NEW ancestor \in Seq(Frame),
         NEW n \in 0..Len(entries),
         LET u == StacksOn(entries, ancestor)
             entry(i) == entries[Len(entries) + 1 - i]
         IN  \A i \in 1..n : /\ Fits(b, entry(i).name, u[i])
                             /\ Fits(b, Source(entry(i)), Loaded(entry(i), u[i - 1]))
  PROVE  /\ CacheAfter(entries, ancestor, n) \in [Names -> {None} \cup Stacks]
         /\ \A m \in Names : \/ CacheAfter(entries, ancestor, n)[m] = cache[m]
                             \/ Fits(b, m, CacheAfter(entries, ancestor, n)[m])
<1> DEFINE u == StacksOn(entries, ancestor)
           entry(i) == entries[Len(entries) + 1 - i]
           after(m) == IF \E i \in 1..n : entry(i).name = m
                       THEN u[CHOOSE i \in 1..n : entry(i).name = m]
                       ELSE IF \E i \in 1..n : entry(i).rollup = m
                       THEN LET i == CHOOSE i \in 1..n : entry(i).rollup = m
                            IN  Loaded(entry(i), u[i - 1])
                       ELSE cache[m]
<1>1. CacheAfter(entries, ancestor, n) = [m \in Names |-> after(m)]
  BY DEF CacheAfter
<1>2. \A i \in 1..n :
        Fits(b, entry(i).name, u[i]) /\ Fits(b, Source(entry(i)), Loaded(entry(i), u[i - 1]))
  OBVIOUS
<1> HIDE DEF u, entry
<1>3. ASSUME NEW m \in Names PROVE after(m) = cache[m] \/ Fits(b, m, after(m))
  <2>1. CASE \E i \in 1..n : entry(i).name = m
    <3> DEFINE i == CHOOSE i \in 1..n : entry(i).name = m
    <3>1. i \in 1..n /\ entry(i).name = m
      BY <2>1
    <3>2. after(m) = u[i]
      BY <2>1
    <3> HIDE DEF i
    <3>3. Fits(b, entry(i).name, u[i])
      BY <3>1, <1>2
    <3> QED BY <3>1, <3>2, <3>3
  <2>2. CASE ~(\E i \in 1..n : entry(i).name = m) /\ \E i \in 1..n : entry(i).rollup = m
    <3> DEFINE i == CHOOSE i \in 1..n : entry(i).rollup = m
    <3>1. i \in 1..n /\ entry(i).rollup = m
      BY <2>2
    <3>2. after(m) = Loaded(entry(i), u[i - 1])
      BY <2>2
    <3> HIDE DEF i
    <3>3. Source(entry(i)) = m
      BY <3>1, LayerStoreAssumption DEF Source
    <3>4. Fits(b, Source(entry(i)), Loaded(entry(i), u[i - 1]))
      BY <3>1, <1>2
    <3> QED BY <3>2, <3>3, <3>4
  <2>3. CASE ~(\E i \in 1..n : entry(i).name = m) /\ ~(\E i \in 1..n : entry(i).rollup = m)
    BY <2>3
  <2> QED BY <2>1, <2>2, <2>3
<1> HIDE DEF after
<1>4. \A m \in Names : after(m) \in {None} \cup Stacks
  BY <1>3 DEF TypeInv, Fits, Named
<1> QED BY <1>1, <1>3, <1>4

\* What LoadAll leads to.
LoadsTo(t, l) ==
    task' = [task EXCEPT
                    ![t].load = <<>>,
                    ![t].layer = IF task[t].pc = "load" THEN l ELSE @,
                    ![t].pc = CASE task[t].op = "get" \/ task[t].new # None -> "return"
                                [] task[t].op \in {"child", "squash"} \/ task[t].pc = "load_upto"
                                     -> "create"
                                [] OTHER -> "perform"]

CacheFits(b) ==
    /\ cache' \in [Names -> {None} \cup Stacks]
    /\ \A m \in Names : cache'[m] = cache[m] \/ Fits(b, m, cache'[m])

\* The loop as a whole: an error, or the layer that was asked for.
LEMMA LoadAllFits ==
  ASSUME TypeInv, DirectoryInv, NEW b \in BOOLEAN, ValuesFit(b), NEW t \in Tasks, NEW first,
         NEW entries \in Seq(Entry), NEW ancestor \in Seq(Frame),
         \A i \in 1..Len(entries) : EntryFits(b, entries[i]),
         \A i \in 1..(Len(entries) - 1) : disk[Source(entries[i])].parent = entries[i + 1].name,
         entries # <<>> =>
           IF ancestor = <<>> THEN disk[Source(entries[Len(entries)])].parent = None
                           ELSE Fits(b, disk[Source(entries[Len(entries)])].parent, ancestor),
         IF entries = <<>> THEN Fits(b, first, ancestor) ELSE first = entries[1].name,
         LoadAll(t, entries, ancestor)
  PROVE  /\ CacheFits(b)
         /\ Return(t, "err") \/ \E l : Fits(b, first, l) /\ LoadsTo(t, l)
<1> DEFINE k == Len(entries)
           complete(n) == \A i \in (k + 1 - n)..k : disk[Source(entries[i])].state = "done"
           loadable == CHOOSE n \in 0..k : complete(n) /\ (n = k \/ ~complete(n + 1))
           u == StacksOn(entries, ancestor)
           entry(i) == entries[k + 1 - i]
<1>1. k \in Nat
  OBVIOUS
<1>2. loadable \in 0..k /\ complete(loadable)
  <2>1. \E n \in 0..k : complete(n) /\ (n = k \/ ~complete(n + 1))
    BY <1>1, LoadableExists
  <2> QED BY <2>1
<1>3. /\ cache' = IF UsesCache(t) THEN CacheAfter(entries, ancestor, loadable) ELSE cache
      /\ (loadable < k /\ Return(t, "err")) \/ (loadable = k /\ LoadsTo(t, u[k]))
  BY DEF LoadAll, LoadsTo
<1> HIDE DEF loadable
<1>4. \A i \in 1..loadable : /\ Fits(b, entry(i).name, u[i])
                             /\ Fits(b, Source(entry(i)), Loaded(entry(i), u[i - 1]))
  BY <1>2, StacksFit
<1>5. CacheFits(b)
  <2>1. /\ CacheAfter(entries, ancestor, loadable) \in [Names -> {None} \cup Stacks]
        /\ \A m \in Names : \/ CacheAfter(entries, ancestor, loadable)[m] = cache[m]
                            \/ Fits(b, m, CacheAfter(entries, ancestor, loadable)[m])
    BY <1>2, <1>4, CacheAfterFits
  <2>2. cache \in [Names -> {None} \cup Stacks]
    BY DEF TypeInv
  <2> QED BY <1>3, <2>1, <2>2 DEF CacheFits
<1>6. ASSUME loadable = k PROVE Fits(b, first, u[k])
  <2>1. CASE entries = <<>>
    <3>1. k = 0 /\ u[0] = ancestor
      BY <2>1, StacksOnDef
    <3> QED BY <2>1, <3>1
  <2>2. CASE entries # <<>>
    <3>1. k \in 1..loadable /\ k + 1 - k = 1
      BY <2>2, <1>6, <1>1
    <3>2. Fits(b, entry(k).name, u[k])
      BY <3>1, <1>4
    <3> QED BY <2>2, <3>1, <3>2
  <2> QED BY <2>1, <2>2
<1> HIDE DEF u, k
<1> QED BY <1>3, <1>5, <1>6

\* layers_to_load, when the last entry has turned out to have a rollup.
LEMMA LastReplaced ==
  ASSUME NEW b, NEW load, LoadFits(b, load), NEW e \in Entry, EntryFits(b, e),
         e.name = Last(load).name
  PROVE  LET new == Append(Front(load), e) IN LoadFits(b, new) /\ new[1].name = load[1].name
<1> DEFINE f == Front(load)
           new == Append(f, e)
           k == Len(load)
<1>1. load \in Seq(Entry) /\ load # <<>> /\ k \in Nat \ {0}
  BY DEF LoadFits
<1>2. /\ Last(load) = load[k]
      /\ f \in Seq(Entry) /\ Len(f) = k - 1
      /\ \A i \in 1..(k - 1) : f[i] = load[i]
  BY <1>1, LastAndFront
<1>3. /\ new \in Seq(Entry) /\ new # <<>> /\ Len(new) = Len(f) + 1
      /\ \A i \in 1..Len(f) : new[i] = f[i]
      /\ new[Len(f) + 1] = e
  BY <1>2, AppendProperties
<1> HIDE DEF f, new, k
<1>4. Len(new) = k /\ new[k] = e /\ \A i \in 1..(k - 1) : new[i] = load[i]
  BY <1>1, <1>2, <1>3
<1>5. ASSUME NEW i \in 1..k PROVE EntryFits(b, new[i])
  <2>1. CASE i = k
    BY <2>1, <1>4
  <2>2. CASE i # k
    <3>1. i \in 1..(k - 1) /\ i \in 1..Len(load)
      BY <2>2, <1>1 DEF k
    <3> QED BY <3>1, <1>4 DEF LoadFits
  <2> QED BY <2>1, <2>2
<1>6. ASSUME NEW i \in 1..(k - 1) PROVE disk[Source(new[i])].parent = new[i + 1].name
  <2>1. new[i] = load[i] /\ disk[Source(load[i])].parent = load[i + 1].name
    BY <1>4 DEF LoadFits, k
  <2>2. new[i + 1].name = load[i + 1].name
    <3>1. CASE i + 1 = k
      BY <3>1, <1>2, <1>4
    <3>2. CASE i + 1 # k
      <4>1. i + 1 \in 1..(k - 1)
        BY <3>2, <1>1
      <4> QED BY <4>1, <1>4
    <3> QED BY <3>1, <3>2
  <2> QED BY <2>1, <2>2
<1>7. new[1].name = load[1].name
  <2>1. CASE k = 1
    BY <2>1, <1>2, <1>4
  <2>2. CASE k # 1
    <3>1. 1 \in 1..(k - 1)
      BY <2>2, <1>1
    <3> QED BY <3>1, <1>4
  <2> QED BY <2>1, <2>2
<1>8. LoadFits(b, new)
  BY <1>3, <1>4, <1>5, <1>6 DEF LoadFits
<1> QED BY <1>7, <1>8 DEF new, f

\* layers_to_load, when the parent of the last entry has been found.
LEMMA LastAdded ==
  ASSUME NEW b, NEW load, LoadFits(b, load), NEW e \in Entry, EntryFits(b, e),
         e.name = disk[Source(Last(load))].parent
  PROVE  LET new == Append(load, e) IN LoadFits(b, new) /\ new[1].name = load[1].name
<1> DEFINE new == Append(load, e)
           k == Len(load)
<1>1. load \in Seq(Entry) /\ load # <<>> /\ k \in Nat \ {0}
  BY DEF LoadFits
<1>2. Last(load) = load[k]
  BY <1>1, LastAndFront
<1>3. /\ new \in Seq(Entry) /\ new # <<>> /\ Len(new) = k + 1
      /\ \A i \in 1..k : new[i] = load[i]
      /\ new[k + 1] = e
  BY <1>1, AppendProperties
<1> HIDE DEF new, k
<1>5. ASSUME NEW i \in 1..(k + 1) PROVE EntryFits(b, new[i])
  <2>1. CASE i = k + 1
    BY <2>1, <1>3
  <2>2. CASE i # k + 1
    <3>1. i \in 1..k /\ i \in 1..Len(load)
      BY <2>2, <1>1 DEF k
    <3> QED BY <3>1, <1>3 DEF LoadFits
  <2> QED BY <2>1, <2>2
<1>6. ASSUME NEW i \in 1..((k + 1) - 1) PROVE disk[Source(new[i])].parent = new[i + 1].name
  <2>0. i \in 1..k
    BY <1>1
  <2>1. CASE i = k
    BY <2>0, <2>1, <1>2, <1>3
  <2>2. CASE i # k
    <3>1. i \in 1..(k - 1) /\ i + 1 \in 1..k
      BY <2>0, <2>2, <1>1
    <3>2. disk[Source(load[i])].parent = load[i + 1].name
      BY <3>1 DEF LoadFits, k
    <3> QED BY <2>0, <3>1, <3>2, <1>3
  <2> QED BY <2>1, <2>2
<1>7. new[1].name = load[1].name
  <2>1. 1 \in 1..k
    BY <1>1
  <2> QED BY <2>1, <1>3
<1>8. LoadFits(b, new)
  BY <1>3, <1>5, <1>6 DEF LoadFits
<1> QED BY <1>7, <1>8 DEF new

\* A step of get_layer fails, or goes on with a list of layers that lead from one to
\* the next, or ends with the layer that was asked for.
LEMMA LoadStepFits ==
  ASSUME TypeInv, DirectoryInv, NEW b \in BOOLEAN, ValuesFit(b), RollupsFit(b),
         \A n \in Names : cache[n] # None => Fits(b, n, cache[n]),
         NEW t \in Tasks, LoadFits(b, task[t].load), LoadStep(t)
  PROVE  /\ CacheFits(b)
         /\ \/ \E res \in {"err", "not_found"} : Return(t, res)
            \/ \E load : /\ LoadFits(b, load) /\ load[1].name = task[t].load[1].name
                         /\ task' = [task EXCEPT ![t].load = load]
            \/ \E l : Fits(b, task[t].load[1].name, l) /\ LoadsTo(t, l)
<1> DEFINE load == task[t].load
           k == Len(load)
           e == Last(load)
           current == Source(e)
           dir == disk[current]
           first == load[1].name
<1>1. load \in Seq(Entry) /\ load # <<>> /\ k \in Nat \ {0} /\ 1 \in 1..k /\ k \in 1..k
  BY DEF LoadFits
<1>2. /\ e = load[k] /\ e \in Entry
      /\ Front(load) \in Seq(Entry) /\ Len(Front(load)) = k - 1
      /\ \A i \in 1..(k - 1) : Front(load)[i] = load[i]
  BY <1>1, LastAndFront
<1>3. EntryFits(b, e)
  BY <1>1, <1>2 DEF LoadFits
<1>4. current \in Names /\ e.name \in Names
  BY <1>2, LayerStoreAssumption DEF Source, Entry
<1>5. /\ disk \in [Names -> Directory] /\ cache \in [Names -> {None} \cup Stacks]
      /\ dir.parent \in Names \cup {None} /\ dir.rollup \in Names \cup {None, Empty}
  BY <1>4 DEF TypeInv, Directory
<1>6. dir.rollup # None => e.rollup = None /\ current = e.name /\ Committed(e.name)
  BY <1>3, <1>4 DEF EntryFits, DirectoryInv, Rolled, Source
<1>7. ASSUME cache' = cache PROVE CacheFits(b)
  BY <1>5, <1>7 DEF CacheFits
<1> DEFINE A == /\ Cached(t, current) # None
                /\ LoadAll(t, Front(load), Rename(e, cache[current]))
           B == /\ dir.rollup = None /\ dir.parent = None
                /\ LoadAll(t, load, <<>>)
           C == /\ dir.rollup \in Names \ {current}
                /\ task' = [task EXCEPT ![t].load =
                            Append(Front(load), Instead(current, dir.rollup, dir.parent))]
                /\ UNCHANGED cache
           D == /\ dir.rollup = None /\ dir.parent # None
                /\ task' = [task EXCEPT ![t].load = Append(load, Plain(dir.parent))]
                /\ UNCHANGED cache
           E == /\ \E res \in {"err", "not_found"} : Return(t, res)
                /\ UNCHANGED cache
<1>8. A \/ B \/ C \/ D \/ E
  BY DEF LoadStep
<1>9. CASE A
  <2> DEFINE ancestor == Rename(e, cache[current])
             entries == Front(load)
  <2>1. cache[current] # None
    BY <1>9, <1>4 DEF Cached
  <2>2. Fits(b, current, cache[current])
    BY <2>1, <1>4
  <2>3. Fits(b, e.name, ancestor)
    BY <2>2, <1>2, <1>3, RenamedFits
  <2>4. ancestor \in Seq(Frame) /\ ancestor # <<>>
    BY <2>3 DEF Fits, Named, Stacks
  <2> HIDE DEF ancestor, entries
  <2>5. /\ entries \in Seq(Entry) /\ Len(entries) = k - 1
        /\ \A i \in 1..(k - 1) : entries[i] = load[i]
    BY <1>2 DEF entries
  <2>6. \A i \in 1..Len(entries) : EntryFits(b, entries[i])
    <3>1. \A i \in 1..(k - 1) : i \in 1..Len(load)
      BY <1>1
    <3> QED BY <3>1, <2>5 DEF LoadFits
  <2>7. \A i \in 1..(Len(entries) - 1) : disk[Source(entries[i])].parent = entries[i + 1].name
    <3>1. \A i \in 1..((k - 1) - 1) : i \in 1..(k - 1) /\ i + 1 \in 1..(k - 1)
      BY <1>1
    <3> QED BY <3>1, <2>5 DEF LoadFits
  <2>8. entries # <<>> => Fits(b, disk[Source(entries[Len(entries)])].parent, ancestor)
    <3> SUFFICES ASSUME entries # <<>>
                 PROVE  Fits(b, disk[Source(entries[Len(entries)])].parent, ancestor)
      OBVIOUS
    <3>1. k - 1 \in 1..(k - 1) /\ (k - 1) + 1 = k
      BY <2>5, <1>1
    <3>2. disk[Source(load[k - 1])].parent = load[(k - 1) + 1].name
      BY <3>1 DEF LoadFits
    <3> QED BY <3>1, <3>2, <2>3, <2>5, <1>2
  <2>9. IF entries = <<>> THEN Fits(b, first, ancestor) ELSE first = entries[1].name
    <3>1. CASE entries = <<>>
      <4>1. k = 1
        BY <3>1, <2>5, <1>1
      <4> QED BY <3>1, <4>1, <2>3, <1>2
    <3>2. CASE entries # <<>>
      <4>1. 1 \in 1..(k - 1)
        BY <3>2, <2>5, <1>1
      <4> QED BY <3>2, <4>1, <2>5
    <3> QED BY <3>1, <3>2
  <2>10. LoadAll(t, entries, ancestor)
    BY <1>9 DEF entries, ancestor
  <2> HIDE DEF first, k, load
  <2>11. CacheFits(b) /\ (Return(t, "err") \/ \E l : Fits(b, first, l) /\ LoadsTo(t, l))
    BY <2>4, <2>5, <2>6, <2>7, <2>8, <2>9, <2>10, LoadAllFits
  <2> QED BY <2>11 DEF first, load
<1>10. CASE B
  <2>1. LoadAll(t, load, <<>>) /\ disk[Source(load[k])].parent = None
    BY <1>10, <1>2
  <2>2. /\ \A i \in 1..Len(load) : EntryFits(b, load[i])
        /\ \A i \in 1..(Len(load) - 1) : disk[Source(load[i])].parent = load[i + 1].name
    BY DEF LoadFits
  <2>3. <<>> \in Seq(Frame)
    OBVIOUS
  <2> HIDE DEF load
  <2>4. CacheFits(b) /\ (Return(t, "err") \/ \E l : Fits(b, first, l) /\ LoadsTo(t, l))
    BY <2>1, <2>2, <2>3, <1>1, LoadAllFits
  <2> QED BY <2>4 DEF load
<1>11. CASE C
  <2> DEFINE i == Instead(current, dir.rollup, dir.parent)
  <2>1. dir.rollup \in Names /\ dir.rollup # None
    BY <1>11, LayerStoreAssumption
  <2>2. i.name = current /\ i.rollup = dir.rollup /\ i.parent = dir.parent /\ i \in Entry
    BY <2>1, <1>4, <1>5 DEF Instead, Entry
  <2>3. current = e.name /\ Committed(current) /\ Rolled(dir.rollup)
    BY <2>1, <1>4, <1>6 DEF DirectoryInv
  <2>4. b => OwnValue(dir.rollup) = truth[current]
    BY <2>1, <1>4 DEF RollupsFit
  <2> HIDE DEF i
  <2>5. EntryFits(b, i)
    BY <2>2, <2>3, <2>4 DEF EntryFits
  <2>6. LoadFits(b, Append(Front(load), i)) /\ Append(Front(load), i)[1].name = load[1].name
    BY <2>2, <2>3, <2>5, LastReplaced
  <2>7. task' = [task EXCEPT ![t].load = Append(Front(load), i)]
    BY <1>11 DEF i
  <2> QED BY <1>7, <1>11, <2>6, <2>7
<1>12. CASE D
  <2> DEFINE i == Plain(dir.parent)
  <2>1. i.name = dir.parent /\ i.rollup = None /\ i \in Entry
    BY <1>12, <1>5 DEF Plain, Entry
  <2> HIDE DEF i
  <2>2. EntryFits(b, i)
    BY <2>1 DEF EntryFits
  <2>3. LoadFits(b, Append(load, i)) /\ Append(load, i)[1].name = load[1].name
    BY <2>1, <2>2, LastAdded
  <2>4. task' = [task EXCEPT ![t].load = Append(load, i)]
    BY <1>12 DEF i
  <2> QED BY <1>7, <1>12, <2>3, <2>4
<1>13. CASE E
  BY <1>7, <1>13
<1> QED BY <1>8, <1>9, <1>10, <1>11, <1>12, <1>13

-----------------------------------------------------------------------------
=============================================================================
