-------------------- MODULE LabelLinearizability_proofs --------------------
(***************************************************************************)
(* Proof that the label store of a directory is linearizable, for every    *)
(* finite set of tasks and every set of files and layers.                  *)
(***************************************************************************)
EXTENDS LabelLinearizability, DirectoryLabelStore_proofs, Sequences, FiniteSetTheorems,
        WellFoundedInduction, TLAPS

-----------------------------------------------------------------------------
(***************************************************************************)
(* Why there always is an explanation.  create_label takes effect when it  *)
(* makes the file, set_label_option when it has compared the labels, a     *)
(* failed call and delete_label when they return, get_label when it reads  *)
(* the file: as long as the file is that of the label.  The calls that     *)
(* have a file open when it is unlinked take effect just before, in the    *)
(* order in which they will go on; which order that is shows later, so the *)
(* invariant says that every possible one is among the explanations.       *)
(***************************************************************************)
Explanation == [label : MaybeLabel, done : [Tasks -> Result \cup {NotYet}]]

\* The label in a file, with the update under way that has compared labels.
Holds(i, l) ==
    /\ \A t \in Tasks : ino[t] = i /\ Creating(t) => l = NewEmpty
    /\ \A t \in Tasks : ino[t] = i /\ Updating(t) => l = NewLabel(t)
    /\ (\A t \in Tasks : ino[t] = i => ~Creating(t) /\ ~Updating(t)) => l = file[i]

\* A call that has opened the file i and has no effect yet.
Pending(t, i) == pc[t] \in {"get_lock", "get_read", "set_lock", "set_read"} /\ ino[t] = i

\* The calls s, one after the other, take the file from label to label.
Ordered(i, e, s, labels) ==
    /\ s \in Seq(Tasks) /\ labels \in [0..Len(s) -> Label]
    /\ Holds(i, labels[0])
    /\ \A k \in 1..Len(s) :
        /\ Pending(s[k], i)
        /\ Perform(labels[k - 1], call[s[k]]) = [label |-> labels[k], res |-> e.done[s[k]]]
        /\ \A m \in 1..Len(s) : s[k] = s[m] => k = m
    /\ \A t \in Tasks : Pending(t, i) /\ (\A k \in 1..Len(s) : s[k] # t) => e.done[t] = NotYet

\* e explains the files and the calls as they are.
Explains(e) ==
    /\ e \in Explanation
    /\ IF dir = NoInode THEN e.label = NoLabel ELSE Holds(dir, e.label)
    /\ \A t \in Tasks :
        /\ Creating(t) => e.done[t] = Ok(NewEmpty)
        /\ Updating(t) => e.done[t] = Ok(NewLabel(t))
        /\ ~Creating(t) /\ ~Updating(t) /\ (\A i \in Inodes \ {dir} : ~Pending(t, i))
              => e.done[t] = NotYet
    /\ \A i \in Inodes \ {dir} :
        file[i] # Unused => \E s, labels : Ordered(i, e, s, labels)

\* What each call is, by where it is.
CallsFit ==
    \A t \in Tasks :
        /\ pc[t] = "idle" => call[t] = NoCall
        /\ pc[t] \in CreatePCs => call[t].op = "create"
        /\ pc[t] \in GetPCs => call[t].op = "get"
        /\ pc[t] \in SetPCs => call[t].op = "set"
        /\ pc[t] = "delete_unlink" => call[t].op = "delete"

\* Whatever explains the state is among the explanations.
AllExplained == \A e : Explains(e) => e \in Extended[Cardinality(Tasks)]

MonitorInv == IndInv /\ CallsFit /\ explanations \subseteq Explanation /\ AllExplained

-----------------------------------------------------------------------------
(***************************************************************************)
(* What the monitor computes: Extended is the least set of explanations    *)
(* that holds the given ones and is closed under TakeEffect.  A call takes *)
(* effect once at most, so that as many rounds as there are tasks are      *)
(* enough.                                                                 *)
(***************************************************************************)

\* A nonempty set of naturals has a least element.
LEMMA LeastNat == \A T \in SUBSET Nat : T # {} => \E x \in T : \A y \in T : x <= y
<1> SUFFICES ASSUME NEW T \in SUBSET Nat, T # {} PROVE \E x \in T : \A y \in T : x <= y
  OBVIOUS
<1>1. PICK x \in T : \A y \in T : ~(<<y, x>> \in OpToRel(<, Nat))
  BY NatLessThanWellFounded, WFMin
<1>2. \A y \in T : ~(y < x)
  BY <1>1 DEF OpToRel
<1> QED BY <1>2

\* f solves the recursion of Extended up to n.
ExtendedUpTo(f, n) == f = [k \in 0..n |-> IF k = 0 THEN explanations ELSE Extend(f[k - 1])]

\* The recursion of Extended has a solution.
LEMMA ExtendedExists == \A n \in Nat : \E f : ExtendedUpTo(f, n)
<1> USE DEF ExtendedUpTo
<1> DEFINE T == {n \in Nat : ~ \E f : ExtendedUpTo(f, n)}
<1> SUFFICES ASSUME T # {} PROVE FALSE
  OBVIOUS
<1> T \in SUBSET Nat
  OBVIOUS
<1>1. PICK n \in T : \A m \in T : n <= m
  BY LeastNat
<1>2. CASE n = 0
  <2>1. ExtendedUpTo([k \in 0..0 |-> explanations], 0)
    OBVIOUS
  <2> QED BY <2>1, <1>2
<1>3. CASE n # 0
  <2>1. n - 1 \in Nat /\ n - 1 \notin T
    <3> HIDE DEF T
    <3> QED BY <1>1, <1>3
  <2>2. PICK f : ExtendedUpTo(f, n - 1)
    BY <2>1
  <2> DEFINE g == [k \in 0..n |-> IF k = n THEN Extend(f[n - 1]) ELSE f[k]]
  <2>3. ASSUME NEW k \in 0..n PROVE g[k] = IF k = 0 THEN explanations ELSE Extend(g[k - 1])
    <3>1. CASE k = n
      <4>1. g[n - 1] = f[n - 1]
        BY <2>1
      <4> QED BY <3>1, <4>1, <1>3
    <3>2. CASE k # n
      <4>1. /\ k \in 0..(n - 1) /\ g[k] = f[k]
            /\ k # 0 => k - 1 \in 0..(n - 1) /\ g[k - 1] = f[k - 1]
        BY <3>2, <2>1
      <4> QED BY <4>1, <2>2
    <3> QED BY <3>1, <3>2
  <2>4. ExtendedUpTo(g, n)
    <3>1. g = [k \in 0..n |-> g[k]]
      OBVIOUS
    <3> HIDE DEF g
    <3> QED BY <3>1, <2>3
  <2> QED BY <2>4
<1> QED BY <1>2, <1>3

\* Extended is that solution.
LEMMA ExtendedDef ==
  /\ Cardinality(Tasks) \in Nat
  /\ Extended[0] = explanations
  /\ \A n \in 1..Cardinality(Tasks) : Extended[n] = Extend(Extended[n - 1])
<1> DEFINE N == Cardinality(Tasks)
           f == CHOOSE f : ExtendedUpTo(f, N)
<1>1. N \in Nat
  BY TasksAssumption, FS_CardinalityType
<1>2. Extended = f
  BY DEF Extended, ExtendedUpTo
<1>3. ExtendedUpTo(f, N)
  <2>1. \E g : ExtendedUpTo(g, N)
    BY <1>1, ExtendedExists
  <2> QED BY <2>1
<1> HIDE DEF f
<1>4. 0 \in 0..N /\ 1..N \subseteq 0..N /\ 0 \notin 1..N
  BY <1>1
<1> HIDE DEF N
<1>5. f[0] = explanations /\ \A n \in 1..N : f[n] = Extend(f[n - 1])
  BY <1>3, <1>4 DEF ExtendedUpTo
<1> QED BY <1>1, <1>2, <1>5 DEF N

\* All explanations of what was returned so far.
Reached == Extended[Cardinality(Tasks)]

\* What one more call taking effect adds.
LEMMA ExtendMember ==
  ASSUME NEW es, NEW e
  PROVE  e \in Extend(es) <=>
           \/ e \in es
           \/ \E f \in es : \E t \in Tasks :
                call[t] # NoCall /\ f.done[t] = NotYet /\ e = TakeEffect(f, t)
  BY DEF Extend

\* More rounds give more explanations.
LEMMA ExtendedGrows ==
  \A m, n \in 0..Cardinality(Tasks) : m <= n => Extended[m] \subseteq Extended[n]
<1> DEFINE N == Cardinality(Tasks)
<1>1. N \in Nat /\ \A n \in 1..N : Extended[n - 1] \subseteq Extended[n]
  BY ExtendedDef DEF Extend
<1> HIDE DEF N
<1> SUFFICES ASSUME NEW m \in 0..N PROVE \A n \in 0..N : m <= n => Extended[m] \subseteq Extended[n]
  BY DEF N
<1> DEFINE T == {n \in 0..N : m <= n /\ ~(Extended[m] \subseteq Extended[n])}
<1> SUFFICES ASSUME T # {} PROVE FALSE
  OBVIOUS
<1>2. T \in SUBSET Nat
  BY <1>1
<1>3. PICK n \in T : \A k \in T : n <= k
  BY <1>2, LeastNat
<1>4. n # m /\ n \in 0..N /\ m <= n
  OBVIOUS
<1>5. n \in 1..N /\ n - 1 \in 0..N /\ m <= n - 1 /\ ~(n <= n - 1)
  BY <1>1, <1>4
<1>6. n - 1 \notin T
  <2> HIDE DEF T
  <2> QED BY <1>3, <1>5
<1>7. Extended[m] \subseteq Extended[n - 1]
  BY <1>5, <1>6
<1> QED BY <1>1, <1>3, <1>5, <1>7

\* Reached is the least of the sets closed under TakeEffect.
LEMMA ReachedLeast ==
  ASSUME NEW S, explanations \subseteq S,
         \A e \in S, t \in Tasks : call[t] # NoCall /\ e.done[t] = NotYet => TakeEffect(e, t) \in S
  PROVE  Reached \subseteq S
<1> DEFINE N == Cardinality(Tasks)
<1>1. N \in Nat /\ Extended[0] = explanations
      /\ \A n \in 1..N : Extended[n] = Extend(Extended[n - 1])
  BY ExtendedDef
<1> HIDE DEF N
<1> DEFINE T == {n \in 0..N : ~(Extended[n] \subseteq S)}
<1>2. T = {}
  <2> SUFFICES ASSUME T # {} PROVE FALSE
    OBVIOUS
  <2>2. T \in SUBSET Nat
    BY <1>1
  <2>3. PICK n \in T : \A k \in T : n <= k
    BY <2>2, LeastNat
  <2>4. n # 0 /\ n \in 0..N
    BY <1>1
  <2>5. n \in 1..N /\ n - 1 \in 0..N /\ ~(n <= n - 1)
    BY <1>1, <2>4
  <2>6. n - 1 \notin T
    <3> HIDE DEF T
    <3> QED BY <2>3, <2>5
  <2>7. Extended[n - 1] \subseteq S
    BY <2>5, <2>6
  <2>8. ASSUME NEW e \in Extended[n] PROVE e \in S
    <3>1. e \in Extend(Extended[n - 1])
      BY <1>1, <2>5
    <3> QED BY <3>1, <2>7, ExtendMember
  <2> QED BY <2>3, <2>8
<1>3. N \in 0..N
  BY <1>1
<1> QED BY <1>2, <1>3 DEF Reached, N

\* The calls that have taken effect.
Taken(e) == {t \in Tasks : e.done[t] # NotYet}

\* Performing a call gives a label, or none, and a result.
LEMMA PerformResult ==
  ASSUME NEW l \in MaybeLabel, NEW c \in Call
  PROVE  /\ Perform(l, c).label \in MaybeLabel /\ Perform(l, c).res \in Result
         /\ Perform(l, c).res # NotYet
         /\ Perform(l, c) = [label |-> Perform(l, c).label, res |-> Perform(l, c).res]
<1> USE DEF Ok, OkBool, Err, NotYet, Result
<1>1. CASE c.op = "create"
  BY <1>1 DEF Perform, CreateLabel, NewEmpty, MaybeLabel, Label
<1>2. CASE c.op = "get"
  BY <1>2 DEF Perform, GetLabel
<1>3. CASE c.op = "set"
  <2>1. c.label \in Label /\ c.layer \in Layers \cup {NoLayer}
    BY <1>3 DEF Call
  <2>2. WithUpdatedLayer(c.label, c.layer) \in Label /\ Label \subseteq MaybeLabel
        /\ NoLabel \in MaybeLabel
    BY <2>1 DEF WithUpdatedLayer, Label, MaybeLabel
  <2>3. Perform(l, c) = SetLabelOption(l, c.label, c.layer)
    BY <1>3 DEF Perform
  <2> QED BY <2>2, <2>3 DEF SetLabelOption
<1>4. CASE c.op = "delete"
  <2>1. Perform(l, c) = DeleteLabel(l)
    BY <1>4 DEF Perform
  <2> QED BY <2>1 DEF DeleteLabel, MaybeLabel
<1> QED BY <1>1, <1>2, <1>3, <1>4 DEF Call

\* Taking effect gives t its result, and makes it one of the calls that have one.
LEMMA TakeEffectType ==
  ASSUME TypeOK, NEW e \in Explanation, NEW t \in Tasks, call[t] # NoCall, e.done[t] = NotYet
  PROVE  /\ TakeEffect(e, t) \in Explanation
         /\ TakeEffect(e, t).label = Perform(e.label, call[t]).label
         /\ TakeEffect(e, t).done = [e.done EXCEPT ![t] = Perform(e.label, call[t]).res]
         /\ Taken(TakeEffect(e, t)) = Taken(e) \cup {t} /\ t \notin Taken(e)
<1>1. call[t] \in Call
  BY DEF TypeOK
<1>2. e.label \in MaybeLabel /\ e.done \in [Tasks -> Result \cup {NotYet}]
  BY DEF Explanation
<1> DEFINE p == Perform(e.label, call[t])
           f == [e.done EXCEPT ![t] = p.res]
<1>3. p.label \in MaybeLabel /\ p.res \in Result /\ p.res # NotYet
  BY <1>1, <1>2, PerformResult
<1>4. TakeEffect(e, t) = [label |-> p.label, done |-> f]
  BY DEF TakeEffect
<1> HIDE DEF p
<1>5. f \in [Tasks -> Result \cup {NotYet}] /\ f[t] = p.res
      /\ \A u \in Tasks \ {t} : f[u] = e.done[u]
  BY <1>2, <1>3
<1> HIDE DEF f
<1>6. TakeEffect(e, t) \in Explanation
  BY <1>3, <1>4, <1>5 DEF Explanation
<1>7. Taken(TakeEffect(e, t)) = Taken(e) \cup {t} /\ t \notin Taken(e)
  BY <1>3, <1>4, <1>5 DEF Taken
<1> QED BY <1>4, <1>6, <1>7 DEF f, p

\* Whatever is reached is an explanation.
LEMMA ReachedType == TypeOK /\ explanations \subseteq Explanation => Reached \subseteq Explanation
  BY ReachedLeast, TakeEffectType

\* Every explanation was reached in no more steps than calls have taken effect in it.
LEMMA ReachedSoon ==
  ASSUME TypeOK, explanations \subseteq Explanation
  PROVE  \A n \in 0..Cardinality(Tasks) : \A e \in Extended[n] :
            e \in Explanation /\ \E m \in 0..n : e \in Extended[m] /\ Cardinality(Taken(e)) >= m
<1> DEFINE N == Cardinality(Tasks)
           Soon(n) == \A e \in Extended[n] :
              e \in Explanation /\ \E m \in 0..n : e \in Extended[m] /\ Cardinality(Taken(e)) >= m
<1>1. N \in Nat /\ Extended[0] = explanations
      /\ \A n \in 1..N : Extended[n] = Extend(Extended[n - 1])
  BY ExtendedDef
<1>2. \A e : IsFiniteSet(Taken(e)) /\ Cardinality(Taken(e)) \in Nat
  <2>1. \A e : Taken(e) \in SUBSET Tasks
    BY DEF Taken
  <2> QED BY <2>1, TasksAssumption, FS_Subset, FS_CardinalityType
<1>3. Soon(0)
  BY <1>1, <1>2
<1> HIDE DEF N
<1>4. ASSUME NEW n \in 1..N, Soon(n - 1) PROVE Soon(n)
  <2> SUFFICES ASSUME NEW e \in Extended[n]
               PROVE  e \in Explanation
                      /\ \E m \in 0..n : e \in Extended[m] /\ Cardinality(Taken(e)) >= m
    OBVIOUS
  <2>1. e \in Extend(Extended[n - 1])
    BY <1>1
  <2>2. CASE e \in Extended[n - 1]
    <3>1. PICK m \in 0..(n - 1) : e \in Extended[m] /\ Cardinality(Taken(e)) >= m
      BY <1>4, <2>2
    <3>2. m \in 0..n
      BY <1>1
    <3> QED BY <1>4, <2>2, <3>1, <3>2
  <2>3. ASSUME NEW f \in Extended[n - 1], NEW t \in Tasks, call[t] # NoCall, f.done[t] = NotYet,
               e = TakeEffect(f, t)
        PROVE  e \in Explanation /\ \E m \in 0..n : e \in Extended[m] /\ Cardinality(Taken(e)) >= m
    <3>1. f \in Explanation
      BY <1>4
    <3>2. PICK m \in 0..(n - 1) : f \in Extended[m] /\ Cardinality(Taken(f)) >= m
      BY <1>4
    <3>3. e \in Explanation /\ Taken(e) = Taken(f) \cup {t} /\ t \notin Taken(f)
      BY <2>3, <3>1, TakeEffectType
    <3>4. Cardinality(Taken(e)) = Cardinality(Taken(f)) + 1
      BY <1>2, <3>3, FS_AddElement
    <3>5. m + 1 \in 0..n /\ m + 1 \in 1..N /\ (m + 1) - 1 = m
      BY <1>1
    <3>6. Extended[m + 1] = Extend(Extended[m])
      BY <1>1, <3>5
    <3>7. e \in Extended[m + 1]
      BY <3>2, <3>6, <2>3, ExtendMember
    <3>8. Cardinality(Taken(e)) >= m + 1
      BY <3>2, <3>4, <1>2
    <3> QED BY <3>3, <3>5, <3>7, <3>8
  <2> QED BY <2>1, <2>2, <2>3, ExtendMember
<1> DEFINE T == {n \in 0..N : ~Soon(n)}
<1> HIDE DEF Soon
<1>5. T = {}
  <2> SUFFICES ASSUME T # {} PROVE FALSE
    OBVIOUS
  <2>2. T \in SUBSET Nat
    BY <1>1
  <2>3. PICK n \in T : \A k \in T : n <= k
    BY <2>2, LeastNat
  <2>4. n # 0 /\ n \in 0..N
    BY <1>3
  <2>5. n \in 1..N /\ n - 1 \in 0..N /\ ~(n <= n - 1)
    BY <1>1, <2>4
  <2>6. n - 1 \notin T
    <3> HIDE DEF T
    <3> QED BY <2>3, <2>5
  <2>7. Soon(n - 1)
    BY <2>5, <2>6
  <2> QED BY <1>4, <2>3, <2>5, <2>7
<1> QED BY <1>5 DEF N, Soon

\* Reached is closed: any call under way may take effect in any of its members.
LEMMA ReachedClosed ==
  TypeOK /\ explanations \subseteq Explanation =>
    /\ explanations \subseteq Reached
    /\ \A e \in Reached, t \in Tasks :
          call[t] # NoCall /\ e.done[t] = NotYet => TakeEffect(e, t) \in Reached
<1> SUFFICES ASSUME TypeOK, explanations \subseteq Explanation
             PROVE  /\ explanations \subseteq Reached
                    /\ \A e \in Reached, t \in Tasks :
                        call[t] # NoCall /\ e.done[t] = NotYet => TakeEffect(e, t) \in Reached
  OBVIOUS
<1> DEFINE N == Cardinality(Tasks)
<1>1. N \in Nat /\ Extended[0] = explanations
      /\ \A n \in 1..N : Extended[n] = Extend(Extended[n - 1])
  BY ExtendedDef
<1>2. \A m \in 0..N : Extended[m] \subseteq Reached
  BY <1>1, ExtendedGrows DEF Reached
<1>3. explanations \subseteq Reached
  BY <1>1, <1>2
<1>4. ASSUME NEW e \in Reached, NEW t \in Tasks, call[t] # NoCall, e.done[t] = NotYet
      PROVE  TakeEffect(e, t) \in Reached
  <2>1. PICK m \in 0..N : e \in Extended[m] /\ Cardinality(Taken(e)) >= m
    BY <1>1, ReachedSoon DEF Reached
  <2>2. Taken(e) \in SUBSET Tasks /\ t \notin Taken(e)
    BY <1>4 DEF Taken
  <2>3. Cardinality(Taken(e)) <= N /\ Cardinality(Taken(e)) # N /\ Cardinality(Taken(e)) \in Nat
    <3>1. IsFiniteSet(Taken(e)) /\ Cardinality(Taken(e)) <= N
          /\ (N = Cardinality(Taken(e)) => Tasks = Taken(e))
      BY <2>2, TasksAssumption, FS_Subset
    <3> QED BY <3>1, <2>2, FS_CardinalityType
  <2> HIDE DEF N
  <2>4. m + 1 \in 1..N /\ (m + 1) - 1 = m /\ m + 1 \in 0..N
    BY <1>1, <2>1, <2>3
  <2>5. Extended[m + 1] = Extend(Extended[m])
    BY <1>1, <2>4
  <2>6. TakeEffect(e, t) \in Extended[m + 1]
    BY <1>4, <2>1, <2>5, ExtendMember
  <2> QED BY <1>2, <2>4, <2>6
<1> QED BY <1>3, <1>4

-----------------------------------------------------------------------------
(***************************************************************************)
(* Calls, files and the order of the calls that have a file open.          *)
(***************************************************************************)

\* A step of t leaves the other tasks where they are.
OthersStay(t) ==
    \A u \in Tasks \ {t} : pc'[u] = pc[u] /\ ino'[u] = ino[u] /\ call'[u] = call[u]

\* Explanations with the same label and the same results are the same.
LEMMA ExplanationEq ==
  ASSUME NEW e \in Explanation, NEW f \in Explanation, e.label = f.label,
         \A t \in Tasks : e.done[t] = f.done[t]
  PROVE  e = f
<1>1. e.done \in [Tasks -> Result \cup {NotYet}] /\ f.done \in [Tasks -> Result \cup {NotYet}]
  BY DEF Explanation
<1>2. e.done = f.done
  BY <1>1
<1>3. e = [label |-> e.label, done |-> e.done] /\ f = [label |-> f.label, done |-> f.done]
  BY DEF Explanation
<1> QED BY <1>2, <1>3

\* f with another result for t.
LEMMA WithDone ==
  ASSUME NEW f \in Explanation, NEW t \in Tasks, NEW r \in Result \cup {NotYet},
         NEW l \in MaybeLabel
  PROVE  LET g == [label |-> l, done |-> [f.done EXCEPT ![t] = r]] IN
         /\ g \in Explanation /\ g.label = l /\ g.done[t] = r
         /\ \A u \in Tasks \ {t} : g.done[u] = f.done[u]
<1>1. f.done \in [Tasks -> Result \cup {NotYet}]
  BY DEF Explanation
<1> DEFINE d == [f.done EXCEPT ![t] = r]
<1>2. d \in [Tasks -> Result \cup {NotYet}] /\ d[t] = r /\ \A u \in Tasks \ {t} : d[u] = f.done[u]
  BY <1>1
<1> HIDE DEF d
<1> QED BY <1>2 DEF Explanation, d

\* What performing the call of t means, by where t is.
LEMMA TheCalls ==
  ASSUME IndInv, CallsFit, NEW t \in Tasks
  PROVE  /\ pc[t] # "idle" => call[t] # NoCall /\ call[t] \in Call
         /\ pc[t] \in CreatePCs => \A l : Perform(l, call[t]) = CreateLabel(l)
         /\ pc[t] \in GetPCs => \A l : Perform(l, call[t]) = GetLabel(l)
         /\ pc[t] \in SetPCs =>
              /\ call[t].label \in Label /\ call[t].layer \in Layers \cup {NoLayer}
              /\ NewLabel(t) \in Label /\ NewLabel(t) \in MaybeLabel
              /\ \A l : Perform(l, call[t]) = SetLabelOption(l, call[t].label, call[t].layer)
         /\ pc[t] = "delete_unlink" => \A l : Perform(l, call[t]) = DeleteLabel(l)
<1>1. pc[t] \in PCs /\ call[t] \in Call \cup {NoCall}
  BY DEF IndInv, TypeOK
<1>2. pc[t] # "idle" => call[t].op \in {"create", "get", "set", "delete"}
  BY <1>1 DEF CallsFit, PCs
<1>3. pc[t] # "idle" => call[t] # NoCall /\ call[t] \in Call
  BY <1>1, <1>2 DEF NoCall
<1>4. pc[t] \in CreatePCs => \A l : Perform(l, call[t]) = CreateLabel(l)
  BY DEF CallsFit, Perform
<1>5. pc[t] \in GetPCs => \A l : Perform(l, call[t]) = GetLabel(l)
  BY DEF CallsFit, Perform
<1>6. pc[t] = "delete_unlink" => \A l : Perform(l, call[t]) = DeleteLabel(l)
  BY DEF CallsFit, Perform
<1>7. ASSUME pc[t] \in SetPCs
      PROVE  /\ call[t].label \in Label /\ call[t].layer \in Layers \cup {NoLayer}
             /\ NewLabel(t) \in Label /\ NewLabel(t) \in MaybeLabel
             /\ \A l : Perform(l, call[t]) = SetLabelOption(l, call[t].label, call[t].layer)
  <2>1. call[t].label \in Label /\ call[t].layer \in Layers \cup {NoLayer} /\ call[t].op = "set"
    BY <1>7 DEF IndInv, FilesAreOpen
  <2>2. NewLabel(t) \in Label
    BY <2>1 DEF NewLabel, WithUpdatedLayer, Label
  <2> QED BY <2>1, <2>2 DEF Perform, MaybeLabel
<1> QED BY <1>3, <1>4, <1>5, <1>6, <1>7

\* The label a file holds is a label.
LEMMA HoldsLabel ==
  ASSUME IndInv, CallsFit, NEW i \in Inodes, file[i] # Unused, NEW l \in MaybeLabel, Holds(i, l)
  PROVE  l \in Label
<1>1. NewEmpty \in Label
  BY DEF NewEmpty, Label
<1>2. CASE \E t \in Tasks : ino[t] = i /\ Creating(t)
  BY <1>1, <1>2 DEF Holds
<1>3. CASE \E t \in Tasks : ino[t] = i /\ Updating(t)
  BY <1>3, TheCalls DEF Holds, Updating, SetPCs
<1>4. CASE \A t \in Tasks : ino[t] = i => ~Creating(t) /\ ~Updating(t)
  <2>1. l = file[i]
    BY <1>4 DEF Holds
  <2>2. file[i] \in Label \cup {Empty}
    BY DEF IndInv, TypeOK, Contents
  <2> QED BY <2>1, <2>2, DirectoryAssumption DEF MaybeLabel
<1> QED BY <1>2, <1>3, <1>4

\* Who has the file locked and finds a label in it reads the label it holds.
LEMMA HoldsRead ==
  ASSUME IndInv, NEW t \in Tasks, pc[t] \in {"get_read", "set_read"}, file[ino[t]] # Empty
  PROVE  /\ ino[t] \in Inodes /\ file[ino[t]] \in Label /\ file[ino[t]] # Unused
         /\ \A l : Holds(ino[t], l) <=> l = file[ino[t]]
         /\ \A u \in Tasks : ino[u] = ino[t] => ~Creating(u) /\ ~Updating(u)
<1>1. ino[t] \in Inodes /\ file[ino[t]] # Unused /\ file[ino[t]] \in Contents \cup {Unused}
  BY DEF IndInv, TypeOK, FilesAreOpen, Exclusive, Shared
<1>2. \A u \in Tasks : ino[u] = ino[t] => ~Creating(u) /\ ~Updating(u)
  BY DEF IndInv, LocksExclude, WritersAreAlone, Exclusive, Shared, Creating, Updating
<1> QED BY <1>1, <1>2 DEF Holds, Contents

-----------------------------------------------------------------------------
\* The order of the calls that have a file open, seen before a step.
LEMMA OrderedBack ==
  ASSUME NEW i, NEW f, NEW g,
         \A l : Holds(i, l)' => Holds(i, l),
         \A u \in Tasks : Pending(u, i)'
                     => Pending(u, i) /\ call'[u] = call[u] /\ g.done[u] = f.done[u],
         \A u \in Tasks : Pending(u, i) /\ ~Pending(u, i)' => g.done[u] = NotYet,
         \E s, labels : Ordered(i, f, s, labels)'
  PROVE  \E s, labels : Ordered(i, g, s, labels)
<1> PICK s, labels : Ordered(i, f, s, labels)'
  OBVIOUS
<1>1. /\ s \in Seq(Tasks) /\ labels \in [0..Len(s) -> Label]
      /\ Holds(i, labels[0])'
      /\ \A k \in 1..Len(s) :
            /\ Pending(s[k], i)'
            /\ Perform(labels[k - 1], call'[s[k]]) = [label |-> labels[k], res |-> f.done[s[k]]]
            /\ \A m \in 1..Len(s) : s[k] = s[m] => k = m
      /\ \A t \in Tasks : Pending(t, i)' /\ (\A k \in 1..Len(s) : s[k] # t) => f.done[t] = NotYet
  BY DEF Ordered, Perform
<1>2. \A k \in 1..Len(s) : s[k] \in Tasks
  BY <1>1
<1>3. ASSUME NEW t \in Tasks, Pending(t, i), \A k \in 1..Len(s) : s[k] # t PROVE g.done[t] = NotYet
  BY <1>1, <1>3
<1>4. Ordered(i, g, s, labels)
  BY <1>1, <1>2, <1>3 DEF Ordered
<1> QED BY <1>4

\* The call that takes effect now, on a file that is unlinked, goes first.
LEMMA OrderedFirst ==
  ASSUME NEW i, NEW f, NEW g, NEW t \in Tasks, NEW l \in Label, Holds(i, l),
         Pending(t, i), ~Pending(t, i)',
         \A u \in Tasks \ {t} : /\ Pending(u, i)' <=> Pending(u, i)
                                /\ call'[u] = call[u] /\ g.done[u] = f.done[u],
         NEW s, NEW labels, Ordered(i, f, s, labels)',
         Perform(l, call[t]) = [label |-> labels[0], res |-> g.done[t]]
  PROVE  \E z, ls : Ordered(i, g, z, ls)
<1>1. /\ s \in Seq(Tasks) /\ labels \in [0..Len(s) -> Label]
      /\ \A k \in 1..Len(s) :
            /\ Pending(s[k], i)'
            /\ Perform(labels[k - 1], call'[s[k]]) = [label |-> labels[k], res |-> f.done[s[k]]]
            /\ \A m \in 1..Len(s) : s[k] = s[m] => k = m
      /\ \A u \in Tasks : Pending(u, i)' /\ (\A k \in 1..Len(s) : s[k] # u) => f.done[u] = NotYet
  BY DEF Ordered, Perform
<1>2. Len(s) \in Nat /\ \A k \in 1..Len(s) : s[k] \in Tasks /\ s[k] # t
  <2>1. Len(s) \in Nat /\ \A k \in 1..Len(s) : s[k] \in Tasks
    BY <1>1
  <2>2. ASSUME NEW k \in 1..Len(s) PROVE s[k] # t
    <3>1. Pending(s[k], i)'
      BY <1>1
    <3> QED BY <3>1 DEF Pending
  <2> QED BY <2>1, <2>2
<1> DEFINE z == <<t>> \o s
           ls == [k \in 0..(Len(s) + 1) |-> IF k = 0 THEN l ELSE labels[k - 1]]
<1>3. /\ z \in Seq(Tasks) /\ Len(z) = Len(s) + 1 /\ z[1] = t
      /\ \A k \in 1..Len(s) : z[k + 1] = s[k]
  BY <1>1
<1>4. /\ ls \in [0..Len(z) -> Label] /\ ls[0] = l
      /\ \A k \in 0..Len(s) : ls[k + 1] = labels[k]
  BY <1>1, <1>2, <1>3
<1> HIDE DEF z, ls
<1>5. \A k \in 1..Len(z) : k = 1 \/ (k - 1 \in 1..Len(s) /\ z[k] = s[k - 1] /\ ls[k] = labels[k - 1]
                                     /\ ls[k - 1] = labels[(k - 1) - 1])
  <2> TAKE k \in 1..Len(z)
  <2>1. k = 1 \/ (k - 1 \in 1..Len(s) /\ (k - 1) + 1 = k /\ (k - 1) - 1 \in 0..Len(s)
                  /\ ((k - 1) - 1) + 1 = k - 1 /\ k - 1 \in 0..Len(s))
    BY <1>2, <1>3
  <2> QED BY <2>1, <1>3, <1>4
<1>6. ASSUME NEW k \in 1..Len(z)
      PROVE  /\ Pending(z[k], i)
             /\ Perform(ls[k - 1], call[z[k]]) = [label |-> ls[k], res |-> g.done[z[k]]]
             /\ \A m \in 1..Len(z) : z[k] = z[m] => k = m
  <2>1. CASE k = 1
    <3>1. k - 1 = 0 /\ ls[k - 1] = l /\ ls[k] = labels[0]
      <4>1. 0 \in 0..Len(s) /\ 0 + 1 = 1
        BY <1>2
      <4> QED BY <1>4, <2>1, <4>1
    <3>2. \A m \in 1..Len(z) : z[k] = z[m] => k = m
      BY <1>2, <1>3, <1>5, <2>1
    <3> QED BY <1>3, <2>1, <3>1, <3>2
  <2>2. CASE k # 1
    <3>1. k - 1 \in 1..Len(s) /\ z[k] = s[k - 1] /\ ls[k] = labels[k - 1]
          /\ ls[k - 1] = labels[(k - 1) - 1]
      BY <1>5, <2>2
    <3>2. z[k] \in Tasks \ {t}
      BY <1>2, <3>1
    <3>3. Pending(z[k], i) /\ call'[z[k]] = call[z[k]] /\ g.done[z[k]] = f.done[z[k]]
      BY <1>1, <3>1, <3>2
    <3>4. \A m \in 1..Len(z) : z[k] = z[m] => k = m
      <4> SUFFICES ASSUME NEW m \in 1..Len(z), z[k] = z[m] PROVE k = m
        OBVIOUS
      <4>1. m # 1
        BY <1>3, <3>2
      <4>2. m - 1 \in 1..Len(s) /\ z[m] = s[m - 1]
        BY <1>5, <4>1
      <4>3. k - 1 = m - 1
        BY <1>1, <3>1, <4>2
      <4> QED BY <4>3, <1>3, <1>2
    <3> QED BY <1>1, <3>1, <3>3, <3>4
  <2> QED BY <2>1, <2>2
<1>7. ASSUME NEW u \in Tasks, Pending(u, i), \A k \in 1..Len(z) : z[k] # u PROVE g.done[u] = NotYet
  <2>1. 1 \in 1..Len(z) /\ \A k \in 1..Len(s) : k + 1 \in 1..Len(z)
    BY <1>2, <1>3
  <2>2. u # t
    BY <1>3, <1>7, <2>1
  <2>3. \A k \in 1..Len(s) : s[k] # u
    BY <1>3, <1>7, <2>1
  <2> QED BY <1>1, <1>7, <2>2, <2>3
<1>8. Ordered(i, g, z, ls)
  BY <1>3, <1>4, <1>6, <1>7 DEF Ordered
<1> QED BY <1>8

\* What t finds in the files before its step and after it is the same.
LEMMA HoldsSame ==
  ASSUME NEW t \in Tasks, OthersStay(t), NEW i,
         ino[t] = i /\ Creating(t) <=> (ino[t] = i /\ Creating(t))',
         ino[t] = i /\ Updating(t) <=> (ino[t] = i /\ Updating(t))',
         ino[t] = i /\ Updating(t) => NewLabel(t)' = NewLabel(t),
         \/ file'[i] = file[i]
         \/ ino[t] = i /\ (Creating(t) \/ Updating(t))
  PROVE  \A l : Holds(i, l)' => Holds(i, l)
<1> SUFFICES ASSUME NEW l, Holds(i, l)' PROVE Holds(i, l)
  OBVIOUS
<1>1. \A u \in Tasks \ {t} : /\ (ino[u] = i /\ Creating(u))' <=> ino[u] = i /\ Creating(u)
                             /\ (ino[u] = i /\ Updating(u))' <=> ino[u] = i /\ Updating(u)
                             /\ NewLabel(u)' = NewLabel(u)
  BY DEF OthersStay, Creating, Updating, NewLabel
<1>2. /\ \A u \in Tasks : (ino[u] = i /\ Creating(u))' => l = NewEmpty
      /\ \A u \in Tasks : (ino[u] = i /\ Updating(u))' => l = NewLabel(u)'
      /\ (\A u \in Tasks : ~(ino[u] = i /\ Creating(u))' /\ ~(ino[u] = i /\ Updating(u))')
            => l = file'[i]
  BY DEF Holds, NewEmpty
<1>3. \A u \in Tasks : /\ (ino[u] = i /\ Creating(u))' <=> ino[u] = i /\ Creating(u)
                       /\ (ino[u] = i /\ Updating(u))' <=> ino[u] = i /\ Updating(u)
                       /\ ino[u] = i /\ Updating(u) => NewLabel(u)' = NewLabel(u)
  BY <1>1
<1> QED BY <1>2, <1>3 DEF Holds

\* The writer of a file is done with it.
LEMMA HoldsSynced ==
  ASSUME IndInv, NEW t \in Tasks, OthersStay(t), file' = file, NEW i, pc'[t] = "idle",
         pc[t] \in {"create_sync", "set_sync"}
  PROVE  \A l : Holds(i, l)' => Holds(i, l)
<1>1. CASE ino[t] # i
  BY <1>1, HoldsSame DEF Creating, Updating, NewLabel
<1>2. CASE ino[t] = i
  <2>1. \A u \in Tasks \ {t} : ino[u] = i => ~Creating(u) /\ ~Updating(u)
    BY <1>2 DEF IndInv, CreatorsAreAlone, LocksExclude, Creating, Updating, Exclusive
  <2>2. \A l : Holds(i, l)' => l = file[i]
    BY <2>1 DEF Holds, OthersStay, Creating, Updating
  <2>3. file[i] = IF Creating(t) THEN NewEmpty ELSE NewLabel(t)
    BY <1>2 DEF IndInv, WritersAreAlone, Creating
  <2> QED BY <1>2, <2>1, <2>2, <2>3 DEF Holds, Creating, Updating
<1> QED BY <1>1, <1>2

-----------------------------------------------------------------------------
\* The parts of an explanation that are not about t carry over.
LEMMA ExplainsBack ==
  ASSUME NEW t \in Tasks, OthersStay(t), NEW f, Explains(f)', NEW g \in Explanation,
         \A u \in Tasks \ {t} : g.done[u] = f.done[u],
         dir' = dir \/ dir = NoInode,
         NoInode \notin Inodes,
         IF dir = NoInode THEN g.label = NoLabel ELSE Holds(dir, g.label),
         Creating(t) => g.done[t] = Ok(NewEmpty),
         Updating(t) => g.done[t] = Ok(NewLabel(t)),
         ~Creating(t) /\ ~Updating(t) /\ (\A i \in Inodes \ {dir} : ~Pending(t, i))
            => g.done[t] = NotYet,
         \A i \in Inodes \ {dir} : file[i] # Unused => \E s, labels : Ordered(i, g, s, labels)
  PROVE  Explains(g)
<1>1. ASSUME NEW u \in Tasks \ {t}
      PROVE  /\ Creating(u) => g.done[u] = Ok(NewEmpty)
             /\ Updating(u) => g.done[u] = Ok(NewLabel(u))
             /\ ~Creating(u) /\ ~Updating(u) /\ (\A i \in Inodes \ {dir} : ~Pending(u, i))
                   => g.done[u] = NotYet
  <2>1. /\ Creating(u)' <=> Creating(u)
        /\ Updating(u)' <=> Updating(u)
        /\ \A i : Pending(u, i)' <=> Pending(u, i)
        /\ NewLabel(u)' = NewLabel(u)
    BY <1>1 DEF OthersStay, Creating, Updating, Pending, NewLabel
  <2>2. /\ Creating(u)' => f.done[u] = Ok(NewEmpty)
        /\ Updating(u)' => f.done[u] = Ok(NewLabel(u)')
        /\ ~Creating(u)' /\ ~Updating(u)' /\ (\A i \in Inodes \ {dir'} : ~Pending(u, i)')
              => f.done[u] = NotYet
    BY DEF Explains, Ok, NewEmpty
  <2>3. (\A i \in Inodes \ {dir} : ~Pending(u, i)) => (\A i \in Inodes \ {dir'} : ~Pending(u, i))
    OBVIOUS
  <2> QED BY <2>1, <2>2, <2>3
<1>2. \A u \in Tasks :
        /\ Creating(u) => g.done[u] = Ok(NewEmpty)
        /\ Updating(u) => g.done[u] = Ok(NewLabel(u))
        /\ ~Creating(u) /\ ~Updating(u) /\ (\A i \in Inodes \ {dir} : ~Pending(u, i))
              => g.done[u] = NotYet
  BY <1>1
<1> QED BY <1>2 DEF Explains

\* A step in which no call takes effect and no writer is done.
LEMMA Quiet ==
  ASSUME NEW t \in Tasks, OthersStay(t), NEW f, Explains(f)', dir' = dir, NoInode \notin Inodes,
         Creating(t)' <=> Creating(t), Updating(t)' <=> Updating(t),
         Creating(t) \/ Updating(t) => ino'[t] = ino[t] /\ call'[t] = call[t],
         \A i \in Inodes \ {dir} : Pending(t, i)' => Pending(t, i) /\ call'[t] = call[t],
         \A i \in Inodes : file'[i] = file[i] \/ (ino[t] = i /\ (Creating(t) \/ Updating(t))),
         \A i \in Inodes : file[i] # Unused => file'[i] # Unused,
         dir \in Inodes \cup {NoInode}
  PROVE  Explains(f)
<1>1. f \in Explanation /\ IF dir = NoInode THEN f.label = NoLabel ELSE Holds(dir, f.label)'
  BY DEF Explains, Explanation, Result, MaybeLabel, Label, NotYet
<1>2. /\ Creating(t)' => f.done[t] = Ok(NewEmpty)
      /\ Updating(t)' => f.done[t] = Ok(NewLabel(t)')
      /\ ~Creating(t)' /\ ~Updating(t)' /\ (\A i \in Inodes \ {dir'} : ~Pending(t, i)')
              => f.done[t] = NotYet
      /\ \A i \in Inodes \ {dir} : file'[i] # Unused => \E s, labels : Ordered(i, f, s, labels)'
  BY DEF Explains, Ok, NewEmpty
<1>3. Creating(t) \/ Updating(t) => NewLabel(t)' = NewLabel(t)
  BY DEF NewLabel
<1>4. ASSUME NEW i \in Inodes PROVE \A l : Holds(i, l)' => Holds(i, l)
  BY <1>3, HoldsSame
<1>5. ASSUME NEW i \in Inodes \ {dir}, Pending(t, i), ~Pending(t, i)' PROVE f.done[t] = NotYet
  <2>1. ~Creating(t) /\ ~Updating(t) /\ ino[t] = i
    BY <1>5 DEF Pending, Creating, Updating
  <2>2. \A j \in Inodes \ {dir} : Pending(t, j)' => j = i
    BY <2>1 DEF Pending
  <2>3. \A j \in Inodes \ {dir} : ~Pending(t, j)'
    BY <1>5, <2>2
  <2> QED BY <1>2, <2>1, <2>3
<1>6. \A u \in Tasks \ {t} : \A i : (Pending(u, i)' <=> Pending(u, i)) /\ call'[u] = call[u]
  BY DEF OthersStay, Pending
<1>7. ASSUME NEW i \in Inodes \ {dir}, file[i] # Unused
      PROVE  \E s, labels : Ordered(i, f, s, labels)
  <2>1. \E s, labels : Ordered(i, f, s, labels)'
    BY <1>2, <1>7
  <2>2. \A u \in Tasks : Pending(u, i)' => Pending(u, i) /\ call'[u] = call[u]
    BY <1>6
  <2>3. \A u \in Tasks : Pending(u, i) /\ ~Pending(u, i)' => f.done[u] = NotYet
    BY <1>5, <1>6
  <2> QED BY <1>4, <2>1, <2>2, <2>3, OrderedBack
<1>8. /\ Creating(t) => f.done[t] = Ok(NewEmpty)
      /\ Updating(t) => f.done[t] = Ok(NewLabel(t))
      /\ ~Creating(t) /\ ~Updating(t) /\ (\A i \in Inodes \ {dir} : ~Pending(t, i))
              => f.done[t] = NotYet
  <2>1. (\A i \in Inodes \ {dir} : ~Pending(t, i)) => (\A i \in Inodes \ {dir'} : ~Pending(t, i)')
    OBVIOUS
  <2> QED BY <1>2, <1>3, <2>1
<1>9. IF dir = NoInode THEN f.label = NoLabel ELSE Holds(dir, f.label)
  BY <1>1, <1>4
<1> QED BY <1>1, <1>7, <1>8, <1>9, ExplainsBack

-----------------------------------------------------------------------------
(***************************************************************************)
(* How the explanations of the monitor change with a step.                 *)
(***************************************************************************)

\* The same after a step.
LEMMA ReachedClosedNext ==
  ASSUME TypeOK', explanations' \subseteq Explanation
  PROVE  /\ explanations' \subseteq Reached'
         /\ \A e \in Reached', t \in Tasks :
              call'[t] # NoCall /\ e.done[t] = NotYet => TakeEffect(e, t)' \in Reached'
<1>1. (TypeOK /\ explanations \subseteq Explanation =>
        /\ explanations \subseteq Reached
        /\ \A e \in Reached, t \in Tasks :
              call[t] # NoCall /\ e.done[t] = NotYet => TakeEffect(e, t) \in Reached)'
  BY ReachedClosed, PTL
<1>2. Explanation' = Explanation /\ NotYet' = NotYet /\ NoCall' = NoCall
  BY DEF Explanation, MaybeLabel, Label, Result, NotYet, NoCall
<1> QED BY <1>1, <1>2

\* While nothing returns, calls begin and go on: no explanation is lost.
LEMMA ReachedKept ==
  ASSUME TypeOK', explanations' = explanations, explanations \subseteq Explanation,
         \A u \in Tasks : call[u] # NoCall => call'[u] = call[u]
  PROVE  Reached \subseteq Reached'
<1> DEFINE S == Reached'
<1>1. explanations \subseteq S /\ \A e \in S, t \in Tasks :
              call'[t] # NoCall /\ e.done[t] = NotYet => TakeEffect(e, t)' \in S
  BY ReachedClosedNext
<1>2. \A e, t : call'[t] = call[t] => TakeEffect(e, t)' = TakeEffect(e, t)
  BY DEF TakeEffect, Perform
<1> HIDE DEF S
<1>3. \A e \in S, t \in Tasks : call[t] # NoCall /\ e.done[t] = NotYet => TakeEffect(e, t) \in S
  BY <1>1, <1>2
<1>4. Reached \subseteq S
  BY <1>1, <1>3, ReachedLeast
<1> QED BY <1>4 DEF S

\* An explanation in which t has its result stays, without it, when t returns.
LEMMA ReachedAfterReturn ==
  ASSUME TypeOK, explanations \subseteq Explanation, TypeOK', explanations' \subseteq Explanation,
         NEW t \in Tasks, NEW res, explanations' = AfterReturn(t, res),
         NEW e \in Reached, e.done[t] = IF res = InvalidData THEN NotYet ELSE res,
         NEW f \in Explanation, f.label = e.label, f.done[t] = NotYet,
         \A u \in Tasks \ {t} : f.done[u] = e.done[u]
  PROVE  f \in Reached'
<1>1. e \in Explanation
  BY ReachedType
<1> DEFINE h == [e EXCEPT !.done[t] = NotYet]
<1>2. h \in explanations'
  BY DEF AfterReturn, Reached
<1>3. h = [label |-> e.label, done |-> [e.done EXCEPT ![t] = NotYet]]
  BY <1>1 DEF Explanation
<1>4. e.label \in MaybeLabel /\ e.done \in [Tasks -> Result \cup {NotYet}]
  BY <1>1 DEF Explanation
<1>5. h \in Explanation /\ h.label = e.label
      /\ \A u \in Tasks : h.done[u] = IF u = t THEN NotYet ELSE e.done[u]
  <2> HIDE DEF h
  <2> QED BY <1>3, <1>4 DEF Explanation
<1> HIDE DEF h
<1>6. f = h
  BY <1>5, ExplanationEq
<1> QED BY <1>2, <1>6, ReachedClosedNext

\* What is left after a return are explanations.
LEMMA ReturnType ==
  ASSUME TypeOK, explanations \subseteq Explanation, NEW t \in Tasks, NEW res,
         explanations' = AfterReturn(t, res)
  PROVE  explanations' \subseteq Explanation
<1>1. Reached \subseteq Explanation
  BY ReachedType
<1>2. ASSUME NEW e \in Explanation PROVE [e EXCEPT !.done[t] = NotYet] \in Explanation
  <2>1. /\ e.label \in MaybeLabel /\ e.done \in [Tasks -> Result \cup {NotYet}]
        /\ [e EXCEPT !.done[t] = NotYet] =
                [label |-> e.label, done |-> [e.done EXCEPT ![t] = NotYet]]
    BY DEF Explanation
  <2> QED BY <2>1 DEF Explanation
<1> QED BY <1>1, <1>2 DEF AfterReturn, Reached

\* A call that is not under way has not taken effect.
LEMMA IdleNotYet ==
  ASSUME NEW t \in Tasks, NEW f, Explains(f)', pc'[t] = "idle"
  PROVE  f \in Explanation /\ f.done[t] = NotYet
<1>1. f \in Explanation
  BY DEF Explains, Explanation, Result, MaybeLabel, Label, NotYet
<1>2. ~Creating(t)' /\ ~Updating(t)' /\ \A i \in Inodes \ {dir'} : ~Pending(t, i)'
  BY DEF Creating, Updating, Pending
<1> QED BY <1>1, <1>2 DEF Explains, NotYet

-----------------------------------------------------------------------------
\* t returns at once with what the label is now.
LEMMA ReturnsNow ==
  ASSUME MonitorInv, TypeOK', explanations' \subseteq Explanation,
         NEW t \in Tasks, NEW res, explanations' = AfterReturn(t, res), res # InvalidData,
         pc[t] # "idle", pc'[t] = "idle", NEW f, Explains(f), Explains(f)',
         Perform(f.label, call[t]) = [label |-> f.label, res |-> res]
  PROVE  f \in Reached'
<1>1. f \in Explanation /\ f.done[t] = NotYet
  BY IdleNotYet
<1>2. f \in Reached /\ TypeOK /\ explanations \subseteq Explanation
  BY DEF MonitorInv, AllExplained, Reached, IndInv
<1>3. call[t] # NoCall
  BY TheCalls DEF MonitorInv
<1>4. TakeEffect(f, t) \in Reached
  BY <1>1, <1>2, <1>3, ReachedClosed
<1>5. /\ TakeEffect(f, t).label = f.label
      /\ TakeEffect(f, t).done = [f.done EXCEPT ![t] = res]
  BY <1>1, <1>2, <1>3, TakeEffectType
<1>6. TakeEffect(f, t).done[t] = res /\ \A u \in Tasks \ {t} : f.done[u] = TakeEffect(f, t).done[u]
  BY <1>1, <1>5 DEF Explanation
<1> DEFINE e == TakeEffect(f, t)
<1>7. /\ e \in Reached /\ f.label = e.label /\ e.done[t] = IF res = InvalidData THEN NotYet ELSE res
      /\ \A u \in Tasks \ {t} : f.done[u] = e.done[u]
  BY <1>4, <1>5, <1>6
<1> HIDE DEF e
<1> QED BY <1>1, <1>2, <1>7, ReachedAfterReturn

\* t returns with a result it has had for a while.
LEMMA ReturnsLater ==
  ASSUME MonitorInv, TypeOK', explanations' \subseteq Explanation,
         NEW t \in Tasks, NEW res \in Result, explanations' = AfterReturn(t, res),
         res # InvalidData, pc'[t] = "idle", NEW f, Explains(f)',
         Explains([label |-> f.label, done |-> [f.done EXCEPT ![t] = res]])
  PROVE  f \in Reached'
<1>1. f \in Explanation /\ f.done[t] = NotYet
  BY IdleNotYet
<1> DEFINE e == [label |-> f.label, done |-> [f.done EXCEPT ![t] = res]]
<1>2. e \in Reached /\ TypeOK /\ explanations \subseteq Explanation
  BY DEF MonitorInv, AllExplained, Reached, IndInv
<1>3. e.label = f.label /\ e.done[t] = res /\ \A u \in Tasks \ {t} : f.done[u] = e.done[u]
  BY <1>1, WithDone DEF Explanation
<1> HIDE DEF e
<1> QED BY <1>1, <1>2, <1>3, ReachedAfterReturn

\* t returns InvalidData, or it goes on without effect.
LEMMA ReturnsInvalid ==
  ASSUME MonitorInv, TypeOK', explanations' \subseteq Explanation,
         NEW t \in Tasks, explanations' = AfterReturn(t, InvalidData),
         pc'[t] = "idle", NEW f, Explains(f), Explains(f)'
  PROVE  f \in Reached'
<1>1. f \in Explanation /\ f.done[t] = NotYet
  BY IdleNotYet
<1>2. f \in Reached /\ TypeOK /\ explanations \subseteq Explanation
  BY DEF MonitorInv, AllExplained, Reached, IndInv
<1> QED BY <1>1, <1>2, ReachedAfterReturn

-----------------------------------------------------------------------------
(***************************************************************************)
(* The steps.  Whatever explains the state after a step comes from what    *)
(* explains the state before it: by itself, or by letting the calls that   *)
(* the step makes visible take effect.                                     *)
(***************************************************************************)

\* A call that has not taken effect returns, and leaves the files alone.
LEMMA QuietReturn ==
  ASSUME IndInv, NEW t \in Tasks, NEW res, Return(t, res), file' = file, dir' = dir,
         ~Creating(t), ~Updating(t), NEW f, Explains(f)'
  PROVE  Explains(f) /\ pc'[t] = "idle" /\ OthersStay(t)
<1>1. pc'[t] = "idle" /\ OthersStay(t)
  BY DEF Return, OthersStay, IndInv, TypeOK
<1>2. ~Creating(t)' /\ ~Updating(t)' /\ \A i : ~Pending(t, i)'
  BY <1>1 DEF Creating, Updating, Pending
<1>3. dir \in Inodes \cup {NoInode}
  BY DEF IndInv, TypeOK
<1> QED BY <1>1, <1>2, <1>3, DirectoryAssumption, Quiet

\* create_label, set_label_option and delete_label when there is, or is not, a
\* file, get_label when there is none: they return with what the label is now.
LEMMA RefusedStep ==
  ASSUME MonitorInv, TypeOK', explanations' \subseteq Explanation, NEW t \in Tasks,
         NEW f, Explains(f)',
         NEW res, Return(t, res), explanations' = AfterReturn(t, res), file' = file, dir' = dir,
         \/ pc[t] \in {"create_stat", "create_open"} /\ dir # NoInode /\ res = Err
         \/ pc[t] = "get_open" /\ dir = NoInode /\ res = Ok(NoLabel)
         \/ pc[t] = "set_open" /\ dir = NoInode /\ res = Err
         \/ pc[t] = "delete_unlink" /\ dir = NoInode /\ res = OkBool(FALSE)
  PROVE  f \in Reached'
<1>1. IndInv /\ CallsFit
  BY DEF MonitorInv
<1>2. Explains(f) /\ pc'[t] = "idle"
  BY <1>1, QuietReturn DEF Creating, Updating
<1>3. res # InvalidData
  BY DEF Err, Ok, OkBool, InvalidData
<1>4. f \in Explanation /\ f.label \in MaybeLabel
      /\ IF dir = NoInode THEN f.label = NoLabel ELSE Holds(dir, f.label)
  BY <1>2 DEF Explains, Explanation
<1>5. dir # NoInode => dir \in Inodes /\ file[dir] # Unused
  BY <1>1 DEF IndInv, TypeOK, FilesAreOpen
<1>6. dir # NoInode => f.label # NoLabel
  <2>1. dir # NoInode => f.label \in Label
    BY <1>1, <1>4, <1>5, HoldsLabel
  <2> QED BY <2>1, LabelsAssumption DEF Label
<1>7. pc[t] # "idle" /\ Perform(f.label, call[t]) = [label |-> f.label, res |-> res]
  <2>1. CASE pc[t] \in {"create_stat", "create_open"} /\ dir # NoInode /\ res = Err
    BY <1>1, <1>6, <2>1, TheCalls DEF CreatePCs, CreateLabel
  <2>2. CASE pc[t] = "get_open" /\ dir = NoInode /\ res = Ok(NoLabel)
    BY <1>1, <1>4, <2>2, TheCalls DEF GetPCs, GetLabel
  <2>3. CASE pc[t] = "set_open" /\ dir = NoInode /\ res = Err
    BY <1>1, <1>4, <2>3, TheCalls DEF SetPCs, SetLabelOption
  <2>4. CASE pc[t] = "delete_unlink" /\ dir = NoInode /\ res = OkBool(FALSE)
    BY <1>1, <1>4, <2>4, TheCalls DEF DeleteLabel
  <2> QED BY <2>1, <2>2, <2>3, <2>4
<1> QED BY <1>2, <1>3, <1>7, ReturnsNow

-----------------------------------------------------------------------------
\* get_label reads its file, or set_label_option finds another label in it:
\* the call takes effect now or, if the file is unlinked, it did before that.
LEMMA ReadStep ==
  ASSUME MonitorInv, TypeOK', explanations' \subseteq Explanation, NEW t \in Tasks,
         NEW f, Explains(f)',
         NEW res, Return(t, res), explanations' = AfterReturn(t, res), file' = file, dir' = dir,
         file[ino[t]] # Empty,
         \/ pc[t] = "get_read" /\ res = Ok(file[ino[t]])
         \/ /\ pc[t] = "set_read" /\ ~SameLabel(file[ino[t]], call[t].label)
            /\ res = Ok(NoLabel)
  PROVE  f \in Reached'
<1>1. IndInv /\ CallsFit
  BY DEF MonitorInv
<1>2. Explains(f) /\ pc'[t] = "idle" /\ OthersStay(t)
  BY <1>1, QuietReturn DEF Creating, Updating
<1>3. /\ ino[t] \in Inodes /\ file[ino[t]] \in Label /\ file[ino[t]] # Unused
      /\ \A l : Holds(ino[t], l) <=> l = file[ino[t]]
      /\ \A u \in Tasks : ino[u] = ino[t] => ~Creating(u) /\ ~Updating(u)
  BY <1>1, HoldsRead
<1>4. res # InvalidData /\ res \in Result
  BY <1>3, Results DEF Ok, InvalidData, MaybeLabel
<1>5. Perform(file[ino[t]], call[t]) = [label |-> file[ino[t]], res |-> res]
  <2>1. file[ino[t]] # NoLabel
    BY <1>3, LabelsAssumption DEF Label
  <2>2. CASE pc[t] = "get_read"
    BY <1>1, <2>2, TheCalls DEF GetPCs, GetLabel
  <2>3. CASE pc[t] = "set_read"
    BY <1>1, <2>1, <2>3, TheCalls DEF SetPCs, SetLabelOption
  <2> QED BY <2>2, <2>3
<1>6. CASE ino[t] = dir
  <2>1. f.label = file[ino[t]]
    BY <1>2, <1>3, <1>6, DirectoryAssumption DEF Explains
  <2> QED BY <1>2, <1>4, <1>5, <2>1, ReturnsNow
<1>7. CASE ino[t] # dir
  <2> DEFINE g == [label |-> f.label, done |-> [f.done EXCEPT ![t] = res]]
  <2>1. f \in Explanation /\ f.label \in MaybeLabel
    BY <1>2 DEF Explains, Explanation
  <2>2. g \in Explanation /\ g.label = f.label /\ g.done[t] = res
        /\ \A u \in Tasks \ {t} : g.done[u] = f.done[u]
    BY <1>4, <2>1, WithDone
  <2> HIDE DEF g
  <2>3. ~Creating(t) /\ ~Updating(t) /\ Pending(t, ino[t])
    BY DEF Creating, Updating, Pending
  <2>4. \A i : ~Pending(t, i)'
    BY <1>2 DEF Pending
  <2>5. \A u \in Tasks \ {t} : \A i : (Pending(u, i)' <=> Pending(u, i)) /\ call'[u] = call[u]
    BY <1>2 DEF OthersStay, Pending
  <2>6. \A i \in Inodes \ {dir} : file[i] # Unused => \E s, labels : Ordered(i, f, s, labels)'
    BY DEF Explains
  <2>7. PICK i \in Inodes : i = ino[t]
    BY <1>3
  <2>8. \E s, labels : Ordered(i, g, s, labels)
    <3>1. PICK s, labels : Ordered(i, f, s, labels)'
      BY <1>3, <1>7, <2>6, <2>7
    <3>2. labels[0] = file[i]
      <4>1. Holds(i, labels[0])'
        BY <3>1 DEF Ordered
      <4>2. \A u \in Tasks : ~(ino'[u] = i /\ (Creating(u)' \/ Updating(u)'))
        BY <1>2, <1>3, <2>7 DEF OthersStay, Creating, Updating
      <4> QED BY <4>1, <4>2 DEF Holds
    <3>3. Holds(i, file[i]) /\ file[i] \in Label /\ Pending(t, i) /\ ~Pending(t, i)'
      BY <1>3, <2>3, <2>4, <2>7
    <3>4. Perform(file[i], call[t]) = [label |-> labels[0], res |-> g.done[t]]
      BY <1>5, <2>2, <2>7, <3>2
    <3> QED BY <2>2, <2>5, <3>1, <3>3, <3>4, OrderedFirst
  <2>9. ASSUME NEW j \in Inodes \ {dir}, file[j] # Unused, j # i
        PROVE  \E s, labels : Ordered(j, g, s, labels)
    <3>1. ~Pending(t, j)
      BY <2>7, <2>9 DEF Pending
    <3>2. \A l : Holds(j, l)' => Holds(j, l)
      <4>1. ~Creating(t)' /\ ~Updating(t)'
        BY <1>2 DEF Creating, Updating
      <4> QED BY <1>2, <2>3, <4>1, HoldsSame
    <3>3. \A u \in Tasks : Pending(u, j)'
                      => Pending(u, j) /\ call'[u] = call[u] /\ g.done[u] = f.done[u]
      BY <2>2, <2>4, <2>5
    <3>4. \A u \in Tasks : Pending(u, j) /\ ~Pending(u, j)' => g.done[u] = NotYet
      BY <2>5, <3>1
    <3>5. \E s, labels : Ordered(j, f, s, labels)'
      BY <2>6, <2>9
    <3> QED BY <3>2, <3>3, <3>4, <3>5, OrderedBack
  <2>10. IF dir = NoInode THEN g.label = NoLabel ELSE Holds(dir, g.label)
    BY <1>2, <2>2 DEF Explains
  <2>11. \A j \in Inodes \ {dir} : file[j] # Unused => \E s, labels : Ordered(j, g, s, labels)
    BY <2>8, <2>9
  <2>12. ~(\A j \in Inodes \ {dir} : ~Pending(t, j))
    BY <1>7, <2>3, <2>7
  <2>13. Explains(g)
    BY <1>2, <2>2, <2>3, <2>10, <2>11, <2>12, DirectoryAssumption, ExplainsBack
  <2> QED BY <1>2, <1>4, <2>13, ReturnsLater DEF g
<1> QED BY <1>6, <1>7

\* create_label and set_label_option return with the effect they had earlier.
LEMMA SyncStep ==
  ASSUME MonitorInv, TypeOK', explanations' \subseteq Explanation, NEW t \in Tasks,
         NEW f, Explains(f)',
         NEW res, Return(t, res), explanations' = AfterReturn(t, res), file' = file, dir' = dir,
         \/ pc[t] = "create_sync" /\ res = Ok(NewEmpty)
         \/ pc[t] = "set_sync" /\ res = Ok(NewLabel(t))
  PROVE  f \in Reached'
<1>1. IndInv /\ CallsFit
  BY DEF MonitorInv
<1>2. pc'[t] = "idle" /\ OthersStay(t)
  BY <1>1 DEF Return, OthersStay, IndInv, TypeOK
<1>3. res # InvalidData /\ res \in Result
  <2>1. NewEmpty \in MaybeLabel /\ (pc[t] = "set_sync" => NewLabel(t) \in MaybeLabel)
    BY <1>1, TheCalls DEF SetPCs, NewEmpty, MaybeLabel, Label
  <2> QED BY <2>1, Results DEF Ok, InvalidData
<1> DEFINE g == [label |-> f.label, done |-> [f.done EXCEPT ![t] = res]]
<1>4. f \in Explanation /\ f.label \in MaybeLabel
  BY <1>2, IdleNotYet DEF Explanation
<1>5. g \in Explanation /\ g.label = f.label /\ g.done[t] = res
      /\ \A u \in Tasks \ {t} : g.done[u] = f.done[u]
  BY <1>3, <1>4, WithDone
<1> HIDE DEF g
<1>6. \A i : ~Pending(t, i) /\ ~Pending(t, i)'
  BY <1>2 DEF Pending
<1>7. \A u \in Tasks \ {t} : \A i : (Pending(u, i)' <=> Pending(u, i)) /\ call'[u] = call[u]
  BY <1>2 DEF OthersStay, Pending
<1>8. ASSUME NEW i PROVE \A l : Holds(i, l)' => Holds(i, l)
  BY <1>1, <1>2, HoldsSynced
<1>9. IF dir = NoInode THEN g.label = NoLabel ELSE Holds(dir, g.label)
  <2>1. IF dir = NoInode THEN f.label = NoLabel ELSE Holds(dir, f.label)'
    BY DEF Explains
  <2> QED BY <1>5, <1>8, <2>1
<1>10. ASSUME NEW j \in Inodes \ {dir}, file[j] # Unused
       PROVE  \E s, labels : Ordered(j, g, s, labels)
  <2>1. \A u \in Tasks : Pending(u, j)'
                    => Pending(u, j) /\ call'[u] = call[u] /\ g.done[u] = f.done[u]
    BY <1>5, <1>6, <1>7
  <2>2. \A u \in Tasks : Pending(u, j) /\ ~Pending(u, j)' => g.done[u] = NotYet
    BY <1>6, <1>7
  <2>3. \E s, labels : Ordered(j, f, s, labels)'
    BY <1>10 DEF Explains
  <2> QED BY <1>8, <2>1, <2>2, <2>3, OrderedBack
<1>11. /\ Creating(t) => g.done[t] = Ok(NewEmpty)
       /\ Updating(t) => g.done[t] = Ok(NewLabel(t))
       /\ Creating(t) \/ Updating(t)
  BY <1>5 DEF Creating, Updating
<1>12. Explains(g)
  BY <1>2, <1>5, <1>9, <1>10, <1>11, DirectoryAssumption, ExplainsBack
<1> QED BY <1>2, <1>3, <1>12, ReturnsLater DEF g

-----------------------------------------------------------------------------
\* t takes effect and goes on: f is reached by performing its call in e.
LEMMA TakesEffect ==
  ASSUME MonitorInv, TypeOK', explanations' = explanations,
         \A u \in Tasks : call[u] # NoCall => call'[u] = call[u],
         NEW t \in Tasks, pc[t] # "idle", NEW e \in Explanation, Explains(e), NEW f \in Explanation,
         e.done[t] = NotYet, \A u \in Tasks \ {t} : e.done[u] = f.done[u],
         Perform(e.label, call[t]) = [label |-> f.label, res |-> f.done[t]]
  PROVE  f \in Reached'
<1>1. e \in Reached /\ TypeOK /\ explanations \subseteq Explanation
  BY DEF MonitorInv, AllExplained, Reached, IndInv
<1>2. call[t] # NoCall
  BY TheCalls DEF MonitorInv
<1>3. TakeEffect(e, t) \in Reached
  BY <1>1, <1>2, ReachedClosed
<1>4. /\ TakeEffect(e, t) \in Explanation
      /\ TakeEffect(e, t).label = f.label
      /\ TakeEffect(e, t).done = [e.done EXCEPT ![t] = f.done[t]]
  BY <1>1, <1>2, TakeEffectType
<1>5. \A u \in Tasks : TakeEffect(e, t).done[u] = f.done[u]
  BY <1>4 DEF Explanation
<1>6. TakeEffect(e, t) = f
  BY <1>4, <1>5, ExplanationEq
<1>7. Reached \subseteq Reached'
  BY <1>1, ReachedKept
<1> QED BY <1>3, <1>6, <1>7

\* set_label_option finds the label it expects: it takes effect now or, if the
\* file is unlinked, it did before that.
LEMMA CompareStep ==
  ASSUME MonitorInv, TypeOK', explanations' = explanations, NEW t \in Tasks, NEW f, Explains(f)',
         pc[t] = "set_read", file[ino[t]] # Empty, SameLabel(file[ino[t]], call[t].label),
         GoTo(t, "set_truncate"), ino' = ino, file' = file, dir' = dir
  PROVE  f \in Reached'
<1>1. IndInv /\ CallsFit /\ TypeOK /\ explanations \subseteq Explanation
  BY DEF MonitorInv, IndInv
<1>2. pc'[t] = "set_truncate" /\ OthersStay(t) /\ call' = call
  BY <1>1 DEF GoTo, OthersStay, TypeOK
<1>3. /\ ino[t] \in Inodes /\ file[ino[t]] \in Label /\ file[ino[t]] # Unused
      /\ \A l : Holds(ino[t], l) <=> l = file[ino[t]]
      /\ \A u \in Tasks : ino[u] = ino[t] => ~Creating(u) /\ ~Updating(u)
  BY <1>1, HoldsRead
<1>4. file[ino[t]] # NoLabel
  BY <1>3, LabelsAssumption DEF Label
<1>5. Perform(file[ino[t]], call[t]) = [label |-> NewLabel(t), res |-> Ok(NewLabel(t))]
  BY <1>1, <1>4, TheCalls DEF SetPCs, SetLabelOption, NewLabel
<1>6. f \in Explanation /\ f.label \in MaybeLabel
  <2>1. f \in Explanation
    BY DEF Explains, Explanation, Result, MaybeLabel, Label, NotYet
  <2> QED BY <2>1 DEF Explanation
<1>7. NewLabel(t)' = NewLabel(t) /\ Updating(t)' /\ ~Creating(t)' /\ ~Updating(t) /\ ~Creating(t)
  BY <1>2 DEF NewLabel, Updating, Creating
<1>8. f.done[t] = Ok(NewLabel(t))
  <2>1. f.done[t] = Ok(NewLabel(t)')
    BY <1>7 DEF Explains, Ok
  <2> QED BY <2>1, <1>7
<1>9. \A u \in Tasks \ {t} : \A i : (Pending(u, i)' <=> Pending(u, i)) /\ call'[u] = call[u]
  BY <1>2 DEF OthersStay, Pending
<1>10. Pending(t, ino[t]) /\ \A i : ~Pending(t, i)'
  BY <1>2 DEF Pending
<1>11. PICK i \in Inodes : i = ino[t]
  BY <1>3
<1>12. \A l : Holds(i, l)' => l = NewLabel(t)
  <2>1. ino'[t] = i
    BY <1>11
  <2> QED BY <1>7, <2>1 DEF Holds
<1>13. \A j \in Inodes \ {dir} : file[j] # Unused => \E s, labels : Ordered(j, f, s, labels)'
  BY DEF Explains
<1>14. ASSUME NEW j, j # i PROVE \A l : Holds(j, l)' => Holds(j, l)
  BY <1>2, <1>7, <1>11, <1>14, HoldsSame
<1>15. ASSUME NEW g, \A u \in Tasks \ {t} : g.done[u] = f.done[u],
              NEW j \in Inodes \ {dir}, file[j] # Unused, j # i
       PROVE  \E s, labels : Ordered(j, g, s, labels)
  <2>1. ~Pending(t, j)
    BY <1>11, <1>15 DEF Pending
  <2>2. \A u \in Tasks : Pending(u, j)'
                    => Pending(u, j) /\ call'[u] = call[u] /\ g.done[u] = f.done[u]
    BY <1>9, <1>10, <1>15
  <2>3. \A u \in Tasks : Pending(u, j) /\ ~Pending(u, j)' => g.done[u] = NotYet
    BY <1>9, <2>1
  <2>4. \E s, labels : Ordered(j, f, s, labels)'
    BY <1>13, <1>15
  <2>5. \A l : Holds(j, l)' => Holds(j, l)
    BY <1>14, <1>15
  <2> QED BY <2>2, <2>3, <2>4, <2>5, OrderedBack
<1>16. CASE i = dir
  <2> DEFINE g == [label |-> file[i], done |-> [f.done EXCEPT ![t] = NotYet]]
  <2>1. file[i] \in MaybeLabel
    BY <1>3, <1>11 DEF MaybeLabel
  <2>2. g \in Explanation /\ g.label = file[i] /\ g.done[t] = NotYet
        /\ \A u \in Tasks \ {t} : g.done[u] = f.done[u]
    BY <1>6, <2>1, WithDone
  <2> HIDE DEF g
  <2>3. dir # NoInode /\ Holds(dir, g.label)
    BY <1>3, <1>11, <1>16, <2>2, DirectoryAssumption
  <2>4. \A j \in Inodes \ {dir} : file[j] # Unused => \E s, labels : Ordered(j, g, s, labels)
    BY <1>15, <1>16, <2>2
  <2>5. Explains(g)
    BY <1>2, <1>7, <2>2, <2>3, <2>4, DirectoryAssumption, ExplainsBack
  <2>6. f.label = NewLabel(t)
    <3>1. Holds(i, f.label)'
      BY <1>16, <2>3 DEF Explains
    <3> QED BY <1>12, <3>1
  <2>7. Perform(g.label, call[t]) = [label |-> f.label, res |-> f.done[t]]
    BY <1>5, <1>8, <1>11, <2>2, <2>6
  <2> QED BY <1>2, <1>6, <2>2, <2>5, <2>7, TakesEffect
<1>17. CASE i # dir
  <2>1. \E s, labels : Ordered(i, f, s, labels)
    <3>1. PICK s, labels : Ordered(i, f, s, labels)'
      BY <1>3, <1>11, <1>13, <1>17
    <3>2. labels[0] = NewLabel(t)
      <4>1. Holds(i, labels[0])'
        BY <3>1 DEF Ordered
      <4> QED BY <1>12, <4>1
    <3>3. Holds(i, file[i]) /\ file[i] \in Label /\ Pending(t, i) /\ ~Pending(t, i)'
      BY <1>3, <1>10, <1>11
    <3>4. Perform(file[i], call[t]) = [label |-> labels[0], res |-> f.done[t]]
      BY <1>5, <1>8, <1>11, <3>2
    <3> QED BY <1>9, <3>1, <3>3, <3>4, OrderedFirst
  <2>2. \A j \in Inodes \ {dir} : file[j] # Unused => \E s, labels : Ordered(j, f, s, labels)
    BY <1>15, <2>1
  <2>3. IF dir = NoInode THEN f.label = NoLabel ELSE Holds(dir, f.label)
    <3>1. IF dir = NoInode THEN f.label = NoLabel ELSE Holds(dir, f.label)'
      BY DEF Explains
    <3> QED BY <3>1, <1>14, <1>17
  <2>4. ~(\A j \in Inodes \ {dir} : ~Pending(t, j))
    BY <1>10, <1>11, <1>17
  <2>5. Explains(f)
    BY <1>2, <1>6, <1>7, <2>2, <2>3, <2>4, DirectoryAssumption, ExplainsBack
  <2>6. f \in Reached
    BY <2>5 DEF MonitorInv, AllExplained, Reached
  <2> QED BY <1>1, <1>2, <2>6, ReachedKept
<1> QED BY <1>16, <1>17

\* create_label makes the file: it takes effect now.
LEMMA CreateStep ==
  ASSUME MonitorInv, TypeOK', explanations' = explanations, NEW t \in Tasks, NEW f, Explains(f)',
         pc[t] = "create_open", dir = NoInode, GoTo(t, "create_lock"),
         NEW i \in Inodes, file[i] = Unused, file' = [file EXCEPT ![i] = Empty], dir' = i,
         ino' = [ino EXCEPT ![t] = i]
  PROVE  f \in Reached'
<1>1. IndInv /\ CallsFit /\ TypeOK /\ explanations \subseteq Explanation
  BY DEF MonitorInv, IndInv
<1>2. pc'[t] = "create_lock" /\ ino'[t] = i /\ OthersStay(t) /\ call' = call
  BY <1>1 DEF GoTo, OthersStay, TypeOK
<1>3. f \in Explanation
  BY DEF Explains, Explanation, Result, MaybeLabel, Label, NotYet
<1>4. Creating(t)' /\ ~Updating(t)' /\ ~Creating(t) /\ ~Updating(t)
      /\ \A j : ~Pending(t, j) /\ ~Pending(t, j)'
  BY <1>2 DEF Creating, Updating, Pending
<1>5. f.done[t] = Ok(NewEmpty)
  BY <1>4 DEF Explains, Ok, NewEmpty
<1>6. f.label = NewEmpty
  <2>1. i # NoInode /\ Holds(i, f.label)'
    BY DirectoryAssumption DEF Explains
  <2> QED BY <1>2, <1>4, <2>1 DEF Holds, NewEmpty
<1> DEFINE g == [label |-> NoLabel, done |-> [f.done EXCEPT ![t] = NotYet]]
<1>7. g \in Explanation /\ g.label = NoLabel /\ g.done[t] = NotYet
      /\ \A u \in Tasks \ {t} : g.done[u] = f.done[u]
  <2>1. NoLabel \in MaybeLabel
    BY DEF MaybeLabel
  <2> QED BY <1>3, <2>1, WithDone
<1> HIDE DEF g
<1>8. \A u \in Tasks \ {t} : \A j : (Pending(u, j)' <=> Pending(u, j)) /\ call'[u] = call[u]
  BY <1>2 DEF OthersStay, Pending
<1>9. ASSUME NEW j \in Inodes \ {dir}, file[j] # Unused
      PROVE  \E s, labels : Ordered(j, g, s, labels)
  <2>1. j # i /\ file'[j] = file[j]
    BY <1>1, <1>9 DEF TypeOK
  <2>2. \A l : Holds(j, l)' => Holds(j, l)
    BY <1>2, <1>4, <2>1, HoldsSame
  <2>3. \A u \in Tasks : Pending(u, j)'
                    => Pending(u, j) /\ call'[u] = call[u] /\ g.done[u] = f.done[u]
    BY <1>4, <1>7, <1>8
  <2>4. \A u \in Tasks : Pending(u, j) /\ ~Pending(u, j)' => g.done[u] = NotYet
    BY <1>4, <1>8
  <2>5. \E s, labels : Ordered(j, f, s, labels)'
    BY <1>9, <2>1 DEF Explains
  <2> QED BY <2>2, <2>3, <2>4, <2>5, OrderedBack
<1>10. Explains(g)
  BY <1>2, <1>4, <1>7, <1>9, DirectoryAssumption, ExplainsBack
<1>11. Perform(g.label, call[t]) = [label |-> f.label, res |-> f.done[t]]
  BY <1>1, <1>5, <1>6, <1>7, TheCalls DEF CreatePCs, CreateLabel
<1> QED BY <1>2, <1>3, <1>7, <1>10, <1>11, TakesEffect

-----------------------------------------------------------------------------
\* The calls of s take effect one after the other, from e on.
LEMMA InOrder ==
  ASSUME TypeOK, explanations \subseteq Explanation, NEW f \in Explanation,
         NEW s \in Seq(Tasks), NEW labels \in [0..Len(s) -> Label],
         \A k \in 1..Len(s) :
            /\ call[s[k]] # NoCall
            /\ Perform(labels[k - 1], call[s[k]]) = [label |-> labels[k], res |-> f.done[s[k]]]
            /\ \A m \in 1..Len(s) : s[k] = s[m] => k = m,
         NEW e \in Reached, e.label = labels[0],
         \A u \in Tasks : e.done[u] = IF \E k \in 1..Len(s) : s[k] = u THEN NotYet ELSE f.done[u]
  PROVE  \E h \in Reached : h.label = labels[Len(s)] /\ \A u \in Tasks : h.done[u] = f.done[u]
<1> DEFINE Upto(n) == \E h \in Reached : /\ h.label = labels[n]
                                         /\ \A u \in Tasks : h.done[u] =
                                              IF \E k \in (n + 1)..Len(s) : s[k] = u THEN NotYet
                                                    ELSE f.done[u]
<1>1. Len(s) \in Nat /\ \A k \in 1..Len(s) : s[k] \in Tasks
  OBVIOUS
<1>2. Upto(0)
  <2>1. (0 + 1)..Len(s) = 1..Len(s)
    BY <1>1
  <2> QED BY <2>1
<1>3. ASSUME NEW n \in 1..Len(s), Upto(n - 1) PROVE Upto(n)
  <2>1. PICK h \in Reached : /\ h.label = labels[n - 1]
                             /\ \A u \in Tasks : h.done[u] =
                                   IF \E k \in n..Len(s) : s[k] = u THEN NotYet ELSE f.done[u]
    <3>1. (n - 1) + 1 = n
      BY <1>1
    <3> QED BY <1>3, <3>1
  <2>2. h \in Explanation
    BY ReachedType
  <2>3. n \in n..Len(s) /\ s[n] \in Tasks /\ call[s[n]] # NoCall
    <3>1. n \in n..Len(s) /\ s[n] \in Tasks
      BY <1>1
    <3>2. call[s[n]] # NoCall
      OBVIOUS
    <3> QED BY <3>1, <3>2
  <2>4. h.done[s[n]] = NotYet
    BY <2>1, <2>3
  <2> DEFINE x == TakeEffect(h, s[n])
  <2>5. x \in Reached
    BY <2>1, <2>3, <2>4, ReachedClosed
  <2>6. /\ x.label = Perform(h.label, call[s[n]]).label
        /\ x.done = [h.done EXCEPT ![s[n]] = Perform(h.label, call[s[n]]).res]
    BY <2>2, <2>3, <2>4, TakeEffectType, ZenonT(30)
  <2>7. Perform(h.label, call[s[n]]) = [label |-> labels[n], res |-> f.done[s[n]]]
    BY <2>1
  <2>8. x.label = labels[n] /\ x.done = [h.done EXCEPT ![s[n]] = f.done[s[n]]]
    BY <2>6, <2>7
  <2> HIDE DEF x
  <2>9. ASSUME NEW u \in Tasks
        PROVE  x.done[u] = IF \E k \in (n + 1)..Len(s) : s[k] = u THEN NotYet ELSE f.done[u]
    <3>1. x.done[u] = IF u = s[n] THEN f.done[u] ELSE h.done[u]
      BY <2>2, <2>8 DEF Explanation
    <3>2. n..Len(s) = {n} \cup (n + 1)..Len(s)
      BY <1>1
    <3>3. \A k \in (n + 1)..Len(s) : k \in 1..Len(s) /\ k # n
      BY <1>1
    <3>4. CASE u = s[n]
      <4>1. \A k \in (n + 1)..Len(s) : s[k] # u
        BY <3>3, <3>4
      <4> QED BY <3>1, <3>4, <4>1
    <3>5. CASE u # s[n]
      BY <2>1, <3>1, <3>2, <3>5
    <3> QED BY <3>4, <3>5
  <2> QED BY <2>5, <2>8, <2>9
<1>4. Upto(Len(s))
  <2> DEFINE T == {n \in 0..Len(s) : ~Upto(n)}
  <2> HIDE DEF Upto
  <2>1. T = {}
    <3> SUFFICES ASSUME T # {} PROVE FALSE
      OBVIOUS
    <3>1. T \in SUBSET Nat
      BY <1>1
    <3>2. PICK n \in T : \A k \in T : n <= k
      BY <3>1, LeastNat
    <3>3. n # 0 /\ n \in 0..Len(s)
      BY <1>2
    <3>4. n \in 1..Len(s) /\ n - 1 \in 0..Len(s) /\ ~(n <= n - 1)
      BY <1>1, <3>3
    <3>5. n - 1 \notin T
      <4> HIDE DEF T
      <4> QED BY <3>2, <3>4
    <3> QED BY <1>3, <3>2, <3>4, <3>5
  <2> QED BY <1>1, <2>1
<1>5. PICK h \in Reached : /\ h.label = labels[Len(s)]
                           /\ \A u \in Tasks : h.done[u] =
                                 IF \E k \in (Len(s) + 1)..Len(s) : s[k] = u THEN NotYet
                                       ELSE f.done[u]
  BY <1>4
<1>6. (Len(s) + 1)..Len(s) = {}
  BY <1>1
<1> QED BY <1>5, <1>6

\* delete_label unlinks the file: the calls that have it open and whose turn
\* came before take effect, in their order, then delete_label.
LEMMA UnlinkStep ==
  ASSUME MonitorInv, TypeOK', explanations' \subseteq Explanation, NEW t \in Tasks,
         NEW f, Explains(f)',
         pc[t] = "delete_unlink", NEW i \in Inodes, dir = i, dir' = NoInode, file' = file,
         Return(t, OkBool(TRUE)), explanations' = AfterReturn(t, OkBool(TRUE))
  PROVE  f \in Reached'
<1>1. IndInv /\ CallsFit /\ TypeOK /\ explanations \subseteq Explanation
  BY DEF MonitorInv, IndInv
<1>2. pc'[t] = "idle" /\ OthersStay(t)
  BY <1>1 DEF Return, OthersStay, TypeOK
<1>3. f \in Explanation /\ f.done[t] = NotYet
  BY <1>2, IdleNotYet
<1>4. f.label = NoLabel
  BY DEF Explains
<1>5. /\ ~Creating(t) /\ ~Creating(t)' /\ ~Updating(t) /\ ~Updating(t)'
      /\ \A j : ~Pending(t, j) /\ ~Pending(t, j)'
  BY <1>2 DEF Creating, Updating, Pending
<1>6. \A u \in Tasks \ {t} :
        /\ \A j : (Pending(u, j)' <=> Pending(u, j)) /\ call'[u] = call[u]
        /\ (Creating(u)' <=> Creating(u)) /\ (Updating(u)' <=> Updating(u))
        /\ NewLabel(u)' = NewLabel(u)
  BY <1>2 DEF OthersStay, Pending, Creating, Updating, NewLabel
<1>7. \A j : \A l : Holds(j, l)' => Holds(j, l)
  BY <1>2, <1>5, HoldsSame
<1>8. \A j \in Inodes : file[j] # Unused => \E s, labels : Ordered(j, f, s, labels)'
  BY DirectoryAssumption DEF Explains
<1>9. file[i] # Unused /\ i # NoInode
  BY <1>1, DirectoryAssumption DEF IndInv, FilesAreOpen
<1>10. PICK s, labels : Ordered(i, f, s, labels)'
  BY <1>8, <1>9
<1>11. /\ s \in Seq(Tasks) /\ labels \in [0..Len(s) -> Label]
       /\ Holds(i, labels[0])'
       /\ \A k \in 1..Len(s) :
            /\ Pending(s[k], i)'
            /\ Perform(labels[k - 1], call'[s[k]]) = [label |-> labels[k], res |-> f.done[s[k]]]
            /\ \A m \in 1..Len(s) : s[k] = s[m] => k = m
       /\ \A u \in Tasks : Pending(u, i)' /\ (\A k \in 1..Len(s) : s[k] # u) => f.done[u] = NotYet
  BY <1>10 DEF Ordered, Perform
<1>12. Len(s) \in Nat
       /\ \A k \in 1..Len(s) : s[k] \in Tasks \ {t} /\ Pending(s[k], i) /\ call'[s[k]] = call[s[k]]
  <2>1. Len(s) \in Nat /\ \A k \in 1..Len(s) : s[k] \in Tasks
    BY <1>11
  <2>2. ASSUME NEW k \in 1..Len(s) PROVE s[k] # t
    <3>1. Pending(s[k], i)'
      BY <1>11
    <3> QED BY <1>2, <3>1 DEF Pending
  <2> QED BY <1>6, <1>11, <2>1, <2>2
<1> DEFINE InS(u) == \E k \in 1..Len(s) : s[k] = u
           e == [label |-> labels[0],
                 done |-> [u \in Tasks |-> IF InS(u) THEN NotYet ELSE f.done[u]]]
<1>13. labels[0] \in Label /\ labels[Len(s)] \in Label
  BY <1>11, <1>12
<1>14. e \in Explanation /\ e.label = labels[0]
       /\ \A u \in Tasks : e.done[u] = IF InS(u) THEN NotYet ELSE f.done[u]
  <2> HIDE DEF InS
  <2>1. \A u \in Tasks : f.done[u] \in Result \cup {NotYet}
    BY <1>3 DEF Explanation
  <2> QED BY <1>13, <2>1 DEF Explanation, MaybeLabel
<1>15. \A u \in Tasks : InS(u) => Pending(u, i) /\ ino[u] = i
  BY <1>12 DEF Pending
<1>16. \A u \in Tasks : Pending(u, i) /\ ~InS(u) => f.done[u] = NotYet
  BY <1>5, <1>6, <1>11
<1> HIDE DEF e, InS
<1>17. ASSUME NEW u \in Tasks
       PROVE  /\ Creating(u) => e.done[u] = Ok(NewEmpty)
              /\ Updating(u) => e.done[u] = Ok(NewLabel(u))
              /\ ~Creating(u) /\ ~Updating(u) /\ (\A j \in Inodes \ {dir} : ~Pending(u, j))
                    => e.done[u] = NotYet
  <2>1. CASE u = t
    BY <1>3, <1>5, <1>14, <2>1
  <2>2. CASE u # t
    <3>1. /\ Creating(u) => f.done[u] = Ok(NewEmpty)
          /\ Updating(u) => f.done[u] = Ok(NewLabel(u))
          /\ ~Creating(u) /\ ~Updating(u) /\ (\A j \in Inodes : ~Pending(u, j))
                   => f.done[u] = NotYet
      <4>1. /\ Creating(u)' => f.done[u] = Ok(NewEmpty)
            /\ Updating(u)' => f.done[u] = Ok(NewLabel(u)')
            /\ ~Creating(u)' /\ ~Updating(u)' /\ (\A j \in Inodes \ {dir'} : ~Pending(u, j)')
                  => f.done[u] = NotYet
        BY DEF Explains, Ok, NewEmpty
      <4> QED BY <1>6, <2>2, <4>1
    <3>2. Creating(u) \/ Updating(u) => ~Pending(u, i)
      BY DEF Creating, Updating, Pending
    <3>3. (\A j \in Inodes \ {dir} : ~Pending(u, j)) /\ ~Pending(u, i)
                      => (\A j \in Inodes : ~Pending(u, j))
      OBVIOUS
    <3> QED BY <1>14, <1>15, <1>16, <3>1, <3>2, <3>3
  <2> QED BY <2>1, <2>2
<1>18. ASSUME NEW j \in Inodes \ {dir}, file[j] # Unused PROVE \E z, ls : Ordered(j, e, z, ls)
  <2>1. \A u \in Tasks : Pending(u, j) => ~InS(u)
    BY <1>15, <1>18 DEF Pending
  <2>2. \A u \in Tasks : Pending(u, j)'
                    => Pending(u, j) /\ call'[u] = call[u] /\ e.done[u] = f.done[u]
    BY <1>5, <1>6, <1>14, <2>1
  <2>3. \A u \in Tasks : Pending(u, j) /\ ~Pending(u, j)' => e.done[u] = NotYet
    BY <1>5, <1>6
  <2>4. \E z, ls : Ordered(j, f, z, ls)'
    BY <1>8, <1>18
  <2> QED BY <1>7, <2>2, <2>3, <2>4, OrderedBack
<1>19. Explains(e)
  <2>1. dir # NoInode /\ Holds(dir, e.label)
    BY <1>7, <1>9, <1>11, <1>14
  <2> QED BY <1>14, <1>17, <1>18, <2>1 DEF Explains
<1>20. e \in Reached
  BY <1>19 DEF MonitorInv, AllExplained, Reached
<1>21. \A k \in 1..Len(s) :
          /\ call[s[k]] # NoCall
          /\ Perform(labels[k - 1], call[s[k]]) = [label |-> labels[k], res |-> f.done[s[k]]]
          /\ \A m \in 1..Len(s) : s[k] = s[m] => k = m
  <2> SUFFICES ASSUME NEW k \in 1..Len(s) PROVE call[s[k]] # NoCall
    BY <1>11, <1>12
  <2>1. s[k] \in Tasks /\ pc[s[k]] # "idle"
    BY <1>12 DEF Pending
  <2> QED BY <1>1, <2>1, TheCalls
<1>22. PICK h \in Reached : h.label = labels[Len(s)] /\ \A u \in Tasks : h.done[u] = f.done[u]
  BY <1>1, <1>3, <1>11, <1>14, <1>20, <1>21, InOrder DEF InS
<1>23. h \in Explanation /\ h.label # NoLabel /\ h.done[t] = NotYet
  BY <1>1, <1>3, <1>13, <1>22, ReachedType, LabelsAssumption DEF Label
<1>24. call[t] # NoCall /\ Perform(h.label, call[t]) = [label |-> NoLabel, res |-> OkBool(TRUE)]
  BY <1>1, <1>23, TheCalls DEF DeleteLabel
<1> DEFINE x == TakeEffect(h, t)
<1>25. x \in Reached
  BY <1>1, <1>22, <1>23, <1>24, ReachedClosed
<1>26. x.label = NoLabel /\ x.done = [h.done EXCEPT ![t] = OkBool(TRUE)]
  <2>1. /\ x.label = Perform(h.label, call[t]).label
        /\ x.done = [h.done EXCEPT ![t] = Perform(h.label, call[t]).res]
    BY <1>1, <1>23, <1>24, TakeEffectType
  <2> QED BY <1>24, <2>1
<1> HIDE DEF x
<1>27. x.done[t] = OkBool(TRUE) /\ \A u \in Tasks \ {t} : f.done[u] = x.done[u]
  BY <1>22, <1>23, <1>26 DEF Explanation
<1>28. OkBool(TRUE) # InvalidData
  BY DEF OkBool, InvalidData
<1> QED BY <1>1, <1>3, <1>4, <1>25, <1>26, <1>27, <1>28, ReachedAfterReturn

-----------------------------------------------------------------------------
\* A call under way, or one that begins, goes on without effect.
LEMMA ContinueStep ==
  ASSUME MonitorInv, TypeOK', explanations' = explanations, NEW t \in Tasks, NEW f, Explains(f)',
         \A u \in Tasks : call[u] # NoCall => call'[u] = call[u],
         OthersStay(t), dir' = dir,
         Creating(t)' <=> Creating(t), Updating(t)' <=> Updating(t),
         Creating(t) \/ Updating(t) => ino'[t] = ino[t] /\ call'[t] = call[t],
         \A i \in Inodes \ {dir} : Pending(t, i)' => Pending(t, i) /\ call'[t] = call[t],
         \A i \in Inodes : file'[i] = file[i] \/ (ino[t] = i /\ (Creating(t) \/ Updating(t))),
         \A i \in Inodes : file[i] # Unused => file'[i] # Unused
  PROVE  f \in Reached'
<1>1. dir \in Inodes \cup {NoInode} /\ explanations \subseteq Explanation
  BY DEF MonitorInv, IndInv, TypeOK
<1>2. Explains(f)
  BY <1>1, DirectoryAssumption, Quiet
<1>3. f \in Reached
  BY <1>2 DEF MonitorInv, AllExplained, Reached
<1> QED BY <1>1, <1>3, ReachedKept

-----------------------------------------------------------------------------
(***************************************************************************)
(* The invariant, and the theorem.                                         *)
(***************************************************************************)

\* The beginning of a call keeps CallsFit.
LEMMA CallsFitStart == ASSUME IndInv, CallsFit, NEW t \in Tasks, Start(t) PROVE CallsFit'
<1> USE DEF CallsFit, CreatePCs, GetPCs, SetPCs
<1>t. pc \in [Tasks -> PCs] /\ call \in [Tasks -> Call \cup {NoCall}]
  BY DEF IndInv, TypeOK
<1>1. CASE CallCreate(t)
  BY <1>t, <1>1 DEF CallCreate, Begin
<1>2. CASE CallGet(t)
  BY <1>t, <1>2 DEF CallGet, Begin
<1>3. CASE CallDelete(t)
  BY <1>t, <1>3 DEF CallDelete, Begin
<1>4. ASSUME NEW layer \in Layers \cup {NoLayer}, CallSet(t, layer) PROVE CallsFit'
  BY <1>t, <1>4 DEF CallSet, Begin
<1> QED BY <1>1, <1>2, <1>3, <1>4 DEF Start

\* The steps of a call keep CallsFit.
LEMMA CallsFitStep == ASSUME IndInv, CallsFit, NEW t \in Tasks, Step(t) PROVE CallsFit'
<1> USE DEF CallsFit, CreatePCs, GetPCs, SetPCs
<1>t. pc \in [Tasks -> PCs] /\ call \in [Tasks -> Call \cup {NoCall}]
  BY DEF IndInv, TypeOK
<1>1. ASSUME NEW res, Return(t, res) PROVE CallsFit'
  BY <1>t, <1>1 DEF Return, NoCall
<1>2. ASSUME NEW next, GoTo(t, next),
             \/ pc[t] \in CreatePCs /\ next \in CreatePCs
             \/ pc[t] \in GetPCs /\ next \in GetPCs
             \/ pc[t] \in SetPCs /\ next \in SetPCs
      PROVE  CallsFit'
  BY <1>t, <1>2 DEF GoTo
<1> QED
  BY <1>1, <1>2
  DEF Step, CreateStat, CreateOpen, CreateLock, CreateWrite, CreateSync, GetOpen, GetLock, GetRead,
      SetOpen, SetLock, SetRead, SetTruncate, SetWrite, SetSync, DeleteUnlink

-----------------------------------------------------------------------------
\* The beginning of a call: it has no effect yet.
LEMMA StartExplained ==
  ASSUME MonitorInv, IndInv', NEW t \in Tasks, Start(t), explanations' = explanations,
         NEW f, Explains(f)'
  PROVE  f \in Reached'
<1>1. TypeOK /\ TypeOK' /\ CallsFit
  BY DEF MonitorInv, IndInv
<1>2. /\ pc[t] = "idle" /\ pc'[t] \in {"create_stat", "get_open", "set_open", "delete_unlink"}
      /\ OthersStay(t) /\ dir' = dir /\ file' = file
  BY <1>1 DEF Start, CallCreate, CallGet, CallDelete, CallSet, Begin, OthersStay, TypeOK
<1>3. \A u \in Tasks : call[u] # NoCall => call'[u] = call[u]
  BY <1>1, <1>2 DEF CallsFit, OthersStay
<1>4. /\ ~Creating(t) /\ ~Creating(t)' /\ ~Updating(t) /\ ~Updating(t)' /\ \A i : ~Pending(t, i)'
  BY <1>2 DEF Creating, Updating, Pending
<1> QED BY <1>1, <1>2, <1>3, <1>4, ContinueStep

\* The steps that end a call.
LEMMA ReturnExplained ==
  ASSUME MonitorInv, IndInv', explanations' \subseteq Explanation, NEW t \in Tasks, Step(t),
         pc'[t] = "idle", explanations' = AfterReturn(t, ret'[t]), NEW f, Explains(f)'
  PROVE  f \in Reached'
<1>1. TypeOK /\ TypeOK' /\ IndInv
  BY DEF MonitorInv, IndInv
<1>2. \A res : Return(t, res) => ret'[t] = res
  BY <1>1 DEF Return, TypeOK
<1>g. \A next : GoTo(t, next) => pc'[t] = next
  BY <1>1 DEF GoTo, TypeOK
<1>3. CASE CreateStat(t)
  BY <1>1, <1>2, <1>3, <1>g, RefusedStep DEF CreateStat
<1>4. CASE CreateOpen(t)
  BY <1>1, <1>2, <1>4, <1>g, RefusedStep DEF CreateOpen
<1>5. CASE CreateSync(t)
  BY <1>1, <1>2, <1>5, SyncStep DEF CreateSync
<1>6. CASE GetOpen(t)
  BY <1>1, <1>2, <1>6, <1>g, RefusedStep DEF GetOpen
<1>7. CASE GetRead(t)
  <2>1. CASE file[ino[t]] = Empty
    <3>1. Return(t, InvalidData) /\ file' = file /\ dir' = dir /\ pc[t] = "get_read"
      BY <1>7, <2>1 DEF GetRead
    <3>2. Explains(f)
      BY <1>1, <3>1, QuietReturn DEF Creating, Updating
    <3> QED BY <1>1, <1>2, <3>1, <3>2, ReturnsInvalid
  <2>2. CASE file[ino[t]] # Empty
    <3>1. Return(t, Ok(file[ino[t]])) /\ file' = file /\ dir' = dir /\ pc[t] = "get_read"
      BY <1>7, <2>2 DEF GetRead
    <3> QED BY <1>1, <1>2, <2>2, <3>1, ReadStep
  <2> QED BY <2>1, <2>2
<1>8. CASE SetOpen(t)
  BY <1>1, <1>2, <1>8, <1>g, RefusedStep DEF SetOpen
<1>9. CASE SetRead(t)
  <2>1. file' = file /\ dir' = dir /\ pc[t] = "set_read"
    BY <1>9 DEF SetRead
  <2>2. CASE file[ino[t]] = Empty
    <3>1. Return(t, InvalidData)
      BY <1>9, <2>2 DEF SetRead
    <3>2. Explains(f)
      BY <1>1, <2>1, <3>1, QuietReturn DEF Creating, Updating
    <3> QED BY <1>1, <1>2, <3>1, <3>2, ReturnsInvalid
  <2>3. CASE file[ino[t]] # Empty
    <3>1. ~SameLabel(file[ino[t]], call[t].label) /\ Return(t, Ok(NoLabel))
      BY <1>9, <1>g, <2>3 DEF SetRead
    <3> QED BY <1>1, <1>2, <2>1, <2>3, <3>1, ReadStep
  <2> QED BY <2>2, <2>3
<1>10. CASE SetSync(t)
  BY <1>1, <1>2, <1>10, SyncStep DEF SetSync
<1>11. CASE DeleteUnlink(t)
  <2>1. /\ pc[t] = "delete_unlink" /\ dir' = NoInode /\ file' = file
        /\ Return(t, OkBool(dir # NoInode)) /\ explanations' = AfterReturn(t, OkBool(dir # NoInode))
    BY <1>2, <1>11 DEF DeleteUnlink
  <2>2. CASE dir = NoInode
    <3>1. OkBool(dir # NoInode) = OkBool(FALSE)
      BY <2>2 DEF OkBool
    <3> QED BY <1>1, <2>1, <2>2, <3>1, RefusedStep
  <2>3. CASE dir # NoInode
    <3>1. OkBool(dir # NoInode) = OkBool(TRUE)
      BY <2>3 DEF OkBool
    <3>2. PICK i \in Inodes : dir = i
      BY <1>1, <2>3 DEF TypeOK
    <3> QED BY <1>1, <2>1, <3>1, <3>2, UnlinkStep
  <2> QED BY <2>2, <2>3
<1>12. CASE CreateLock(t) \/ CreateWrite(t) \/ GetLock(t) \/ SetLock(t) \/ SetTruncate(t)
             \/ SetWrite(t)
  BY <1>12, <1>g DEF CreateLock, CreateWrite, GetLock, SetLock, SetTruncate, SetWrite
<1> QED
  BY <1>3, <1>4, <1>5, <1>6, <1>7, <1>8, <1>9, <1>10, <1>11, <1>12 DEF Step

\* The steps in which a call goes on.
LEMMA GoOnExplained ==
  ASSUME MonitorInv, IndInv', NEW t \in Tasks, Step(t), pc'[t] # "idle",
         explanations' = explanations, NEW f, Explains(f)'
  PROVE  f \in Reached'
<1>1. TypeOK /\ TypeOK' /\ IndInv /\ CallsFit
  BY DEF MonitorInv, IndInv
<1>2. \A res : ~Return(t, res)
  BY <1>1 DEF Return, TypeOK
<1>g. \A next : GoTo(t, next) => pc'[t] = next /\ call' = call
  BY <1>1 DEF GoTo, TypeOK
<1>o. \A next : GoTo(t, next) /\ (ino' = ino \/ \E i : ino' = [ino EXCEPT ![t] = i]) =>
         OthersStay(t)
  BY <1>1 DEF GoTo, TypeOK, OthersStay
<1>3. CASE CreateOpen(t)
  BY <1>1, <1>2, <1>3, CreateStep DEF CreateOpen, Store
<1>4. CASE SetRead(t)
  BY <1>1, <1>2, <1>4, CompareStep DEF SetRead
<1>5. CASE CreateStat(t)
  <2>1. GoTo(t, "create_open") /\ ino' = ino /\ dir' = dir /\ file' = file /\ pc[t] = "create_stat"
    BY <1>2, <1>5 DEF CreateStat
  <2>2. OthersStay(t) /\ pc'[t] = "create_open" /\ call' = call
    BY <1>g, <1>o, <2>1
  <2>3. ~Creating(t) /\ ~Creating(t)' /\ ~Updating(t) /\ ~Updating(t)' /\ \A i : ~Pending(t, i)'
    BY <2>1, <2>2 DEF Creating, Updating, Pending
  <2> QED BY <1>1, <2>1, <2>2, <2>3, ContinueStep
<1>6. CASE GetOpen(t) \/ SetOpen(t)
  <2>1. /\ dir' = dir /\ file' = file /\ ino' = [ino EXCEPT ![t] = dir]
        /\ \/ pc[t] = "get_open" /\ GoTo(t, "get_lock")
           \/ pc[t] = "set_open" /\ GoTo(t, "set_lock")
    BY <1>2, <1>6 DEF GetOpen, SetOpen
  <2>2. OthersStay(t) /\ pc'[t] \in {"get_lock", "set_lock"} /\ call' = call /\ ino'[t] = dir
    BY <1>1, <1>g, <1>o, <2>1 DEF TypeOK
  <2>3. /\ ~Creating(t) /\ ~Creating(t)' /\ ~Updating(t) /\ ~Updating(t)'
        /\ \A i \in Inodes \ {dir} : ~Pending(t, i)'
    BY <2>1, <2>2 DEF Creating, Updating, Pending
  <2> QED BY <1>1, <2>1, <2>2, <2>3, ContinueStep
<1>7. CASE CreateLock(t) \/ GetLock(t) \/ SetLock(t)
  <2>1. /\ dir' = dir /\ file' = file /\ ino' = ino
        /\ \/ pc[t] = "create_lock" /\ GoTo(t, "create_write")
           \/ pc[t] = "get_lock" /\ GoTo(t, "get_read")
           \/ pc[t] = "set_lock" /\ GoTo(t, "set_read")
    BY <1>7 DEF CreateLock, GetLock, SetLock
  <2>2. OthersStay(t) /\ call' = call
    BY <1>g, <1>o, <2>1
  <2>3. /\ (Creating(t)' <=> Creating(t)) /\ (Updating(t)' <=> Updating(t))
        /\ \A i : Pending(t, i)' <=> Pending(t, i)
    BY <1>g, <2>1 DEF Creating, Updating, Pending
  <2> QED BY <1>1, <2>1, <2>2, <2>3, ContinueStep
<1>8. CASE CreateWrite(t) \/ SetTruncate(t) \/ SetWrite(t)
  <2>1. PICK c \in Contents :
          /\ dir' = dir /\ ino' = ino /\ file' = [file EXCEPT ![ino[t]] = c]
          /\ \/ pc[t] = "create_write" /\ GoTo(t, "create_sync")
             \/ pc[t] = "set_truncate" /\ GoTo(t, "set_write")
             \/ pc[t] = "set_write" /\ GoTo(t, "set_sync")
    <3>1. NewEmpty \in Contents /\ Empty \in Contents
      BY DEF NewEmpty, Label, Contents
    <3>2. pc[t] = "set_write" => NewLabel(t) \in Contents
      BY <1>1, TheCalls DEF SetPCs, Contents
    <3> QED BY <1>8, <3>1, <3>2 DEF CreateWrite, SetTruncate, SetWrite, Store
  <2>2. OthersStay(t) /\ call' = call
    BY <1>g, <1>o, <2>1
  <2>3. /\ (Creating(t)' <=> Creating(t)) /\ (Updating(t)' <=> Updating(t))
        /\ Creating(t) \/ Updating(t)
        /\ \A i : ~Pending(t, i)'
    BY <1>g, <2>1 DEF Creating, Updating, Pending
  <2>4. c # Unused
    BY DirectoryAssumption DEF Contents
  <2>5. /\ \A i \in Inodes : file'[i] = file[i] \/ ino[t] = i
        /\ \A i \in Inodes : file[i] # Unused => file'[i] # Unused
    BY <1>1, <2>1, <2>4 DEF TypeOK
  <2> QED BY <1>1, <2>1, <2>2, <2>3, <2>5, ContinueStep
<1>9. CASE CreateSync(t) \/ GetRead(t) \/ SetSync(t) \/ DeleteUnlink(t)
  BY <1>2, <1>9 DEF CreateSync, GetRead, SetSync, DeleteUnlink
<1> QED
  BY <1>3, <1>4, <1>5, <1>6, <1>7, <1>8, <1>9 DEF Step

\* There is one explanation of the initial state, and the monitor starts with it.
LEMMA MonitorInitInv == MonitorInit => MonitorInv
<1> SUFFICES ASSUME MonitorInit PROVE MonitorInv
  OBVIOUS
<1> DEFINE e0 == [label |-> NoLabel, done |-> [t \in Tasks |-> NotYet]]
<1>1. IndInv /\ explanations = {e0} /\ Init
  BY InitInv DEF MonitorInit
<1>2. CallsFit
  BY <1>1 DEF Init, CallsFit, CreatePCs, GetPCs, SetPCs
<1>3. e0 \in Explanation
  BY DEF Explanation, MaybeLabel
<1>4. e0.label = NoLabel /\ \A t \in Tasks : e0.done[t] = NotYet
  OBVIOUS
<1> HIDE DEF e0
<1>5. ASSUME NEW e, Explains(e) PROVE e \in Reached
  <2>1. e \in Explanation /\ e.label = NoLabel
    BY <1>1, <1>5 DEF Explains, Init
  <2>2. \A t \in Tasks : e.done[t] = NotYet
    BY <1>1, <1>5 DEF Explains, Init, Creating, Updating, Pending
  <2>3. e = e0
    BY <1>3, <1>4, <2>1, <2>2, ExplanationEq
  <2> QED BY <1>1, <1>3, <2>3, ReachedClosed DEF IndInv
<1> QED BY <1>1, <1>2, <1>3, <1>5 DEF MonitorInv, AllExplained, Reached

\* A step that changes nothing.
LEMMA Stutters ==
  ASSUME MonitorInv, IndInv', UNCHANGED <<vars, explanations>>, NEW f, Explains(f)'
  PROVE  f \in Reached'
<1>1. /\ dir' = dir /\ file' = file /\ pc' = pc /\ call' = call /\ ino' = ino
         /\ explanations' = explanations
  BY DEF vars
<1>2. TypeOK' /\ explanations \subseteq Explanation
  BY DEF MonitorInv, IndInv
<1>3. Explains(f)
  <2>1. f \in Explanation
    BY DEF Explains, Explanation, Result, MaybeLabel, Label, NotYet
  <2>2. \A i, l : Holds(i, l)' => Holds(i, l)
    BY <1>1 DEF Holds, Creating, Updating, NewLabel
  <2>3. \A t \in Tasks : \A i : Pending(t, i)' <=> Pending(t, i)
    BY <1>1 DEF Pending
  <2>4. \A t \in Tasks : (Creating(t)' <=> Creating(t)) /\ (Updating(t)' <=> Updating(t))
                 /\ NewLabel(t)' = NewLabel(t)
    BY <1>1 DEF Creating, Updating, NewLabel
  <2>5. ASSUME NEW i \in Inodes \ {dir}, file[i] # Unused
        PROVE  \E s, labels : Ordered(i, f, s, labels)
    <3>1. \E s, labels : Ordered(i, f, s, labels)'
      BY <1>1, <2>5 DEF Explains
    <3> QED BY <1>1, <2>2, <2>3, <3>1, OrderedBack
  <2>6. IF dir = NoInode THEN f.label = NoLabel ELSE Holds(dir, f.label)
    <3>1. IF dir' = NoInode THEN f.label = NoLabel ELSE Holds(dir, f.label)'
      BY DEF Explains
    <3> QED BY <1>1, <2>2, <3>1
  <2>7. ASSUME NEW t \in Tasks
        PROVE  /\ Creating(t) => f.done[t] = Ok(NewEmpty)
               /\ Updating(t) => f.done[t] = Ok(NewLabel(t))
               /\ ~Creating(t) /\ ~Updating(t) /\ (\A i \in Inodes \ {dir} : ~Pending(t, i))
                     => f.done[t] = NotYet
    <3>1. /\ Creating(t)' => f.done[t] = Ok(NewEmpty)
          /\ Updating(t)' => f.done[t] = Ok(NewLabel(t)')
          /\ ~Creating(t)' /\ ~Updating(t)' /\ (\A i \in Inodes \ {dir'} : ~Pending(t, i)')
                => f.done[t] = NotYet
      BY DEF Explains, Ok, NewEmpty
    <3> QED BY <1>1, <2>3, <2>4, <3>1
  <2> QED BY <2>1, <2>5, <2>6, <2>7 DEF Explains
<1>4. f \in Reached
  BY <1>3 DEF MonitorInv, AllExplained, Reached
<1> QED BY <1>1, <1>2, <1>4, ReachedKept

\* Every step keeps the invariant.
LEMMA MonitorNextInv == MonitorInv /\ [MonitorNext]_<<vars, explanations>> => MonitorInv'
<1> SUFFICES ASSUME MonitorInv, [MonitorNext]_<<vars, explanations>> PROVE MonitorInv'
  OBVIOUS
<1>1. IndInv /\ CallsFit /\ TypeOK /\ explanations \subseteq Explanation
  BY DEF MonitorInv, IndInv
<1>2. IndInv'
  <2>1. CASE UNCHANGED <<vars, explanations>>
    BY <1>1, <2>1, NextInv
  <2> QED BY <1>1, <2>1, StartInv, StepInv DEF MonitorNext, MonitorStart, MonitorStep
<1>3. CallsFit'
  <2>1. CASE UNCHANGED <<vars, explanations>>
    BY <1>1, <2>1 DEF vars, CallsFit
  <2> QED BY <1>1, <2>1, CallsFitStart, CallsFitStep DEF MonitorNext, MonitorStart, MonitorStep
<1>4. explanations' \subseteq Explanation
  BY <1>1, ReturnType DEF MonitorNext, MonitorStart, MonitorStep
<1>5. ASSUME NEW f, Explains(f)' PROVE f \in Reached'
  <2>1. CASE UNCHANGED <<vars, explanations>>
    BY <1>2, <1>5, <2>1, Stutters
  <2>2. ASSUME NEW t \in Tasks, MonitorStart(t) PROVE f \in Reached'
    BY <1>2, <1>5, <2>2, StartExplained DEF MonitorStart
  <2>3. ASSUME NEW t \in Tasks, MonitorStep(t) PROVE f \in Reached'
    <3>1. CASE pc'[t] = "idle"
      BY <1>2, <1>4, <1>5, <2>3, <3>1, ReturnExplained DEF MonitorStep
    <3>2. CASE pc'[t] # "idle"
      BY <1>2, <1>5, <2>3, <3>2, GoOnExplained DEF MonitorStep
    <3> QED BY <3>1, <3>2
  <2> QED BY <2>1, <2>2, <2>3 DEF MonitorNext
<1>6. AllExplained'
  BY <1>5 DEF AllExplained, Reached
<1>7. (explanations \subseteq Explanation)'
  <2>1. Explanation' = Explanation
    BY DEF Explanation, MaybeLabel, Label, Result, NotYet
  <2> QED BY <1>4, <2>1
<1> QED BY <1>2, <1>3, <1>6, <1>7 DEF MonitorInv

-----------------------------------------------------------------------------
\* Without crashes every file holds a label.
LEMMA HoldsOne ==
  ASSUME ~Crashes, IndInv, CallsFit, NEW i \in Inodes, file[i] # Unused
  PROVE  \E l \in Label : Holds(i, l)
<1>1. NewEmpty \in Label
  BY DEF NewEmpty, Label
<1>2. ASSUME NEW t \in Tasks, ino[t] = i, Creating(t) PROVE Holds(i, NewEmpty)
  <2>1. \A u \in Tasks : ino[u] = i => ~Updating(u)
    BY <1>2 DEF IndInv, CreatorsAreAlone, Creating, Updating
  <2> QED BY <1>2, <2>1 DEF Holds
<1>3. ASSUME NEW t \in Tasks, ino[t] = i, Updating(t)
      PROVE  NewLabel(t) \in Label /\ Holds(i, NewLabel(t))
  <2>1. \A u \in Tasks : ino[u] = i => ~Creating(u) /\ (Updating(u) => u = t)
    BY <1>3 DEF IndInv, CreatorsAreAlone, LocksExclude, Exclusive, Creating, Updating
  <2>2. NewLabel(t) \in Label
    BY <1>3, TheCalls DEF Updating, SetPCs
  <2> QED BY <1>3, <2>1, <2>2 DEF Holds
<1>4. ASSUME \A t \in Tasks : ino[t] = i => ~Creating(t) /\ ~Updating(t)
      PROVE  file[i] \in Label /\ Holds(i, file[i])
  <2>1. file[i] # Empty
    BY <1>4 DEF IndInv, EmptyHasWriter, Creating, Updating
  <2>2. file[i] \in Label
    BY <2>1 DEF IndInv, TypeOK, Contents
  <2> QED BY <1>4, <2>2 DEF Holds
<1> QED BY <1>1, <1>2, <1>3, <1>4

\* There is an explanation of any state: no call on an unlinked file has taken
\* effect yet.
LEMMA SomethingExplains == ASSUME ~Crashes, IndInv, CallsFit PROVE \E e : Explains(e)
<1> DEFINE Cur(i) == CHOOSE l \in Label : Holds(i, l)
           d == [t \in Tasks |-> IF Creating(t) THEN Ok(NewEmpty)
                                 ELSE IF Updating(t) THEN Ok(NewLabel(t)) ELSE NotYet]
           lab == IF dir = NoInode THEN NoLabel ELSE Cur(dir)
           e == [label |-> lab, done |-> d]
<1>1. ASSUME NEW i \in Inodes, file[i] # Unused PROVE Cur(i) \in Label /\ Holds(i, Cur(i))
  BY <1>1, HoldsOne
<1>2. dir # NoInode => dir \in Inodes /\ file[dir] # Unused
  BY DEF IndInv, TypeOK, FilesAreOpen
<1> HIDE DEF Cur
<1>3. lab \in MaybeLabel
  BY <1>1, <1>2 DEF MaybeLabel
<1>4. d \in [Tasks -> Result \cup {NotYet}]
  <2>1. NewEmpty \in MaybeLabel
    BY DEF NewEmpty, MaybeLabel, Label
  <2>2. \A t \in Tasks : Updating(t) => NewLabel(t) \in MaybeLabel
    BY TheCalls DEF Updating, SetPCs
  <2> QED BY <2>1, <2>2, Results
<1>5. \A t \in Tasks : d[t] = IF Creating(t) THEN Ok(NewEmpty)
                              ELSE IF Updating(t) THEN Ok(NewLabel(t)) ELSE NotYet
  OBVIOUS
<1>6. \A t \in Tasks : ~(Creating(t) /\ Updating(t))
               /\ \A i : Pending(t, i) => ~Creating(t) /\ ~Updating(t)
  BY DEF Creating, Updating, Pending
<1> HIDE DEF d
<1>7. e \in Explanation /\ e.label = lab /\ e.done = d
  <2> HIDE DEF lab
  <2> QED BY <1>3, <1>4 DEF Explanation
<1>8. ASSUME NEW i \in Inodes \ {dir}, file[i] # Unused
      PROVE  \E s, labels : Ordered(i, e, s, labels)
  <2> DEFINE ls == [k \in 0..0 |-> Cur(i)]
  <2>1. ls[0] = Cur(i) /\ ls \in [0..0 -> Label] /\ Cur(i) \in Label /\ Holds(i, Cur(i))
    BY <1>1, <1>8
  <2>2. << >> \in Seq(Tasks) /\ Len(<< >>) = 0 /\ 1..0 = {}
    OBVIOUS
  <2> HIDE DEF ls, e
  <2>3. Ordered(i, e, << >>, ls)
    BY <1>5, <1>6, <1>7, <2>1, <2>2 DEF Ordered
  <2> QED BY <2>3
<1>9. IF dir = NoInode THEN e.label = NoLabel ELSE Holds(dir, e.label)
  BY <1>1, <1>2, <1>7
<1> HIDE DEF e, lab
<1>10. Explains(e)
  BY <1>5, <1>6, <1>7, <1>8, <1>9 DEF Explains
<1> QED BY <1>10

\* DirectoryLabelStore is linearizable without crashes: whatever the tasks call
\* and however their file operations interleave, unlocked delete_label included,
\* the results they get are those of a sequential order of the calls in which each
\* call takes effect between its invocation and its return; a call that returns
\* InvalidData has no effect.
THEOREM LabelStoreIsLinearizable ==
  ASSUME ~Crashes
  PROVE  MonitorSpec => []Linearizable
<1>1. MonitorInv => Linearizable
  <2> SUFFICES ASSUME MonitorInv, explanations = {} PROVE FALSE
    BY DEF Linearizable
  <2>1. Reached \subseteq {}
    BY ReachedLeast
  <2>2. \E e : e \in Reached
    BY SomethingExplains DEF MonitorInv, AllExplained, Reached
  <2> QED BY <2>1, <2>2
<1> QED BY <1>1, MonitorInitInv, MonitorNextInv, PTL DEF MonitorSpec
=============================================================================
