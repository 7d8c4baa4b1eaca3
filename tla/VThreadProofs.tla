----------------------------- MODULE VThreadProofs -----------------------------
(* Proofs about VThread, second part: forks and disables keep the inductive     *)
(* invariant of VThreadInvariant; so the threads and their parents agree, no    *)
(* thread is forgotten, no assertion of the code fails, a %join waits and a     *)
(* %disable stops what it should, for the programs that keep away from what the *)
(* findings show to go wrong.                                                   *)
EXTENDS VThreadInvariant

--------------------------------------------------------------------------------
(* Threads that are forked: S are the new threads                               *)

(* What a new thread is *)
IsNew(y, scope) ==
    /\ y.live /\ y.scope = scope /\ y.parent = self /\ y.children = {} /\ y.detached = {}
    /\ y.taskFunc = {} /\ ~y.joining /\ ~y.isDetached /\ ~y.waiting /\ ~y.ended /\ ~y.onEvent
    /\ (y.scheduled <=> scope \notin Functions) /\ y.pc = <<>>

(* What becomes of the thread that forks *)
HasForked(x, y, S, scope, pc) ==
    /\ y.live /\ y.scope = x.scope /\ (y.inScope <=> x.inScope) /\ y.parent = x.parent
    /\ y.children = S /\ y.detached = x.detached
    /\ y.taskFunc = (IF scope \in Tasks \cup Functions THEN S ELSE {})
    /\ ~y.joining /\ (y.isDetached <=> x.isDetached) /\ ~y.waiting /\ ~y.scheduled /\ ~y.ended
    /\ ~y.onEvent /\ y.pc = pc

Forks(T, T2, S, scope, pc) ==
    /\ T \in Table /\ T2 \in Table /\ S \subseteq Thread /\ self \in Thread \ S
    /\ \A t \in S : T[t] = Deleted /\ IsNew(T2[t], scope)
    /\ Ready(T[self]) /\ HasForked(T[self], T2[self], S, scope, pc)
    /\ \A t \in Thread \ (S \cup {self}) : T2[t] = T[t]

(* The statements whose opcodes fit the threads they fork *)
ForkFits(x, S, scope, pc) ==
    /\ pc \in PcShapes /\ pc # Null
    /\ Detaches(pc) => Detaching /\ Joins(pc) < Cardinality(S) /\ scope \notin Tasks \cup Functions
    /\ ~Detaches(pc) => Joins(pc) = Cardinality(S)
    /\ Joins(pc) > 0 => x.detached = {}
    /\ InFunction(x.scope) => InFunction(scope)

(* What of_FORK does to the threads *)
LEMMA ForkedThreads ==
    ASSUME NEW r \in State, NEW n \in Nat, NEW cs \in [1..n -> Thread], NEW scope \in Scope,
           NEW pc \in Seq(Opcodes), self \in Thread, Ready(r.thread[self]),
           \A t \in ToSet(cs) : r.thread[t] = Deleted, NEW s, IsForked(r, cs, scope, pc, s)
    PROVE  Forks(r.thread, s.thread, ToSet(cs), scope, pc)
<1> DEFINE T == r.thread
           S == ToSet(cs)
           B == Born(r, cs, scope)
           x == T[self]
           w == Parented(x, cs, scope, pc)
           v == [NewThread(scope, self) EXCEPT !.scheduled = scope \notin Functions]
<1>1. T \in Table /\ s.thread \in Table /\ x \in ThreadRecord
  BY ThreadsOf DEF Table, IsForked
<1>2. S \subseteq Thread
  BY DEF ToSet
<1>3. self \notin S
  BY DeletedTyped DEF Ready, Going
<1>4. cs \in Seq(Thread)
  OBVIOUS
<1>5. \A t \in Thread : B[t] = IF t \in S THEN v ELSE T[t]
  BY <1>4 DEF Born, Contains, ToSet
<1>6. s.thread = [B EXCEPT ![self] = Parented(B[self], cs, scope, pc)] /\ DOMAIN B = Thread
  BY DEF IsForked, Born
<1>7. IsNew(v, scope)
  <2>1. self \in Thread \cup {Nobody}
    OBVIOUS
  <2>2. NewThread(scope, self) \in ThreadRecord
    BY <2>1, NewTyped, Zenon
  <2>3. v \in ThreadRecord
    BY <2>2, FlagTyped DEF NewThread
  <2> QED
    BY <2>3 DEF NewThread, IsNew
<1> HIDE DEF v, B, S
<1>8. B[self] = x
  BY <1>3, <1>5
<1>9. s.thread[self] = w /\ \A t \in Thread \ {self} : s.thread[t] = B[t]
  BY <1>6, <1>8
<1>10. HasForked(x, w, S, scope, pc)
  <2>1. /\ x.children = {} /\ x.taskFunc = {} /\ x.live /\ ~x.ended /\ ~x.joining /\ ~x.waiting
        /\ ~x.scheduled /\ ~x.onEvent
    BY DEF Ready, Going
  <2>2. {} \cup S = S
    OBVIOUS
  <2> HIDE DEF x
  <2> QED
    BY <1>1, <2>1, <2>2 DEF HasForked, Parented, ThreadRecord, S
<1>11. \A t \in S : T[t] = Deleted /\ IsNew(s.thread[t], scope)
  BY <1>2, <1>3, <1>5, <1>7, <1>9 DEF S
<1>12. \A t \in Thread \ (S \cup {self}) : s.thread[t] = T[t]
  BY <1>5, <1>9
<1> QED
  BY <1>1, <1>2, <1>3, <1>9, <1>10, <1>11, <1>12 DEF Forks, S

(* The tree grows as it should. *)
LEMMA ForksWhole ==
    ASSUME NEW T, NEW T2, NEW S, NEW scope, NEW pc, Forks(T, T2, S, scope, pc), Whole(T),
           ForkFits(T[self], S, scope, pc)
    PROVE  Whole(T2)
<1>1. /\ Fields(T) /\ Tree(T) /\ Rooted(T) /\ Families(T) /\ T \in Table /\ T2 \in Table
      /\ S \subseteq Thread /\ self \in Thread /\ self \notin S
      /\ HasForked(T[self], T2[self], S, scope, pc) /\ Ready(T[self])
  BY DEF Whole, Forks
<1>2. \A t \in S : ~T[t].live /\ T[t].parent = Nobody /\ T[t].children = {} /\ T[t].detached = {}
  BY DeletedTyped DEF Forks
<1>3. \A t \in S : IsNew(T2[t], scope)
  BY DEF Forks
<1>4. \A t \in Thread : t \notin S /\ t # self => T2[t] = T[t]
  BY DEF Forks
(* what stays of the old threads *)
<1>5. \A t \in Thread \ S :
          /\ T2[t].live = T[t].live /\ T2[t].ended = T[t].ended /\ T2[t].scope = T[t].scope
          /\ T2[t].parent = T[t].parent /\ (T2[t].isDetached <=> T[t].isDetached)
          /\ T2[t].detached = T[t].detached
          /\ T[t].children \subseteq T2[t].children /\ (t # self => T2[t].children = T[t].children)
  <2> SUFFICES ASSUME NEW t \in Thread \ S
               PROVE  /\ T2[t].live = T[t].live /\ T2[t].ended = T[t].ended /\ T2[t].scope = T[t].scope
                      /\ T2[t].parent = T[t].parent /\ (T2[t].isDetached <=> T[t].isDetached)
                      /\ T2[t].detached = T[t].detached
                      /\ T[t].children \subseteq T2[t].children
                      /\ (t # self => T2[t].children = T[t].children)
    OBVIOUS
  <2>1. CASE t = self
    <3>1. T[t].live \in BOOLEAN /\ T2[t].live \in BOOLEAN /\ T[t].ended \in BOOLEAN /\ T2[t].ended \in BOOLEAN
      BY <1>1, Record
    <3> QED
      BY <1>1, <2>1, <3>1 DEF HasForked, Ready, Going
  <2>2. CASE t # self
    BY <1>4, <2>2
  <2> QED
    BY <2>1, <2>2
<1>6. Fields(T2)
  <2> SUFFICES ASSUME NEW t \in Thread PROVE FieldsOf(T2[t])
    BY DEF Fields
  <2>1. CASE t \in S
    <3>1. <<>> \in PcShapes /\ <<>> # Null /\ ~Detaches(<<>>)
      BY Shapes DEF PcShapes
    <3> QED
      BY <1>3, <2>1, <3>1 DEF IsNew, FieldsOf
  <2>2. CASE t = self
    <3>1. FieldsOf(T[self])
      BY <1>1 DEF Fields
    <3> QED
      BY <1>1, <2>2, <3>1 DEF HasForked, FieldsOf, ForkFits, Ready, Going
  <2>3. CASE t \notin S /\ t # self
    BY <1>1, <1>4, <2>3 DEF Fields
  <2> QED
    BY <2>1, <2>2, <2>3
<1>7. \A t \in Thread \ S : T[t].parent # Nobody => T[t].parent \in Thread \ S
  <2> SUFFICES ASSUME NEW t \in Thread \ S, T[t].parent # Nobody PROVE T[t].parent \in Thread \ S
    OBVIOUS
  <2> QED
    BY <1>1, <1>2, ParentIs DEF Going
<1>8. Tree(T2)
  <2>1. ASSUME NEW t \in Thread, T2[t].parent # Nobody
        PROVE  /\ Going(T2[T2[t].parent])
               /\ t \in IF T2[t].isDetached THEN T2[T2[t].parent].detached ELSE T2[T2[t].parent].children
    <3>1. CASE t \in S
      BY <1>1, <1>3, <3>1 DEF IsNew, HasForked, Going
    <3>2. CASE t \notin S
      <4> DEFINE p == T[t].parent
      <4>1. T2[t].parent = p /\ (T2[t].isDetached <=> T[t].isDetached) /\ p # Nobody
        BY <1>5, <2>1, <3>2
      <4>2. /\ p \in Thread \ S /\ Going(T[p])
            /\ (T[t].isDetached => t \in T[p].detached) /\ (~T[t].isDetached => t \in T[p].children)
        BY <1>1, <1>7, <3>2, <4>1, ParentIs
      <4> HIDE DEF p
      <4> QED
        BY <1>5, <4>1, <4>2 DEF Going
    <3> QED
      BY <3>1, <3>2
  <2>2. ASSUME NEW t \in Thread, NEW c \in T2[t].children
        PROVE  T2[c].live /\ T2[c].parent = t /\ ~T2[c].isDetached
    <3>1. CASE t \in S
      BY <1>3, <2>2, <3>1 DEF IsNew
    <3>2. CASE t = self
      BY <1>1, <1>3, <2>2, <3>2 DEF IsNew, HasForked
    <3>3. CASE t \notin S /\ t # self
      <4>1. c \in T[t].children /\ c \in Thread
        BY <1>1, <1>5, <2>2, <3>3, Record
      <4>2. T[c].live /\ T[c].parent = t /\ ~T[c].isDetached
        BY <1>1, <4>1 DEF Tree
      <4>3. c \in Thread \ S
        BY <1>2, <4>1, <4>2
      <4> QED
        BY <1>5, <4>2, <4>3
    <3> QED
      BY <3>1, <3>2, <3>3
  <2>3. ASSUME NEW t \in Thread, Going(T2[t]), NEW c \in T2[t].detached
        PROVE  T2[c].live /\ T2[c].parent = t /\ T2[c].isDetached /\ ~T2[c].ended
    <3>1. t \notin S
      BY <1>3, <2>3 DEF IsNew
    <3>2. Going(T[t]) /\ c \in T[t].detached /\ c \in Thread
      BY <1>1, <1>5, <2>3, <3>1, Record DEF Going
    <3>3. T[c].live /\ T[c].parent = t /\ T[c].isDetached /\ ~T[c].ended
      BY <1>1, <3>2 DEF Tree
    <3>4. c \in Thread \ S
      BY <1>2, <3>2, <3>3
    <3> QED
      BY <1>5, <3>3, <3>4
  <2> QED
    BY <2>1, <2>2, <2>3 DEF Tree
<1>9. Rooted(T2)
  <2> SUFFICES ASSUME NEW Q \in SUBSET Thread, Q # {} PROVE \E t \in Q : T2[t].parent \notin Q
    BY DEF Rooted
  <2>1. CASE Q \subseteq S
    <3>1. PICK t \in Q : TRUE
      OBVIOUS
    <3>2. T2[t].parent = self /\ self \notin Q
      BY <1>1, <1>3, <2>1, <3>1 DEF IsNew
    <3> QED
      BY <3>1, <3>2
  <2>2. CASE ~(Q \subseteq S)
    <3>1. Q \ S \in SUBSET Thread /\ Q \ S # {}
      BY <2>2
    <3>2. PICK t \in Q \ S : T[t].parent \notin Q \ S
      BY <1>1, <3>1 DEF Rooted
    <3>3. T2[t].parent = T[t].parent /\ (T[t].parent = Nobody \/ T[t].parent \in Thread \ S)
      BY <1>5, <1>7, <3>2
    <3>4. Nobody \notin Q
      BY Addresses
    <3> QED
      BY <3>2, <3>3, <3>4
  <2> QED
    BY <2>1, <2>2
<1>10. Families(T2)
  <2> SUFFICES ASSUME NEW t \in Thread, NEW c \in T2[t].children, InFunction(T2[t].scope)
               PROVE  InFunction(T2[c].scope)
    BY DEF Families
  <2>1. CASE t \in S
    BY <1>3, <2>1 DEF IsNew
  <2>2. CASE t = self
    BY <1>1, <1>3, <2>2 DEF IsNew, HasForked, ForkFits
  <2>3. CASE t \notin S /\ t # self
    <3>1. c \in T[t].children /\ c \in Thread /\ T2[t].scope = T[t].scope
      BY <1>1, <1>5, <2>3, Record
    <3>2. T[c].live
      BY <1>1, <3>1 DEF Tree
    <3>3. c \in Thread \ S
      BY <1>2, <3>1, <3>2
    <3> QED
      BY <1>1, <1>5, <3>1, <3>3 DEF Families
  <2> QED
    BY <2>1, <2>2, <2>3
<1> QED
  BY <1>6, <1>8, <1>9, <1>10 DEF Whole

(* The rest of what must hold of the threads does, too: the threads of a        *)
(* function run at once.                                                        *)
LEMMA ForksRest ==
    ASSUME NEW T, NEW T2, NEW S, NEW scope, NEW pc, Forks(T, T2, S, scope, pc), Whole(T), Kids(T),
           ForkFits(T[self], S, scope, pc), NEW R, NEW R2, Placed(T, R), self \in R, R \cap S = {},
           R2 = (IF scope \in Functions THEN R \cup S ELSE R), NEW Z, Remain(T, Z)
    PROVE  Kids(T2) /\ Placed(T2, R2) /\ Remain(T2, Z)
<1>1. /\ Fields(T) /\ Tree(T) /\ T \in Table /\ T2 \in Table
      /\ S \subseteq Thread /\ self \in Thread /\ self \notin S
      /\ HasForked(T[self], T2[self], S, scope, pc) /\ Ready(T[self])
  BY DEF Whole, Forks
<1>2. \A t \in S : IsNew(T2[t], scope) /\ ~T[t].live
  BY DeletedTyped DEF Forks
<1>3. \A t \in Thread : t \notin S /\ t # self => T2[t] = T[t]
  BY DEF Forks
<1>4. ASSUME NEW t \in S PROVE KidsOf(T2, t)
  <2>1. IsNew(T2[t], scope)
    BY <1>2
  <2>2. ToJoin(T2[t]) = 0 /\ ~Detaches(T2[t].pc)
    BY <2>1, Shapes DEF ToJoin, IsNew
  <2>3. Cardinality({}) = 0
    BY FS_EmptySet
  <2> QED
    BY <2>1, <2>2, <2>3 DEF KidsOf, IsNew
<1>5. KidsOf(T2, self)
  <2>1. /\ T2[self].pc = pc /\ T2[self].children = S /\ T2[self].detached = T[self].detached
        /\ T2[self].taskFunc = (IF scope \in Tasks \cup Functions THEN S ELSE {})
        /\ ~T2[self].joining /\ ~T2[self].waiting
    BY <1>1 DEF HasForked
  <2>2. ToJoin(T2[self]) = Joins(pc)
    BY <2>1 DEF ToJoin, Joins
  <2>3. \A c \in T2[self].taskFunc : T2[c].scope \in Tasks \cup Functions
    BY <1>2, <2>1 DEF IsNew
  <2>4. T2[self].taskFunc = {} \/ T2[self].taskFunc = T2[self].children
    BY <2>1
  <2> QED
    BY <2>1, <2>2, <2>3, <2>4 DEF KidsOf, ForkFits
<1>6. ASSUME NEW t \in Thread, t \notin S, t # self, Going(T2[t]) PROVE KidsOf(T2, t)
  <2>1. T2[t] = T[t]
    BY <1>3, <1>6
  <2>2. KidsOf(T, t)
    BY <1>6, <2>1 DEF Kids
  <2>3. \A c \in T[t].children : T2[c].scope = T[c].scope /\ (T2[c].ended <=> T[c].ended)
    <3> SUFFICES ASSUME NEW c \in T[t].children
                 PROVE  T2[c].scope = T[c].scope /\ (T2[c].ended <=> T[c].ended)
      OBVIOUS
    <3>1. c \in Thread /\ T[c].live
      BY <1>1, Record DEF Tree
    <3>2. c \notin S
      BY <1>2, <3>1
    <3>3. CASE c = self
      BY <1>1, <3>3 DEF HasForked, Ready, Going
    <3> QED
      BY <1>3, <3>1, <3>2, <3>3
  <2>4. T[t].taskFunc \subseteq T[t].children
    BY <2>2 DEF KidsOf
  <2>5. ToJoin(T2[t]) = ToJoin(T[t])
    BY <2>1
  <2> QED
    BY <2>1, <2>2, <2>3, <2>4, <2>5 DEF KidsOf
<1>7. Kids(T2)
  BY <1>4, <1>5, <1>6 DEF Kids
<1>8. Placed(T2, R2)
  <2> SUFFICES ASSUME NEW t \in Thread PROVE PlaceOf(T2[t], t \in R2)
    BY DEF Placed
  <2>1. CASE t \in S
    <3>1. IsNew(T2[t], scope) /\ t \notin R
      BY <1>2, <2>1
    <3>2. (t \in R2) <=> scope \in Functions
      BY <2>1, <3>1
    <3> QED
      BY <3>1, <3>2 DEF IsNew, PlaceOf
  <2>2. CASE t = self
    <3>1. t \in R2
      BY <2>2
    <3> QED
      BY <1>1, <2>2, <3>1 DEF HasForked, PlaceOf
  <2>3. CASE t \notin S /\ t # self
    <3>1. T2[t] = T[t] /\ ((t \in R2) <=> (t \in R)) /\ PlaceOf(T[t], t \in R)
      BY <1>3, <2>3 DEF Placed
    <3> QED
      BY <3>1 DEF PlaceOf
  <2> QED
    BY <2>1, <2>2, <2>3
<1>9. Remain(T2, Z)
  <2> SUFFICES ASSUME NEW t \in Thread \ Z PROVE RemainsOf(T2[t])
    BY DEF Remain
  <2>1. CASE t \in S
    BY <1>2, <2>1 DEF IsNew, RemainsOf
  <2>2. CASE t = self
    BY <1>1, <2>2 DEF HasForked, RemainsOf
  <2>3. CASE t \notin S /\ t # self
    BY <1>3, <2>3 DEF Remain
  <2> QED
    BY <2>1, <2>2, <2>3
<1> QED
  BY <1>7, <1>8, <1>9

(* Lists without repetition and with no thread in common, one after the other *)
LEMMA ListsJoined ==
    ASSUME NEW A \in Seq(Seq(Thread)), NEW B \in Seq(Seq(Thread)), Distinct(A), Distinct(B),
           Members(A) \cap Members(B) = {}
    PROVE  Distinct(A \o B) /\ Members(A \o B) = Members(A) \cup Members(B)
<1> DEFINE C == A \o B
           n == Len(A)
           m == Len(B)
<1>1. /\ n \in Nat /\ m \in Nat /\ DOMAIN A = 1..n /\ DOMAIN B = 1..m /\ DOMAIN C = 1..(n + m)
      /\ \A i \in 1..n : C[i] = A[i] /\ i \in 1..(n + m)
      /\ \A i \in 1..m : C[i + n] = B[i] /\ i + n \in 1..(n + m)
      /\ \A i \in 1..(n + m) : i \in 1..n \/ (i - n \in 1..m /\ i = (i - n) + n)
  OBVIOUS
<1>2. /\ Members(A) = UNION {ToSet(A[i]) : i \in 1..n} /\ Members(B) = UNION {ToSet(B[i]) : i \in 1..m}
      /\ Members(C) = UNION {ToSet(C[i]) : i \in 1..(n + m)}
  BY <1>1 DEF Members
<1>3. /\ \A i, j \in 1..n : IsInjective(A[i]) /\ (i # j => ToSet(A[i]) \cap ToSet(A[j]) = {})
      /\ \A i, j \in 1..m : IsInjective(B[i]) /\ (i # j => ToSet(B[i]) \cap ToSet(B[j]) = {})
  BY <1>1 DEF Distinct
<1> HIDE DEF C, n, m
<1>4. \A i \in 1..(n + m) : \/ i \in 1..n /\ C[i] = A[i] /\ ToSet(C[i]) \subseteq Members(A)
                            \/ i - n \in 1..m /\ C[i] = B[i - n] /\ ToSet(C[i]) \subseteq Members(B)
  <2> SUFFICES ASSUME NEW i \in 1..(n + m)
               PROVE  \/ i \in 1..n /\ C[i] = A[i] /\ ToSet(C[i]) \subseteq Members(A)
                      \/ i - n \in 1..m /\ C[i] = B[i - n] /\ ToSet(C[i]) \subseteq Members(B)
    OBVIOUS
  <2>1. CASE i \in 1..n
    BY <1>1, <1>2, <2>1
  <2>2. CASE i - n \in 1..m /\ i = (i - n) + n
    BY <1>1, <1>2, <2>2
  <2> QED
    BY <1>1, <2>1, <2>2
<1>5. Distinct(C)
  <2> SUFFICES ASSUME NEW i \in 1..(n + m), NEW j \in 1..(n + m)
               PROVE  IsInjective(C[i]) /\ (i # j => ToSet(C[i]) \cap ToSet(C[j]) = {})
    BY <1>1 DEF Distinct
  <2>1. IsInjective(C[i])
    BY <1>3, <1>4
  <2>2. ASSUME i # j PROVE ToSet(C[i]) \cap ToSet(C[j]) = {}
    <3>1. CASE i \in 1..n /\ C[i] = A[i] /\ j \in 1..n /\ C[j] = A[j]
      BY <1>3, <2>2, <3>1
    <3>2. CASE i - n \in 1..m /\ C[i] = B[i - n] /\ j - n \in 1..m /\ C[j] = B[j - n]
      <4>1. i - n # j - n
        BY <1>1, <2>2
      <4> QED
        BY <1>3, <3>2, <4>1
    <3>3. CASE \/ ToSet(C[i]) \subseteq Members(A) /\ ToSet(C[j]) \subseteq Members(B)
               \/ ToSet(C[i]) \subseteq Members(B) /\ ToSet(C[j]) \subseteq Members(A)
      BY <3>3
    <3> QED
      BY <1>4, <3>1, <3>2, <3>3
  <2> QED
    BY <2>1, <2>2
<1>6. Members(C) = Members(A) \cup Members(B)
  <2>1. ASSUME NEW x \in Members(C) PROVE x \in Members(A) \cup Members(B)
    <3>1. PICK i \in 1..(n + m) : x \in ToSet(C[i])
      BY <1>2
    <3> QED
      BY <1>4, <3>1
  <2>2. ASSUME NEW x \in Members(A) PROVE x \in Members(C)
    <3>1. PICK i \in 1..n : x \in ToSet(A[i])
      BY <1>2
    <3> QED
      BY <1>1, <1>2, <3>1
  <2>3. ASSUME NEW x \in Members(B) PROVE x \in Members(C)
    <3>1. PICK i \in 1..m : x \in ToSet(B[i])
      BY <1>2
    <3>2. i + n \in 1..(n + m) /\ C[i + n] = B[i]
      BY <1>1
    <3> QED
      BY <1>2, <3>1, <3>2
  <2> QED
    BY <2>1, <2>2, <2>3
<1> QED
  BY <1>5, <1>6 DEF C

(* Lists the other way round *)
LEMMA ListsReversed ==
    ASSUME NEW A \in Seq(List), Distinct(A)
    PROVE  Reverse(A) \in Seq(List) /\ Distinct(Reverse(A)) /\ Members(Reverse(A)) = Members(A)
<1> DEFINE B == Reverse(A)
           n == Len(A)
<1>1. n \in Nat /\ DOMAIN A = 1..n /\ \A i \in 1..n : A[i] \in List
  OBVIOUS
<1>2. B = [i \in 1..n |-> A[(n - i) + 1]]
  BY DEF Reverse
<1> HIDE DEF B, n
<1>3. \A i \in 1..n : (n - i) + 1 \in 1..n /\ i = (n - ((n - i) + 1)) + 1
  BY <1>1
<1>4. DOMAIN B = 1..n /\ \A i \in 1..n : B[i] = A[(n - i) + 1]
  BY <1>2
<1>5. B \in Seq(List)
  BY <1>1, <1>2, <1>3
<1>6. \A i, j \in 1..n : IsInjective(A[i]) /\ (i # j => ToSet(A[i]) \cap ToSet(A[j]) = {})
  BY <1>1 DEF Distinct
<1>7. Distinct(B)
  <2> SUFFICES ASSUME NEW i \in 1..n, NEW j \in 1..n
               PROVE  IsInjective(B[i]) /\ (i # j => ToSet(B[i]) \cap ToSet(B[j]) = {})
    BY <1>4 DEF Distinct
  <2>1. i # j => (n - i) + 1 # (n - j) + 1
    BY <1>1
  <2> DEFINE g == (n - i) + 1
             k == (n - j) + 1
  <2>2. g \in 1..n /\ k \in 1..n /\ B[i] = A[g] /\ B[j] = A[k]
    BY <1>3, <1>4
  <2> HIDE DEF g, k
  <2>3. IsInjective(A[g]) /\ (g # k => ToSet(A[g]) \cap ToSet(A[k]) = {})
    BY <1>6, <2>2
  <2> QED
    BY <2>1, <2>2, <2>3 DEF g, k
<1>8. Members(A) = UNION {ToSet(A[i]) : i \in 1..n} /\ Members(B) = UNION {ToSet(B[i]) : i \in 1..n}
  BY <1>1, <1>4 DEF Members
<1>9. Members(B) = Members(A)
  <2>1. ASSUME NEW x \in Members(B) PROVE x \in Members(A)
    <3>1. PICK i \in 1..n : x \in ToSet(B[i])
      BY <1>8
    <3> QED
      BY <1>3, <1>4, <1>8, <3>1
  <2>2. ASSUME NEW x \in Members(A) PROVE x \in Members(B)
    <3>1. PICK i \in 1..n : x \in ToSet(A[i])
      BY <1>8
    <3>2. B[(n - i) + 1] = A[i] /\ (n - i) + 1 \in 1..n
      BY <1>3, <1>4
    <3> QED
      BY <1>8, <3>1, <3>2
  <2> QED
    BY <2>1, <2>2
<1> QED
  BY <1>5, <1>7, <1>9 DEF B

(* The addresses for new threads are free. *)
LEMMA NewThreads ==
    ASSUME TypeOK, IInv, NEW n \in 1..2, NEW cs \in New(n)
    PROVE  /\ n \in Nat /\ cs \in [1..n -> Thread] /\ cs \in Seq(Thread) /\ IsInjective(cs)
           /\ ToSet(cs) \subseteq Thread /\ Cardinality(ToSet(cs)) = n
           /\ \A t \in ToSet(cs) : thread[t] = Deleted
           /\ n = 1 => ToSet(cs) = {cs[1]}
<1>1. cs \in [1..n -> Unused] /\ IsInjective(cs)
  BY DEF New
<1>2. n \in Nat /\ cs \in [1..n -> Thread] /\ cs \in Seq(Thread) /\ DOMAIN cs = 1..n
  BY <1>1 DEF Unused
<1>3. ToSet(cs) \subseteq Thread /\ \A t \in ToSet(cs) : thread[t] = Deleted
  <2>1. \A t \in Unused : thread[t] = Deleted
    BY DEF Unused, IInv, Whole, Fields, FieldsOf
  <2> QED
    BY <1>1, <1>2, <2>1 DEF ToSet
<1>4. CASE n = 1
  <2>1. ToSet(cs) = {cs[1]}
    BY <1>2, <1>4 DEF ToSet
  <2>2. Cardinality({cs[1]}) = 1
    BY FS_Singleton
  <2> QED
    BY <1>1, <1>2, <1>3, <1>4, <2>1, <2>2
<1>5. CASE n = 2
  <2>1. ToSet(cs) = {cs[1]} \cup {cs[2]}
    BY <1>2, <1>5 DEF ToSet
  <2>2. cs[2] \notin {cs[1]}
    BY <1>1, <1>2, <1>5 DEF IsInjective
  <2>3. Cardinality({cs[1]}) = 1 /\ IsFiniteSet({cs[1]})
    BY FS_Singleton
  <2>4. Cardinality({cs[1]} \cup {cs[2]}) = 2
    BY <2>2, <2>3, FS_AddElement
  <2> QED
    BY <1>1, <1>2, <1>3, <1>5, <2>1, <2>4
<1> QED
  BY <1>4, <1>5

(* What of_FORK makes of the threads and the active events *)
ForkMade(s, S, scope, pc) ==
    /\ s \in State /\ s.failed = {} /\ Forks(thread, s.thread, S, scope, pc)
    /\ Sound(s.thread, s.active, later, waiters,
             IF scope \in Functions THEN OnStack \cup S ELSE OnStack, {})

(* They are as they should be. *)
LEMMA ForkMakes ==
    ASSUME TypeOK, IInv, NEW kind, Statement(kind), NEW n \in 1..2, NEW cs \in New(n),
           NEW scope \in Scope, NEW pc \in Seq(Opcodes),
           ForkFits(thread[self], ToSet(cs), scope, pc)
    PROVE  ForkMade(Forked(Now, cs, scope, pc), ToSet(cs), scope, pc)
<1> DEFINE S == ToSet(cs)
           s == Forked(Now, cs, scope, pc)
           T2 == s.thread
           A2 == s.active
           R2 == IF scope \in Functions THEN OnStack \cup S ELSE OnStack
           X == ToSet(later) \cup Members(Rests)
<1>1. /\ self \in Thread /\ Ready(thread[self]) /\ stack # <<>> /\ self \in OnStack
      /\ Now \in State /\ Now.thread = thread /\ Now.active = active /\ Now.failed = {}
      /\ Sound(thread, active, later, waiters, OnStack, {})
  BY StatementBegins
<1>2. /\ n \in Nat /\ cs \in [1..n -> Thread] /\ cs \in Seq(Thread) /\ IsInjective(cs)
      /\ S \subseteq Thread /\ \A t \in S : thread[t] = Deleted
  BY NewThreads
<1>3. IsForked(Now, cs, scope, pc, s)
  BY <1>1, <1>2, ForkedIs, Zenon
<1>4. Forks(thread, T2, S, scope, pc) /\ s \in State /\ s.failed = {}
  <2>1. self \in Thread /\ Ready(Now.thread[self]) /\ \A t \in ToSet(cs) : Now.thread[t] = Deleted
    BY <1>1, <1>2
  <2>2. Forks(Now.thread, s.thread, ToSet(cs), scope, pc)
    BY <1>1, <1>2, <1>3, <2>1, ForkedThreads
  <2> QED
    BY <1>1, <1>3, <2>2 DEF IsForked
<1> HIDE DEF s, S
<1>5. /\ Whole(thread) /\ Kids(thread) /\ Placed(thread, OnStack) /\ Remain(thread, {})
      /\ Queues(thread, active, X) /\ EventLists(thread, waiters)
      /\ active \in Seq(List) /\ later \in Seq(Thread) /\ IsInjective(later)
      /\ Members(Rests) \cap ToSet(later) = {}
  BY <1>1 DEF Sound
<1>6. OnStack \cap S = {}
  <2>1. \A t \in OnStack : thread[t].live
    BY DEF IInv, Calls, OnStack
  <2> QED
    BY <1>2, <2>1, DeletedTyped
<1>7. ForkFits(thread[self], S, scope, pc)
  BY DEF S
<1>8. Whole(T2) /\ Kids(T2) /\ Placed(T2, R2) /\ Remain(T2, {})
  <2>1. R2 = (IF scope \in Functions THEN OnStack \cup S ELSE OnStack)
    OBVIOUS
  <2> HIDE DEF R2, T2
  <2>2. Whole(T2)
    BY <1>4, <1>5, <1>7, ForksWhole
  <2>3. Kids(T2) /\ Placed(T2, R2) /\ Remain(T2, {})
    BY <1>1, <1>4, <1>5, <1>6, <1>7, <2>1, ForksRest
  <2> QED
    BY <2>2, <2>3
<1>9. \A t \in Thread : /\ T2[t].onEvent <=> thread[t].onEvent
                        /\ T2[t].scheduled <=> thread[t].scheduled \/ (t \in S /\ scope \notin Functions)
  <2> SUFFICES ASSUME NEW t \in Thread
               PROVE  /\ T2[t].onEvent <=> thread[t].onEvent
                      /\ T2[t].scheduled <=> thread[t].scheduled \/ (t \in S /\ scope \notin Functions)
    OBVIOUS
  <2> HIDE DEF T2
  <2>1. CASE t \in S
    BY <1>4, <2>1, DeletedTyped DEF Forks, IsNew
  <2>2. CASE t = self
    BY <1>4, <2>2 DEF Forks, HasForked, Ready
  <2>3. CASE t \notin S /\ t # self
    BY <1>4, <2>3 DEF Forks
  <2> QED
    BY <2>1, <2>2, <2>3
<1>10. EventLists(T2, waiters)
  BY <1>5, <1>9, EventsStay
<1>11. Queues(T2, A2, X) /\ A2 \in Seq(List)
  <2>1. CASE scope \in Functions
    <3>1. A2 = active
      BY <1>1, <1>3, <2>1 DEF IsForked
    <3>2. \A t \in Thread : T2[t].scheduled <=> thread[t].scheduled
      BY <1>9, <2>1
    <3> QED
      BY <1>5, <3>1, <3>2, QueuesStay
  <2>2. CASE scope \notin Functions
    <3> DEFINE B == [i \in DOMAIN cs |-> <<cs[i]>>]
    <3>1. A2 = Reverse(B) \o active
      BY <1>1, <1>3, <2>2 DEF IsForked
    <3>2. B \in Seq(List) /\ Distinct(B) /\ Members(B) = S
      BY <1>2, Singles DEF S
    <3> HIDE DEF B
    <3>3. Reverse(B) \in Seq(List) /\ Distinct(Reverse(B)) /\ Members(Reverse(B)) = S
      BY <3>2, ListsReversed
    <3>4. \A t \in S : ~thread[t].scheduled
      BY <1>2, DeletedTyped
    <3>5. S \cap (Members(active) \cup X) = {}
      BY <1>5, <3>4 DEF Queues
    <3>6. /\ Distinct(Reverse(B) \o active)
          /\ Members(Reverse(B) \o active) = S \cup Members(active)
      <4> DEFINE C == Reverse(B)
      <4>1. C \in Seq(Seq(Thread)) /\ active \in Seq(Seq(Thread)) /\ Distinct(C) /\ Distinct(active)
            /\ Members(C) \cap Members(active) = {} /\ Members(C) = S
        BY <1>5, <3>3, <3>5, ListsAreLists DEF Queues
      <4> HIDE DEF C
      <4>2. Distinct(C \o active) /\ Members(C \o active) = Members(C) \cup Members(active)
        BY <4>1, ListsJoined
      <4> QED
        BY <4>1, <4>2 DEF C
    <3>7. A2 \in Seq(List)
      <4> DEFINE C == Reverse(B)
      <4>1. C \in Seq(List)
        BY <3>3
      <4> HIDE DEF C
      <4>2. C \o active \in Seq(List)
        BY <1>5, <4>1
      <4> QED
        BY <3>1, <4>2 DEF C
    <3>8. {t \in Thread : T2[t].scheduled} = {t \in Thread : thread[t].scheduled} \cup S
      BY <1>2, <1>9, <2>2
    <3> QED
      BY <1>5, <3>1, <3>5, <3>6, <3>7, <3>8 DEF Queues
  <2> QED
    BY <2>1, <2>2
<1>12. T2 \in Table
  BY <1>4 DEF Forks
<1>13. Sound(T2, A2, later, waiters, R2, {})
  BY <1>5, <1>8, <1>10, <1>11, <1>12 DEF Sound
<1> QED
  BY <1>4, <1>13 DEF ForkMade, s, S

(* The stack is as it should be, too. *)
LEMMA ForkContinues ==
    ASSUME TypeOK, IInv, NEW kind, Statement(kind), NEW n \in 1..2, NEW cs \in New(n),
           NEW scope \in Scope, scope \notin Functions, NEW pc \in Seq(Opcodes),
           ForkFits(thread[self], ToSet(cs), scope, pc), Continue(Forked(Now, cs, scope, pc)),
           later' = later, waiters' = waiters
    PROVE  IInv'
<1> DEFINE S == ToSet(cs)
           s == Forked(Now, cs, scope, pc)
<1>1. ForkMade(s, S, scope, pc)
  BY ForkMakes, Zenon
<1> HIDE DEF s, S
<1>2. /\ s \in State /\ s.failed = {} /\ Forks(thread, s.thread, S, scope, pc)
      /\ Sound(s.thread, s.active, later, waiters, OnStack, {})
  BY <1>1 DEF ForkMade
<1>3. stack # <<>>
  BY StatementBegins
<1>4. Calls(s.thread, stack)
  <2>1. /\ stack \in Seq(Frame) /\ OnStack \subseteq Thread /\ self = stack[1].thr
        /\ \A i \in DOMAIN stack : stack[i].thr \in OnStack /\ thread[stack[i].thr].live
        /\ Calls(thread, stack)
    BY <1>3, StackIs DEF OnStack, IInv, Calls
  <2>2. \A t \in Thread : thread[t].live => t \notin S
    BY <1>2, DeletedTyped DEF Forks
  <2>3. \A t \in Thread : t \notin S /\ t # self => s.thread[t] = thread[t]
    BY <1>2 DEF Forks
  <2>4. s.thread[self].live /\ s.thread[self].scope = thread[self].scope /\ ~s.thread[self].ended
    BY <1>2 DEF Forks, HasForked
  <2>5. \A i \in DOMAIN stack : s.thread[stack[i].thr].live
    BY <2>1, <2>2, <2>3, <2>4
  <2>6. Len(stack) = 2 => Called(s.thread, stack)
    <3>1. Len(stack) = 2 => caller \in Thread /\ caller # self /\ Going(thread[caller]) /\ stack[2].thr = caller
      BY <1>3, CallerLives DEF caller
    <3> QED
      BY <2>1, <2>2, <2>3, <2>4, <3>1 DEF Calls, Called, Going
  <2> QED
    BY <2>1, <2>5, <2>6 DEF Calls
<1>5. Continue(s)
  BY DEF s
<1> QED
  BY <1>2, <1>3, <1>4, <1>5, ContinueStep

(* A function is in itself, a block where its outer scope is. *)
LEMMA FunctionScopes ==
    /\ \A f \in Functions : InFunction(f) /\ f \in Scope /\ f \notin Blocks
    /\ \A b \in Blocks : (InFunction(b) <=> InFunction(Outer[b])) /\ b \in Scope
    /\ \A s \in Functions \cup Tasks : s \notin Blocks
<1>1. /\ \A f \in Functions : f \in Scope /\ f \notin Blocks
      /\ \A b \in Blocks : b \in Scope /\ \A s \in Functions \cup Tasks : s \notin Blocks
  BY Scopes, ThreadAssumption
<1> QED
  BY <1>1, HomeAssumption DEF InFunction

(* The joins of a fork of n branches *)
LEMMA JoinsOf ==
    ASSUME NEW n \in 1..2
    PROVE  /\ [i \in 1..n |-> "join"] \in PcShapes /\ [i \in 1..n |-> "join"] # Null
           /\ Joins([i \in 1..n |-> "join"]) = n /\ ~Detaches([i \in 1..n |-> "join"])
           /\ [i \in 1..n |-> "join"] \in Seq(Opcodes)
<1>1. n = 1 \/ n = 2
  OBVIOUS
<1>2. [i \in 1..1 |-> "join"] = <<"join">> /\ [i \in 1..2 |-> "join"] = <<"join", "join">>
  OBVIOUS
<1>3. <<"join">> \in PcShapes /\ <<"join", "join">> \in PcShapes
  BY DEF PcShapes
<1>4. n \in Nat
  OBVIOUS
<1> QED
  BY <1>1, <1>2, <1>3, <1>4, Shapes, AfterFork

(* What a statement that forks may do *)
LEMMA ForkAllowed ==
    ASSUME Regular, NEW kind, Statement(kind)
    PROVE  /\ kind \in Statements
           /\ kind \notin {"event", "block", "disable"} =>
                 ~InFunction(thread[self].scope) /\ thread[self].scope \notin Functions
           /\ kind \in {"join_any", "join_none"} => Detaching /\ Tasks = {}
           /\ JoinStatement(kind) => thread[self].detached = {}
<1>1. kind \in Statements /\ (InFunction(thread[self].scope) => kind \in {"event", "block", "disable"})
  BY DEF Statement
<1>2. kind \in {"join_any", "join_none"} => Detaching /\ Tasks = {}
  BY <1>1 DEF Regular, Detaching
<1> QED
  BY <1>1, <1>2, FunctionScopes DEF JoinStatement, Regular

(* fork ... join, join_any and join_none leave the invariant. *)
LEMMA ForkKeeps ==
    ASSUME TypeOK, IInv, Regular, NEW n \in 1..2, Fork(n)
    PROVE  IInv'
<1> DEFINE x == thread[self]
           all == [i \in 1..n |-> "join"]
           any == IF n = 1 THEN <<"join">> ELSE <<"join", "detach">>
<1>1. later' = later /\ waiters' = waiters
  BY DEF Fork
<1>2. PICK cs \in New(n), scope \in ForkScopes(n) :
          \/ JoinStatement("join") /\ Continue(Forked(Now, cs, scope, all))
          \/ JoinStatement("join_any") /\ Continue(Forked(Now, cs, scope, any))
          \/ Statement("join_none") /\ Continue(Forked(Now, cs, scope, <<"detach">>))
  BY DEF Fork
<1>3. Cardinality(ToSet(cs)) = n /\ n \in Nat /\ n >= 1
  BY NewThreads
<1>4. scope \in Blocks \/ scope = x.scope
  BY DEF ForkScopes
<1>5. ASSUME NEW kind, Statement(kind) PROVE x.scope \in Scope /\ scope \in Scope
  BY <1>4, <1>5, StatementBegins, FunctionScopes, Record
<1>6. ASSUME NEW kind, Statement(kind), kind \notin {"event", "block", "disable"}
      PROVE  /\ ~InFunction(x.scope) /\ scope \notin Functions
             /\ Tasks = {} => scope \notin Tasks \cup Functions
  BY <1>4, <1>6, ForkAllowed, FunctionScopes
<1> HIDE DEF x, all, any
<1>7. CASE JoinStatement("join") /\ Continue(Forked(Now, cs, scope, all))
  <2>1. Statement("join") /\ x.detached = {} /\ ~InFunction(x.scope) /\ scope \notin Functions /\ scope \in Scope
    <3>1. Statement("join")
      BY <1>7 DEF JoinStatement
    <3>2. "join" \notin {"event", "block", "disable"}
      OBVIOUS
    <3> QED
      BY <1>5, <1>6, <1>7, <3>1, <3>2, ForkAllowed DEF x
  <2>2. all \in PcShapes /\ all # Null /\ Joins(all) = n /\ ~Detaches(all) /\ all \in Seq(Opcodes)
    BY JoinsOf DEF all
  <2>3. ForkFits(x, ToSet(cs), scope, all)
    BY <1>3, <2>1, <2>2 DEF ForkFits
  <2> QED
    BY <1>1, <1>7, <2>1, <2>2, <2>3, ForkContinues DEF x
<1>8. CASE JoinStatement("join_any") /\ Continue(Forked(Now, cs, scope, any))
  <2>1. /\ Statement("join_any") /\ x.detached = {} /\ ~InFunction(x.scope) /\ scope \notin Functions
        /\ scope \in Scope /\ Detaching /\ scope \notin Tasks \cup Functions
    <3>1. Statement("join_any")
      BY <1>8 DEF JoinStatement
    <3>2. "join_any" \notin {"event", "block", "disable"}
      OBVIOUS
    <3> QED
      BY <1>5, <1>6, <1>8, <3>1, <3>2, ForkAllowed DEF x
  <2>2. /\ any \in PcShapes /\ any # Null /\ any \in Seq(Opcodes)
        /\ (n = 1 => ~Detaches(any) /\ Joins(any) = 1) /\ (n # 1 => Detaches(any) /\ Joins(any) = 1)
    BY Shapes, AfterFork DEF any, PcShapes
  <2>3. ForkFits(x, ToSet(cs), scope, any)
    BY <1>3, <2>1, <2>2 DEF ForkFits
  <2> QED
    BY <1>1, <1>8, <2>1, <2>2, <2>3, ForkContinues DEF x
<1>9. CASE Statement("join_none") /\ Continue(Forked(Now, cs, scope, <<"detach">>))
  <2> DEFINE pc == <<"detach">>
  <2>1. /\ ~InFunction(x.scope) /\ scope \notin Functions
        /\ scope \in Scope /\ Detaching /\ scope \notin Tasks \cup Functions
    <3>1. "join_none" \notin {"event", "block", "disable"}
      OBVIOUS
    <3> QED
      BY <1>5, <1>6, <1>9, <3>1, ForkAllowed DEF x
  <2>2. pc \in PcShapes /\ pc # Null /\ pc \in Seq(Opcodes) /\ Detaches(pc) /\ Joins(pc) = 0
    BY Shapes, AfterFork DEF PcShapes
  <2> HIDE DEF pc
  <2>3. ForkFits(x, ToSet(cs), scope, pc)
    BY <1>3, <2>1, <2>2 DEF ForkFits
  <2> QED
    BY <1>1, <1>9, <2>1, <2>2, <2>3, ForkContinues DEF x, pc
<1> QED
  BY <1>2, <1>7, <1>8, <1>9

(* One %join *)
LEMMA OneJoin ==
    ASSUME NEW cs, Cardinality(ToSet(cs)) = 1, NEW x, x.detached = {}, NEW scope,
           InFunction(x.scope) => InFunction(scope)
    PROVE  ForkFits(x, ToSet(cs), scope, <<"join">>)
<1>1. <<"join">> \in PcShapes
  BY DEF PcShapes
<1> QED
  BY <1>1, Shapes DEF ForkFits

(* A named block leaves the invariant. *)
LEMMA BlockKeeps ==
    ASSUME TypeOK, IInv, Regular, Block
    PROVE  IInv'
<1>1. later' = later /\ waiters' = waiters /\ JoinStatement("block") /\ Statement("block")
  BY DEF Block, JoinStatement
<1>2. PICK cs \in New(1), b \in Blocks :
          Outer[b] = thread[self].scope /\ Continue(Forked(Now, cs, b, <<"join">>))
  BY DEF Block
<1>3. 1 \in 1..2 /\ <<"join">> \in Seq(Opcodes)
  BY AfterFork
<1>4. Cardinality(ToSet(cs)) = 1
  BY <1>3, NewThreads
<1>5. b \in Scope /\ b \notin Functions /\ (InFunction(thread[self].scope) => InFunction(b))
  BY <1>2, FunctionScopes
<1>6. thread[self].detached = {}
  BY <1>1, ForkAllowed
<1>7. ForkFits(thread[self], ToSet(cs), b, <<"join">>)
  BY <1>4, <1>5, <1>6, OneJoin
<1> QED
  BY <1>1, <1>2, <1>3, <1>5, <1>7, ForkContinues

(* A task call leaves the invariant. *)
LEMMA CallTaskKeeps ==
    ASSUME TypeOK, IInv, Regular, CallTask
    PROVE  IInv'
<1>1. later' = later /\ waiters' = waiters /\ JoinStatement("task") /\ Statement("task")
  BY DEF CallTask, JoinStatement
<1>2. PICK cs \in New(1), t \in Tasks : Continue(Forked(Now, cs, t, <<"join">>))
  BY DEF CallTask
<1>3. 1 \in 1..2 /\ <<"join">> \in Seq(Opcodes) /\ "task" \notin {"event", "block", "disable"}
  BY AfterFork
<1>4. Cardinality(ToSet(cs)) = 1
  BY <1>3, NewThreads
<1>5. t \in Scope /\ t \notin Functions
  BY Scopes, ThreadAssumption
<1>6. thread[self].detached = {} /\ ~InFunction(thread[self].scope)
  BY <1>1, <1>3, ForkAllowed
<1>7. ForkFits(thread[self], ToSet(cs), t, <<"join">>)
  BY <1>4, <1>6, OneJoin
<1> QED
  BY <1>1, <1>2, <1>3, <1>5, <1>7, ForkContinues

(* A function call leaves the invariant. *)
LEMMA CallFunctionKeeps ==
    ASSUME TypeOK, IInv, Regular, CallFunction
    PROVE  IInv'
<1>1. later' = later /\ waiters' = waiters /\ JoinStatement("function") /\ Statement("function")
  BY DEF CallFunction, JoinStatement
<1>2. PICK cs \in New(1), f \in Functions :
          /\ Become(Forked(Now, cs, f, <<"join">>))
          /\ stack' = <<[thr |-> cs[1], rest |-> <<>>]>> \o stack
  BY DEF CallFunction
<1> DEFINE s == Forked(Now, cs, f, <<"join">>)
           h == cs[1]
           T2 == s.thread
<1>3. 1 \in 1..2 /\ <<"join">> \in Seq(Opcodes) /\ "function" \notin {"event", "block", "disable"}
  BY AfterFork
<1>4. Cardinality(ToSet(cs)) = 1 /\ ToSet(cs) = {h} /\ h \in Thread
  <2>1. Cardinality(ToSet(cs)) = 1 /\ ToSet(cs) = {h} /\ ToSet(cs) \subseteq Thread
    BY <1>3, NewThreads
  <2> QED
    BY <2>1
<1>5. f \in Scope
  BY FunctionScopes
<1>6. thread[self].detached = {} /\ ~InFunction(thread[self].scope)
  BY <1>1, <1>3, ForkAllowed
<1>7. ForkFits(thread[self], ToSet(cs), f, <<"join">>)
  BY <1>4, <1>6, OneJoin
<1>8. ForkMade(s, ToSet(cs), f, <<"join">>)
  BY <1>1, <1>3, <1>5, <1>7, ForkMakes, Zenon
<1> HIDE DEF s, h
<1>9. /\ s \in State /\ s.failed = {} /\ Forks(thread, T2, {h}, f, <<"join">>)
      /\ Sound(T2, s.active, later, waiters, OnStack \cup {h}, {})
  BY <1>4, <1>8 DEF ForkMade
<1>10. /\ stack # <<>> /\ self \in Thread
       /\ stack \in Seq(Frame) /\ OnStack \subseteq Thread /\ self = stack[1].thr /\ Len(stack) = 1
       /\ OnStack = {self} /\ Members(Rests) = ToSet(stack[1].rest) /\ IsInjective(stack[1].rest)
  <2>1. stack # <<>>
    BY <1>1, StatementBegins
  <2>2. Len(stack) # 2
    <3> SUFFICES ASSUME Len(stack) = 2 PROVE FALSE
      OBVIOUS
    <3>1. thread[self].scope \in Functions
      BY <2>1, CallerLives
    <3> QED
      BY <1>6, <3>1, FunctionScopes
  <2> QED
    BY <2>1, <2>2, StackIs
<1> DEFINE K == <<[thr |-> h, rest |-> <<>>]>> \o stack
<1>11. /\ stack' = K /\ thread' = T2 /\ active' = s.active /\ failed' = {}
  BY <1>2, <1>9 DEF Become, s, h
<1>12. /\ K \in Seq(Frame) /\ Len(K) = 2 /\ K[1] = [thr |-> h, rest |-> <<>>] /\ K[2] = stack[1]
       /\ DOMAIN K = {1, 2}
  <2>1. [thr |-> h, rest |-> <<>>] \in Frame
    <3>1. <<>> \in Seq(Thread)
      OBVIOUS
    <3> QED
      BY <1>4, <3>1 DEF Frame
  <2> DEFINE e == [thr |-> h, rest |-> <<>>]
  <2> HIDE DEF e
  <2>2. e \in Frame
    BY <2>1 DEF e
  <2>3. <<e>> \o stack \in Seq(Frame) /\ Len(<<e>> \o stack) = 2 /\ (<<e>> \o stack)[1] = e
        /\ (<<e>> \o stack)[2] = stack[1] /\ DOMAIN (<<e>> \o stack) = 1..2
    <3> DEFINE w == <<e>>
    <3>1. w \in Seq(Frame) /\ Len(w) = 1 /\ w[1] = e
      BY <2>2
    <3> HIDE DEF w
    <3>2. stack \in Seq(Frame) /\ Len(stack) = 1
      BY <1>10
    <3>3. /\ w \o stack \in Seq(Frame) /\ Len(w \o stack) = Len(w) + Len(stack)
          /\ \A i \in 1..(Len(w) + Len(stack)) :
                (w \o stack)[i] = IF i <= Len(w) THEN w[i] ELSE stack[i - Len(w)]
      BY <3>1, <3>2, ConcatProperties
    <3>4. (w \o stack)[1] = e /\ (w \o stack)[2] = stack[1] /\ Len(w \o stack) = 2
      BY <3>1, <3>2, <3>3
    <3>5. DOMAIN (w \o stack) = 1..2
      BY <3>3, <3>4
    <3> QED
      BY <3>3, <3>4, <3>5 DEF w
  <2>4. 1..2 = {1, 2}
    OBVIOUS
  <2> QED
    BY <2>3, <2>4 DEF e
<1> HIDE DEF K
<1>13. K[1].thr = h /\ K[1].rest = <<>> /\ K[2].thr = self /\ K[2].rest = stack[1].rest
  BY <1>10, <1>12
<1>14. ToSet(<<>>) = {} /\ IsInjective(<<>>)
  BY DEF ToSet, IsInjective
<1>15. RunOn(K) = {h, self} /\ Members(RestsOf(K)) = ToSet(stack[1].rest)
  <2>1. /\ RunOn(K) = {K[1].thr, K[2].thr}
        /\ Members(RestsOf(K)) = ToSet(K[1].rest) \cup ToSet(K[2].rest)
    BY <1>12, Frames
  <2> QED
    BY <1>13, <1>14, <2>1
<1>16. Distinct(RestsOf(K))
  <2>1. DOMAIN RestsOf(K) = {1, 2} /\ RestsOf(K)[1] = <<>> /\ RestsOf(K)[2] = stack[1].rest
    BY <1>12, <1>13 DEF RestsOf
  <2>2. IsInjective(RestsOf(K)[1]) /\ IsInjective(RestsOf(K)[2]) /\ ToSet(RestsOf(K)[1]) = {}
    BY <1>10, <1>14, <2>1
  <2> QED
    BY <2>1, <2>2 DEF Distinct
<1>17. OnStack' = OnStack \cup {h} /\ Members(Rests)' = Members(Rests) /\ Distinct(Rests)'
  <2>1. OnStack' = RunOn(K) /\ Rests' = RestsOf(K)
    BY <1>11 DEF OnStack, Rests, RunOn, RestsOf
  <2> QED
    BY <1>10, <1>15, <1>16, <2>1
<1>18. Calls(T2, K)
  <2>1. /\ IsNew(T2[h], f) /\ HasForked(thread[self], T2[self], {h}, f, <<"join">>) /\ h # self
    BY <1>9 DEF Forks
  <2>2. Called(T2, K)
    BY <1>6, <1>13, <2>1 DEF Called, IsNew, HasForked, Going
  <2>3. \A i \in DOMAIN K : T2[K[i].thr].live
    BY <1>12, <1>13, <2>1 DEF IsNew, HasForked
  <2> QED
    BY <1>12, <2>2, <2>3 DEF Calls
<1>19. Remain(T2, OnStack \cup {h})
  BY <1>9 DEF Sound, Remain
<1> QED
  BY <1>1, <1>9, <1>11, <1>17, <1>18, <1>19 DEF IInv, Others, Sound

--------------------------------------------------------------------------------
(* Threads that are disabled: B are the descendants of t                        *)

(* With a thread, its children are among the descendants. *)
LEMMA OffspringClosed ==
    ASSUME NEW T \in Table, NEW t \in Thread
    PROVE  /\ T[t].children \subseteq Offspring(T, t)
           /\ \A c \in Offspring(T, t) : c \in Thread /\ T[c].children \subseteq Offspring(T, t)
<1>1. \A u \in Thread : T[u].children \subseteq Thread
  BY Record
<1> QED
  BY <1>1 DEF Offspring

(* They are the least such set. *)
LEMMA OffspringLeast ==
    ASSUME NEW T, NEW t, NEW S \in SUBSET Thread, T[t].children \subseteq S,
           \A c \in S : T[c].children \subseteq S
    PROVE  Offspring(T, t) \subseteq S
BY DEF Offspring

(* The descendants of a thread: each is the child of one of them or of the      *)
(* thread, and nobody else is; the thread's own parent is not among them.       *)
Brood(T, t, B) ==
    /\ B \in SUBSET Thread /\ t \notin B
    /\ \A c \in B : T[c].live /\ ~T[c].isDetached /\ T[c].parent \in B \cup {t} /\ T[c].children \subseteq B
    /\ T[t].children \subseteq B
    /\ T[t].parent \notin B \cup {t}

(* The tree sees to that. *)
LEMMA BroodIs ==
    ASSUME NEW T \in Table, Tree(T), Rooted(T), NEW t \in Thread
    PROVE  Brood(T, t, Offspring(T, t))
<1> DEFINE B == Offspring(T, t)
           S == {c \in B : T[c].live /\ ~T[c].isDetached /\ T[c].parent \in B \cup {t}}
<1>1. /\ B \in SUBSET Thread /\ T[t].children \subseteq B
      /\ \A c \in B : c \in Thread /\ T[c].children \subseteq B
  BY OffspringTyped, OffspringClosed
<1>2. B \subseteq S
  <2>1. S \in SUBSET Thread
    BY <1>1
  <2>2. T[t].children \subseteq S
    BY <1>1 DEF Tree
  <2>3. ASSUME NEW c \in S PROVE T[c].children \subseteq S
    BY <1>1, <2>3 DEF Tree
  <2> HIDE DEF S
  <2> QED
    BY <2>1, <2>2, <2>3, OffspringLeast
<1> HIDE DEF B
<1>3. \A c \in B : T[c].live /\ ~T[c].isDetached /\ T[c].parent \in B \cup {t}
  BY <1>2
<1>4. PICK u \in B \cup {t} : T[u].parent \notin B \cup {t}
  <2>1. B \cup {t} \in SUBSET Thread /\ B \cup {t} # {}
    BY <1>1
  <2> QED
    BY <2>1 DEF Rooted
<1>5. u = t /\ t \notin B
  BY <1>3, <1>4
<1> QED
  BY <1>1, <1>3, <1>4, <1>5 DEF Brood, B

(* What do_disable has done when the descendants are reaped *)
IsBroken(T, T2, t, B) ==
    /\ T2 \in Table
    /\ \A u \in B : Gone(T[u], T2[u])
    /\ Stopping(T[t], T2[t], {}) /\ T2[t].children = {} /\ T2[t].detached = T[t].detached
    /\ T2[t].parent = T[t].parent /\ (T2[t].isDetached <=> T[t].isDetached) /\ ~T2[t].inScope
    /\ \A u \in Thread \ (B \cup {t}) :
          /\ Stays(T[u], T2[u], B, B) /\ Same(T[u], T2[u])
          /\ T2[u].children = T[u].children

(* A thread that is stopped *)
LEMMA StoppedIs ==
    ASSUME NEW x \in ThreadRecord, x.live, x.ended => ~x.joining, x.joining => x.children # {}
    PROVE  LET w == StoppedThread(x)
           IN  /\ w.live /\ w.ended /\ w.pc = Null /\ ~w.joining /\ ~w.inScope /\ w.scope = x.scope
               /\ w.parent = x.parent /\ (w.isDetached <=> x.isDetached)
               /\ w.children = x.children /\ w.detached = x.detached
               /\ (w.scheduled <=> x.scheduled) /\ (w.onEvent <=> x.onEvent) /\ (w.waiting <=> x.waiting)
BY DEF StoppedThread, ThreadRecord

(* A thread in a %join has a child. *)
LEMMA JoinerHas ==
    ASSUME NEW T \in Table, Fields(T), Kids(T), NEW t \in Thread, T[t].live
    PROVE  (T[t].ended => ~T[t].joining) /\ (T[t].joining => T[t].children # {})
<1>1. T[t].ended => ~T[t].joining
  BY DEF Fields, FieldsOf
<1>2. ASSUME T[t].joining, T[t].children = {} PROVE FALSE
  <2>1. KidsOf(T, t)
    BY <1>1, <1>2 DEF Kids, Going
  <2>2. Cardinality(T[t].children) = 0
    BY <1>2, FS_EmptySet
  <2>3. ToJoin(T[t]) = Joins(T[t].pc) + 1 /\ Joins(T[t].pc) \in Nat
    BY <1>2 DEF ToJoin, Joins
  <2>4. ToJoin(T[t]) > 0
    BY <2>3
  <2> QED
    BY <2>1, <2>2, <2>3, <2>4 DEF KidsOf
<1> QED
  BY <1>1, <1>2

(* This is what do_disable makes of the threads. *)
LEMMA BrokenDone ==
    ASSUME NEW r \in State, r.failed = {}, Fields(r.thread), Tree(r.thread), Rooted(r.thread),
           Kids(r.thread), NEW t \in Thread, r.thread[t].live
    PROVE  /\ Broken(r, t) \in State /\ Broken(r, t).failed = {} /\ Broken(r, t).active = r.active
           /\ IsBroken(r.thread, Broken(r, t).thread, t, Offspring(r.thread, t))
<1> DEFINE T == r.thread
           B == Offspring(T, t)
           T1 == Stopped(T, t)
           s == Broken(r, t)
           T2 == s.thread
<1>1. T \in Table /\ \A u \in Thread : T[u] \in ThreadRecord
  BY ThreadsOf DEF Table
<1>2. Brood(T, t, B)
  BY <1>1, BroodIs
<1>3. PICK q \in State : /\ q.active = r.active /\ q.failed = {} /\ q.thread = T1 /\ IsReaped(q, B, s)
  BY BrokenIs
<1>4. T1 \in Table
  BY <1>3, ThreadsOf DEF Table
<1>5. B \in SUBSET Thread /\ t \notin B
  BY <1>2 DEF Brood
<1>6. \A u \in Thread : T1[u] = IF u \in B \cup {t} THEN StoppedThread(T[u]) ELSE T[u]
  BY DEF Stopped
<1> HIDE DEF T1, B, s
<1>7. \A u \in B \cup {t} :
         /\ T1[u].live /\ T1[u].ended /\ T1[u].pc = Null /\ ~T1[u].joining /\ ~T1[u].inScope
         /\ T1[u].scope = T[u].scope /\ T1[u].parent = T[u].parent /\ (T1[u].isDetached <=> T[u].isDetached)
         /\ T1[u].children = T[u].children /\ T1[u].detached = T[u].detached
         /\ (T1[u].scheduled <=> T[u].scheduled) /\ (T1[u].onEvent <=> T[u].onEvent)
  <2> SUFFICES ASSUME NEW u \in B \cup {t}
        PROVE  /\ T1[u].live /\ T1[u].ended /\ T1[u].pc = Null /\ ~T1[u].joining /\ ~T1[u].inScope
               /\ T1[u].scope = T[u].scope /\ T1[u].parent = T[u].parent /\ (T1[u].isDetached <=> T[u].isDetached)
               /\ T1[u].children = T[u].children /\ T1[u].detached = T[u].detached
               /\ (T1[u].scheduled <=> T[u].scheduled) /\ (T1[u].onEvent <=> T[u].onEvent)
    OBVIOUS
  <2>1. u \in Thread /\ T[u].live
    BY <1>2 DEF Brood
  <2>2. T[u] \in ThreadRecord /\ (T[u].ended => ~T[u].joining) /\ (T[u].joining => T[u].children # {})
    BY <1>1, <2>1, JoinerHas
  <2>3. T1[u] = StoppedThread(T[u])
    BY <1>6, <2>1
  <2> HIDE DEF T
  <2> QED
    BY <2>1, <2>2, <2>3, StoppedIs
<1>8. \A u \in Thread \ (B \cup {t}) : T1[u] = T[u]
  BY <1>6
<1>9. Reapable(T1, B)
  <2> SUFFICES ASSUME NEW u \in B
        PROVE  /\ \A c \in T1[u].children : T1[c].parent = u
               /\ \A c \in T1[u].detached : T1[c].parent = u /\ T1[c].isDetached
               /\ T1[u].parent # Nobody =>
                     u \in IF T1[u].isDetached THEN T1[T1[u].parent].detached ELSE T1[T1[u].parent].children
               /\ Held(T1[u]) \/ T1[u].children \subseteq B
    BY DEF Reapable
  <2>1. u \in Thread /\ T[u].live /\ ~T[u].isDetached /\ T[u].parent \in B \cup {t} /\ T[u].children \subseteq B
    BY <1>2 DEF Brood
  <2>2. \A c \in T1[u].children : T1[c].parent = u
    BY <1>7, <2>1 DEF Tree
  <2>3. \A c \in T1[u].detached : T1[c].parent = u /\ T1[c].isDetached
    <3> SUFFICES ASSUME NEW c \in T[u].detached PROVE T1[c].parent = u /\ T1[c].isDetached
      BY <1>7
    <3>1. T[u].parent # Nobody
      BY <1>5, <2>1, Addresses
    <3>2. Going(T[u])
      BY <2>1, <3>1 DEF Fields, FieldsOf, Going
    <3>3. c \in Thread /\ T[c].parent = u /\ T[c].isDetached
      BY <1>1, <2>1, <3>2, Record DEF Tree
    <3>4. CASE c \in B \cup {t}
      BY <1>7, <3>3, <3>4
    <3>5. CASE c \notin B \cup {t}
      BY <1>8, <3>3, <3>5
    <3> QED
      BY <3>4, <3>5
  <2>4. u \in T1[T1[u].parent].children /\ ~T1[u].isDetached
    <3>1. T[u].parent # Nobody
      BY <1>5, <2>1, Addresses
    <3>2. u \in T[T[u].parent].children
      BY <2>1, <3>1 DEF Tree
    <3> QED
      BY <1>7, <2>1, <3>2
  <2>5. T1[u].children \subseteq B
    BY <1>7, <2>1
  <2> QED
    BY <2>2, <2>3, <2>4, <2>5
<1>10. /\ s \in State /\ s.failed = {} /\ s.active = r.active
       /\ \A u \in B : T2[u] = ReapedDead(T1[u], B)
       /\ \A u \in Thread \ B : T2[u] = ReapedOther(T1, u, B)
  BY <1>3, <1>5, <1>9 DEF IsReaped
<1>11. T2 \in Table
  BY <1>10, ThreadsOf DEF Table
<1> HIDE DEF T2
<1>12. \A u \in B : Gone(T[u], T2[u])
  <2> SUFFICES ASSUME NEW u \in B PROVE Gone(T[u], T2[u])
    OBVIOUS
  <2>1. T[u].children \subseteq B /\ u \in Thread
    BY <1>2 DEF Brood
  <2>2. Stopping(T[u], T1[u], B)
    BY <1>7, <2>1 DEF Stopping
  <2>3. T[u] \in ThreadRecord /\ T1[u] \in ThreadRecord
    BY <1>1, <1>4, <2>1, Record
  <2> QED
    BY <1>10, <2>2, <2>3, StoppedReaped
<1>13. /\ Stopping(T[t], T2[t], {}) /\ T2[t].children = {} /\ T2[t].detached = T[t].detached
       /\ T2[t].parent = T[t].parent /\ (T2[t].isDetached <=> T[t].isDetached) /\ ~T2[t].inScope
  <2>1. IsLeft(T1, t, B, T2[t])
    BY <1>4, <1>5, <1>10, ReapedOtherIs
  <2>2. T1[t].parent \notin B
    BY <1>2, <1>7 DEF Brood
  <2>3. T2[t].parent = T[t].parent /\ (T2[t].isDetached <=> T[t].isDetached)
    BY <1>7, <2>1, <2>2 DEF IsLeft
  <2>4. T2[t].children = {}
    <3>1. T2[t].children = T[t].children \ {d \in B : T1[d].parent = t /\ ~T1[d].isDetached}
      BY <1>7, <2>1 DEF IsLeft
    <3>2. \A d \in T[t].children : d \in B /\ T1[d].parent = t /\ ~T1[d].isDetached
      BY <1>2, <1>7 DEF Brood, Tree
    <3> QED
      BY <3>1, <3>2
  <2>5. T2[t].detached = T[t].detached
    <3>1. T2[t].detached = T[t].detached \ {d \in B : T1[d].parent = t /\ T1[d].isDetached}
      BY <1>7, <2>1 DEF IsLeft
    <3>2. \A d \in B : ~T1[d].isDetached
      BY <1>2, <1>7 DEF Brood
    <3> QED
      BY <3>1, <3>2
  <2>6. /\ T2[t].live = T1[t].live /\ T2[t].ended = T1[t].ended /\ T2[t].pc = T1[t].pc
        /\ T2[t].joining = T1[t].joining /\ T2[t].scope = T1[t].scope /\ T2[t].inScope = T1[t].inScope
        /\ T2[t].scheduled = T1[t].scheduled /\ T2[t].onEvent = T1[t].onEvent
    BY <2>1 DEF IsLeft
  <2>7. T2[t].live /\ T2[t].ended /\ T2[t].pc = Null /\ ~T2[t].joining /\ T2[t].scope = T[t].scope /\ ~T2[t].inScope
        /\ (T2[t].scheduled <=> T[t].scheduled) /\ (T2[t].onEvent <=> T[t].onEvent)
    BY <1>7, <2>6
  <2> QED
    BY <2>3, <2>4, <2>5, <2>7 DEF Stopping
<1>14. ASSUME NEW u \in Thread \ (B \cup {t})
       PROVE  Stays(T[u], T2[u], B, B) /\ Same(T[u], T2[u]) /\ T2[u].children = T[u].children
  <2>1. T[u] \in ThreadRecord /\ FieldsOf(T[u]) /\ T1[u] = T[u] /\ u \in Thread
    BY <1>1, <1>8, <1>14 DEF Fields
  <2>2. Stays(T[u], T1[u], {}, {})
    BY <2>1, SameStays
  <2>3. Losing(T1, u, B)
    <3>1. \A d \in B : T1[d].parent = T[d].parent /\ (T1[d].isDetached <=> T[d].isDetached)
      BY <1>7
    <3>2. SameLinks(T[u], T1[u])
      BY <2>1 DEF SameLinks
    <3>3. T[u].parent \in B => T[u].isDetached
      <4> SUFFICES ASSUME T[u].parent \in B, ~T[u].isDetached PROVE FALSE
        OBVIOUS
      <4>1. T[u].parent # Nobody
        BY <1>5, Addresses
      <4>2. u \in T[T[u].parent].children
        BY <2>1, <4>1 DEF Tree
      <4> QED
        BY <1>2, <1>14, <4>2 DEF Brood
    <3> QED
      BY <1>1, <1>4, <1>5, <2>1, <3>1, <3>2, <3>3, TreeLosing
  <2>4. Stays(T[u], ReapedOther(T1, u, B), {} \cup B, {} \cup B) /\ Same(T1[u], ReapedOther(T1, u, B))
    <3>1. {} \in SUBSET Thread /\ ({} = {} \/ {} = {} \cup B)
      OBVIOUS
    <3> QED
      BY <1>4, <1>5, <2>1, <2>2, <2>3, <3>1, StaysReaped
  <2>5. {} \cup B = B
    OBVIOUS
  <2>6. T2[u] = ReapedOther(T1, u, B)
    BY <1>10, <1>14
  <2>7. Stays(T[u], T2[u], B, B) /\ Same(T[u], T2[u])
    BY <2>1, <2>4, <2>5, <2>6
  <2>8. T[u].children \cap B = {}
    <3> SUFFICES ASSUME NEW c \in T[u].children, c \in B PROVE FALSE
      OBVIOUS
    <3>1. T[c].parent = u
      BY <2>1 DEF Tree
    <3> QED
      BY <1>2, <1>14, <3>1 DEF Brood
  <2>9. T2[u].children = T[u].children \ B
    BY <2>7 DEF Stays
  <2> QED
    BY <2>7, <2>8, <2>9
<1>15. IsBroken(T, T2, t, B)
  BY <1>11, <1>12, <1>13, <1>14 DEF IsBroken
<1> QED
  BY <1>10, <1>15 DEF T2, s, B

(* What is left of the threads when do_disable reaps t itself: T2 are the       *)
(* threads when the descendants are reaped, T1 when the parent is woken up, too *)
MayReap(T, T2, T1, t, B) ==
    /\ T1 \in Table /\ T1[t] = T2[t] /\ \A u \in B : T1[u] = T2[u]
    /\ \A u \in Thread \ (B \cup {t}) : Stays(T[u], T1[u], B, B) /\ SameLinks(T2[u], T1[u])

(* It may be reaped. *)
LEMMA BrokenReapable ==
    ASSUME NEW T \in Table, Tree(T), NEW t \in Thread, NEW B, Brood(T, t, B), T[t].live,
           NEW T2, IsBroken(T, T2, t, B), NEW T1, MayReap(T, T2, T1, t, B),
           Going(T[t]) \/ T[t].detached = {}
    PROVE  Reapable(T1, {t})
<1>1. /\ T1[t].children = {} /\ T1[t].detached = T[t].detached /\ T1[t].parent = T[t].parent
      /\ (T1[t].isDetached <=> T[t].isDetached)
  BY DEF IsBroken, MayReap
<1>2. ASSUME NEW c \in T1[t].detached PROVE T1[c].parent = t /\ T1[c].isDetached
  <2>1. c \in T[t].detached /\ Going(T[t])
    BY <1>1, <1>2
  <2>2. c \in Thread /\ T[c].parent = t /\ T[c].isDetached
    BY <2>1, Record DEF Tree
  <2>3. c \in Thread \ (B \cup {t}) /\ t \notin B
    BY <2>2 DEF Brood
  <2>4. Stays(T[c], T1[c], B, B)
    BY <2>3 DEF MayReap
  <2> QED
    BY <2>2, <2>3, <2>4 DEF Stays
<1>3. ASSUME T1[t].parent # Nobody
      PROVE  t \in IF T1[t].isDetached THEN T1[T1[t].parent].detached ELSE T1[T1[t].parent].children
  <2> DEFINE p == T[t].parent
  <2>1. /\ p \in Thread /\ Going(T[p])
        /\ (T[t].isDetached => t \in T[p].detached) /\ (~T[t].isDetached => t \in T[p].children)
    BY <1>1, <1>3, ParentIs
  <2>2. p \in Thread \ (B \cup {t}) /\ t \notin B
    BY <2>1 DEF Brood
  <2> HIDE DEF p
  <2>3. Stays(T[p], T1[p], B, B)
    BY <2>2 DEF MayReap
  <2>4. T1[p].children = T[p].children \ B /\ T1[p].detached = T[p].detached \ B
    BY <2>1, <2>3 DEF Stays
  <2>5. T1[t].parent = p
    BY <1>1 DEF p
  <2> QED
    BY <1>1, <2>1, <2>2, <2>4, <2>5
<1> QED
  BY <1>1, <1>2, <1>3 DEF Reapable

(* Then the thread and its descendants are gone. *)
BroodGone(T, T1, T3, t, B) ==
    /\ MayCut(T, B \cup {t}, {}) /\ Cut(T, T3, B \cup {t}, {})
    /\ \A u \in Thread \ (B \cup {t}) :
          Same(T1[u], T3[u]) /\ T3[u].children = T[u].children \ {t}

(* This is what comes of it. *)
LEMMA BrokenReaped ==
    ASSUME NEW T \in Table, Fields(T), Tree(T), NEW t \in Thread, NEW B, Brood(T, t, B), T[t].live,
           NEW T2, IsBroken(T, T2, t, B), NEW T1, MayReap(T, T2, T1, t, B),
           NEW T3 \in Table, Reaps(T1, T3, {t})
    PROVE  BroodGone(T, T1, T3, t, B)
<1>1. /\ B \in SUBSET Thread /\ t \notin B /\ {t} \in SUBSET Thread /\ B \cap {t} = {} /\ T2 \in Table
      /\ T1 \in Table
  BY DEF Brood, IsBroken, MayReap
<1>2. \A u \in B : Gone(T[u], T1[u])
  BY DEF IsBroken, MayReap
<1>3. /\ T1[t] = T2[t] /\ Stopping(T[t], T1[t], {}) /\ T1[t].children = {} /\ T1[t].detached = T[t].detached
      /\ T1[t].parent = T[t].parent /\ (T1[t].isDetached <=> T[t].isDetached)
  BY DEF IsBroken, MayReap
<1>4. \A u \in {t} : Stopping(T[u], T1[u], {t})
  BY <1>3 DEF Stopping
<1>5. ASSUME NEW u \in Thread \ (B \cup {t})
      PROVE  Stays(T[u], T1[u], B, B) /\ Losing(T1, u, {t})
  <2>1. /\ Stays(T[u], T1[u], B, B) /\ SameLinks(T2[u], T1[u]) /\ T2[u].children = T[u].children /\ u \in Thread
        /\ Stays(T[u], T2[u], B, B)
    BY <1>5 DEF MayReap, IsBroken
  <2>2. t \in T1[u].children => T1[t].parent = u /\ ~T1[t].isDetached
    <3> SUFFICES ASSUME t \in T[u].children PROVE T1[t].parent = u /\ ~T1[t].isDetached
      BY <2>1 DEF SameLinks
    <3> QED
      BY <1>3, <2>1 DEF Tree
  <2>3. t \in T1[u].detached /\ Going(T1[u]) => T1[t].parent = u /\ T1[t].isDetached
    <3> SUFFICES ASSUME t \in T1[u].detached, Going(T1[u]) PROVE T1[t].parent = u /\ T1[t].isDetached
      OBVIOUS
    <3>1. Going(T[u]) /\ t \in T[u].detached
      BY <2>1 DEF Stays, Going
    <3> QED
      BY <1>3, <2>1, <3>1 DEF Tree
  <2>4. T1[u].parent = t => T1[u].isDetached
    <3> SUFFICES ASSUME T1[u].parent = t, ~T1[u].isDetached PROVE FALSE
      OBVIOUS
    <3>1. t # Nobody
      BY Addresses
    <3>2. T[u].parent = t /\ ~T[u].isDetached
      BY <1>1, <2>1, <3>1 DEF Stays
    <3>3. u \in T[t].children
      BY <2>1, <3>1, <3>2 DEF Tree
    <3> QED
      BY <1>5, <3>3 DEF Brood
  <2>5. Losing(T1, u, {t})
    BY <2>2, <2>3, <2>4 DEF Losing
  <2> QED
    BY <2>1, <2>5
<1>6. Reaping(T, T1, B, B, {t})
  BY <1>2, <1>4, <1>5 DEF Reaping
<1>7. Cut(T, T3, B \cup {t}, {}) /\ \A u \in Thread \ (B \cup {t}) : Same(T1[u], T3[u])
  <2>1. B = B \/ B = B \cup {t}
    OBVIOUS
  <2> QED
    BY <1>1, <1>6, <2>1, ReapCut
<1>8. MayCut(T, B \cup {t}, {})
  <2>1. \A u \in B \cup {t} : T[u].live /\ T[u].children \subseteq B \cup {t}
    BY DEF Brood
  <2> QED
    BY <1>1, <2>1 DEF MayCut
<1>9. ASSUME NEW u \in Thread \ (B \cup {t}) PROVE T3[u].children = T[u].children \ {t}
  <2>1. Stays(T[u], T3[u], B \cup {t}, B \cup {t})
    <3>1. (B \cup {t}) \cup {} = B \cup {t}
      OBVIOUS
    <3>2. u \in Thread \ ((B \cup {t}) \cup {})
      BY <1>9
    <3> QED
      BY <1>7, <3>1, <3>2 DEF Cut
  <2>2. T3[u].children = T[u].children \ (B \cup {t})
    BY <2>1 DEF Stays
  <2>3. T[u].children \cap B = {}
    <3> SUFFICES ASSUME NEW c \in T[u].children, c \in B PROVE FALSE
      OBVIOUS
    <3>1. T[c].parent = u
      BY <1>9 DEF Tree
    <3> QED
      BY <1>9, <3>1 DEF Brood
  <2> QED
    BY <2>2, <2>3
<1> QED
  BY <1>7, <1>8, <1>9 DEF BroodGone

(* What is left of the threads: t and its descendants are out of their scopes   *)
(* and have nothing left to do, the others go on where they are, but for one    *)
(* whose %join is over because a child is.                                      *)
Disabled(T, T3, t, B) ==
    /\ T3 \in Table
    /\ \A u \in B \cup {t} : ~T3[u].inScope /\ (T3[u].live => T3[u].pc = Null)
    /\ \A u \in Thread \ (B \cup {t}) :
          /\ (T3[u].live <=> T[u].live) /\ (T3[u].ended <=> T[u].ended) /\ T3[u].scope = T[u].scope
          /\ (T3[u].inScope <=> T[u].inScope) /\ T3[u].pc = T[u].pc
          /\ T3[u].children \subseteq T[u].children /\ T[u].children \ {t} \subseteq T3[u].children
          /\ T[u].joining /\ ~T3[u].joining => T[u].children \ T3[u].children # {}

(* When they are gone, they are out of their scopes. *)
LEMMA GoneDisabled ==
    ASSUME NEW T \in Table, NEW T2, NEW T1, NEW T3 \in Table, NEW t \in Thread, NEW B, Brood(T, t, B),
           IsBroken(T, T2, t, B), MayReap(T, T2, T1, t, B), BroodGone(T, T1, T3, t, B),
           \A u \in Thread \ (B \cup {t}) :
              T1[u].pc = T2[u].pc /\ (T2[u].joining => T1[u].joining \/ t \in T[u].children)
    PROVE  Disabled(T, T3, t, B)
<1>1. \A u \in B \cup {t} : Gone(T[u], T3[u])
  BY DEF BroodGone, Cut
<1>2. \A u \in B \cup {t} : ~T3[u].inScope /\ (T3[u].live => T3[u].pc = Null)
  BY <1>1, DeletedTyped DEF Gone
<1>3. ASSUME NEW u \in Thread \ (B \cup {t})
      PROVE  /\ (T3[u].live <=> T[u].live) /\ (T3[u].ended <=> T[u].ended) /\ T3[u].scope = T[u].scope
             /\ (T3[u].inScope <=> T[u].inScope) /\ T3[u].pc = T[u].pc
             /\ T3[u].children \subseteq T[u].children /\ T[u].children \ {t} \subseteq T3[u].children
             /\ T[u].joining /\ ~T3[u].joining => T[u].children \ T3[u].children # {}
  <2>1. Stays(T[u], T3[u], B \cup {t}, B \cup {t})
    <3>1. (B \cup {t}) \cup {} = B \cup {t} /\ u \in Thread \ ((B \cup {t}) \cup {})
      BY <1>3
    <3> QED
      BY <3>1 DEF BroodGone, Cut
  <2>2. Same(T1[u], T3[u]) /\ T3[u].children = T[u].children \ {t}
    BY <1>3 DEF BroodGone
  <2>3. Same(T[u], T2[u]) /\ T1[u].pc = T2[u].pc /\ (T2[u].joining => T1[u].joining \/ t \in T[u].children)
    BY <1>3 DEF IsBroken
  <2>4. T[u].joining /\ ~T3[u].joining => t \in T[u].children \ T3[u].children
    BY <2>2, <2>3 DEF Same
  <2> QED
    BY <2>1, <2>2, <2>3, <2>4 DEF Stays, Same
<1> QED
  BY <1>2, <1>3 DEF Disabled

(* What do_disable leaves *)
DisableDone(q, s, t, L, W, R) ==
    /\ s \in State /\ s.failed = {} /\ Sound(s.thread, s.active, L, W, R, {})
    /\ Disabled(q.thread, s.thread, t, Offspring(q.thread, t))

(* What it begins with *)
DisableBegun(q, t, L, W, R) ==
    /\ q \in State /\ q.failed = {} /\ Sound(q.thread, q.active, L, W, R, {})
    /\ t \in Thread /\ q.thread[t].inScope

(* What do_disable has done before it looks at the parent of t *)
LEMMA DisableFirstly ==
    ASSUME NEW q, NEW t, NEW L, NEW W, NEW R, DisableBegun(q, t, L, W, R)
    PROVE  LET T == q.thread
               B == Offspring(T, t)
               b == Broken(q, t)
           IN  /\ b \in State /\ b.failed = {} /\ b.active = q.active /\ b.thread \in Table
               /\ IsBroken(T, b.thread, t, B) /\ Brood(T, t, B)
               /\ T \in Table /\ Whole(T) /\ Fields(T) /\ Tree(T) /\ Kids(T) /\ T[t].live
               /\ Going(T[t]) \/ T[t].detached = {}
               /\ T[t].parent = Nobody => Going(T[t])
<1> DEFINE T == q.thread
<1>1. /\ q \in State /\ q.failed = {} /\ t \in Thread /\ T[t].inScope
      /\ Whole(T) /\ Fields(T) /\ Tree(T) /\ Rooted(T) /\ Kids(T) /\ T \in Table
  BY DEF DisableBegun, Sound, Whole
<1>2. FieldsOf(T[t])
  BY <1>1 DEF Fields
<1>3. T[t].live /\ (Going(T[t]) \/ T[t].detached = {}) /\ (T[t].parent = Nobody => Going(T[t]))
  BY <1>1, <1>2, DeletedTyped DEF FieldsOf, Going
<1>4. Brood(T, t, Offspring(T, t))
  BY <1>1, BroodIs
<1>5. /\ Broken(q, t) \in State /\ Broken(q, t).failed = {} /\ Broken(q, t).active = q.active
      /\ IsBroken(T, Broken(q, t).thread, t, Offspring(T, t))
  BY <1>1, <1>3, BrokenDone
<1>6. Broken(q, t).thread \in Table
  BY <1>5, ThreadsOf DEF Table
<1> QED
  BY <1>1, <1>3, <1>4, <1>5, <1>6

(* do_disable, put together *)
LEMMA DoDisableIs ==
    ASSUME NEW q, NEW t
    PROVE  LET b == Broken(q, t)
               p == b.thread[t].parent
           IN  DoDisable(q, t) =
                  IF p = Nobody THEN Reap(b, {t})
                  ELSE IF ~b.thread[p].joining THEN b
                  ELSE Reap(IF b.thread[p].ended THEN [b EXCEPT !.thread[p].joining = FALSE]
                            ELSE WakeJoiner(b, p), {t})
BY DEF DoDisable, Broken, Stopped, StoppedThread

(* A thread without parent is disabled. *)
LEMMA DisableLonely ==
    ASSUME NEW q, NEW t, NEW L, NEW W, NEW R, DisableBegun(q, t, L, W, R), q.thread[t].parent = Nobody
    PROVE  DisableDone(q, DoDisable(q, t), t, L, W, R)
<1> DEFINE T == q.thread
           B == Offspring(T, t)
           b == Broken(q, t)
           T2 == b.thread
           s == Reap(b, {t})
           T3 == s.thread
           D == B \cup {t}
<1>1. /\ b \in State /\ b.failed = {} /\ b.active = q.active /\ T2 \in Table
      /\ IsBroken(T, T2, t, B) /\ Brood(T, t, B)
      /\ T \in Table /\ Whole(T) /\ Fields(T) /\ Tree(T) /\ Kids(T) /\ T[t].live /\ Going(T[t])
  BY DisableFirstly
<1>2. t \in Thread /\ Sound(T, q.active, L, W, R, {})
  BY DEF DisableBegun
<1>3. DoDisable(q, t) = s
  <2>1. T2[t].parent = Nobody
    BY <1>1 DEF IsBroken
  <2> HIDE DEF b
  <2> QED
    BY <2>1, DoDisableIs DEF b
<1> HIDE DEF b, B, T
<1>4. MayReap(T, T2, T2, t, B)
  BY <1>1 DEF MayReap, IsBroken, SameLinks, Stays
<1>5. /\ s \in State /\ s.active = b.active /\ s.failed = {} /\ T3 \in Table /\ Reaps(T2, T3, {t})
  <2>1. Reapable(T2, {t})
    BY <1>1, <1>2, <1>4, BrokenReapable
  <2>2. {t} \in SUBSET Thread
    BY <1>2
  <2> QED
    BY <1>1, <2>1, <2>2, ReapDone
<1> HIDE DEF s
<1>6. BroodGone(T, T2, T3, t, B)
  BY <1>1, <1>2, <1>4, <1>5, BrokenReaped
<1>7. Disabled(T, T3, t, B)
  <2>1. \A u \in Thread \ (B \cup {t}) :
           T2[u].pc = T2[u].pc /\ (T2[u].joining => T2[u].joining \/ t \in T[u].children)
    OBVIOUS
  <2> QED
    BY <1>1, <1>2, <1>4, <1>5, <1>6, <2>1, GoneDisabled
<1>8. SoundCut(T, T3, D, {}, {}, R, R, {}, {})
  <2>1. MayCut(T, D, {}) /\ Cut(T, T3, D, {})
    BY <1>6 DEF BroodGone
  <2>2. Knows(T, D, {}, {})
    BY <1>1 DEF Knows, Brood, T
  <2>3. Unmoved(T, T3, D, {}, {})
    <3> SUFFICES ASSUME NEW u \in Thread \ (B \cup {t}) PROVE Same(T[u], T3[u])
      BY DEF Unmoved
    <3>1. Same(T[u], T2[u]) /\ Same(T2[u], T3[u])
      BY <1>1, <1>6 DEF IsBroken, BroodGone
    <3> QED
      BY <3>1 DEF Same
  <2>4. {} \subseteq {} \cup D \cup {}
    OBVIOUS
  <2> HIDE DEF D
  <2> QED
    BY <1>5, <2>1, <2>2, <2>3, <2>4 DEF SoundCut
<1>9. Sound(T3, q.active, L, W, R, {})
  <2>1. \A p \in {} : (T3[p].scheduled <=> T[p].scheduled) /\ (T3[p].onEvent <=> T[p].onEvent)
    OBVIOUS
  <2> QED
    BY <1>2, <1>8, <2>1, CutSound
<1> QED
  BY <1>1, <1>3, <1>5, <1>7, <1>9 DEF DisableDone, T, B

(* A thread is disabled that its parent has to join, and has not come to do so. *)
LEMMA DisableStays ==
    ASSUME NEW q, NEW t, NEW L, NEW W, NEW R, DisableBegun(q, t, L, W, R), ~Detaching,
           q.thread[t].parent # Nobody, ~q.thread[q.thread[t].parent].joining
    PROVE  DisableDone(q, DoDisable(q, t), t, L, W, R)
<1> DEFINE T == q.thread
           B == Offspring(T, t)
           b == Broken(q, t)
           T2 == b.thread
           p == T[t].parent
<1>1. /\ b \in State /\ b.failed = {} /\ b.active = q.active /\ T2 \in Table
      /\ IsBroken(T, T2, t, B) /\ Brood(T, t, B)
      /\ T \in Table /\ Whole(T) /\ Fields(T) /\ Tree(T) /\ Kids(T) /\ T[t].live
  BY DisableFirstly
<1>2. t \in Thread /\ Sound(T, q.active, L, W, R, {})
  BY DEF DisableBegun
<1>3. \A u \in Thread : T[u].detached = {} /\ ~T[u].isDetached
  BY <1>1 DEF Fields, FieldsOf
<1>4. p \in Thread /\ Going(T[p]) /\ t \in T[p].children /\ KidsOf(T, p)
  BY <1>1, <1>2, <1>3, ParentIs DEF Kids
<1>5. p \in Thread \ (B \cup {t})
  BY <1>1, <1>4 DEF Brood
<1>6. Stays(T[p], T2[p], B, B) /\ Same(T[p], T2[p]) /\ T2[p].children = T[p].children
  BY <1>1, <1>5 DEF IsBroken
<1>7. DoDisable(q, t) = b
  <2>1. T2[t].parent = p /\ p # Nobody /\ ~T2[p].joining
    BY <1>1, <1>6 DEF IsBroken, Same
  <2> HIDE DEF b, p
  <2> QED
    BY <2>1, DoDisableIs DEF b
<1> HIDE DEF b, B, p
<1>8. \A u \in Thread \ (B \cup {t}) :
         Stays(T[u], T2[u], B, B \cup {t}) /\ Same(T[u], T2[u]) /\ T2[u].children = T[u].children
  <2> SUFFICES ASSUME NEW u \in Thread \ (B \cup {t})
        PROVE  Stays(T[u], T2[u], B, B \cup {t}) /\ Same(T[u], T2[u]) /\ T2[u].children = T[u].children
    OBVIOUS
  <2>1. Stays(T[u], T2[u], B, B) /\ Same(T[u], T2[u]) /\ T2[u].children = T[u].children
    BY <1>1 DEF IsBroken
  <2>2. ~T[u].isDetached
    BY <1>3
  <2> QED
    BY <2>1, <2>2 DEF Stays
<1>9. Ends(T[t], T2[t])
  <2>1. T[t].inScope /\ T[t].detached = {}
    BY <1>2, <1>3 DEF DisableBegun
  <2> QED
    BY <1>1, <2>1 DEF IsBroken, Stopping, Ends
<1>10. Cut(T, T2, B, {t})
  BY <1>1, <1>8, <1>9 DEF Cut, IsBroken
<1>11. MayCut(T, B, {t})
  BY <1>1, <1>2, <1>3 DEF MayCut, Brood, T
<1>12. KidsOf(T2, p)
  <2>1. /\ T2[p].pc = T[p].pc /\ T2[p].children = T[p].children /\ T2[p].taskFunc = T[p].taskFunc
        /\ T2[p].detached = {} /\ ~T2[p].joining /\ ~T[p].joining
        /\ (T2[p].waiting <=> T[p].waiting)
    <3>1. T2[p].detached \subseteq T[p].detached /\ T[p].detached = {}
      BY <1>3, <1>4, <1>6 DEF Stays
    <3> QED
      BY <1>6, <3>1 DEF Same, T, p
  <2>2. ToJoin(T2[p]) = ToJoin(T[p])
    BY <2>1 DEF ToJoin
  <2>3. \A c \in T[p].children : T2[c].scope = T[c].scope
    <3> SUFFICES ASSUME NEW c \in T[p].children PROVE T2[c].scope = T[c].scope
      OBVIOUS
    <3>1. c \in Thread /\ T[c].parent = p
      BY <1>1, <1>4, Record DEF Tree
    <3>2. c \notin B
      BY <1>1, <1>5, <3>1 DEF Brood
    <3>3. CASE c = t
      BY <1>1, <3>3 DEF IsBroken, Stopping
    <3>4. CASE c # t
      BY <1>8, <3>1, <3>2, <3>4 DEF Stays
    <3> QED
      BY <3>3, <3>4
  <2>4. T[p].taskFunc \subseteq T[p].children /\ ~T[p].waiting
    BY <1>3, <1>4 DEF KidsOf
  <2> QED
    BY <1>4, <2>1, <2>2, <2>3, <2>4 DEF KidsOf
<1>13. SoundCut(T, T2, B, {t}, {p}, R, R, {}, {})
  <2>1. Knows(T, B, {t}, {p})
    BY <1>1 DEF Knows, Brood, p
  <2>2. Unmoved(T, T2, B, {t}, {p})
    BY <1>8 DEF Unmoved
  <2>3. PlaceOf(T2[p], p \in R)
    <3>1. PlaceOf(T[p], p \in R)
      BY <1>2, <1>4 DEF Sound, Placed
    <3> QED
      BY <1>4, <1>6, <3>1 DEF PlaceOf, Same, Stays, Going
  <2>4. {} \subseteq {} \cup B \cup {t}
    OBVIOUS
  <2>5. T[p].scheduled \/ T[p].onEvent => T2[p].scheduled \/ T2[p].onEvent
    BY <1>6 DEF Same
  <2> QED
    BY <1>1, <1>10, <1>11, <1>12, <2>1, <2>2, <2>3, <2>4, <2>5 DEF SoundCut
<1>14. Sound(T2, q.active, L, W, R, {})
  <2>1. \A u \in {p} : (T2[u].scheduled <=> T[u].scheduled) /\ (T2[u].onEvent <=> T[u].onEvent)
    BY <1>6 DEF Same
  <2> QED
    BY <1>2, <1>13, <2>1, CutSound
<1>15. Disabled(T, T2, t, B)
  <2>1. \A u \in B \cup {t} : ~T2[u].inScope /\ (T2[u].live => T2[u].pc = Null)
    BY <1>1, DeletedTyped DEF IsBroken, Gone, Stopping
  <2> QED
    BY <1>1, <1>8, <2>1 DEF Disabled, Stays, Same
<1> QED
  BY <1>1, <1>7, <1>14, <1>15 DEF DisableDone, T, B

(* A parent in a %join is woken up. *)
WokenUp(x) == [x EXCEPT !.joining = FALSE, !.scheduled = TRUE]

(* It stays where it is in the tree. *)
LEMMA WakingStays ==
    ASSUME NEW x \in ThreadRecord, NEW y \in ThreadRecord, Going(x), NEW D, NEW C, Stays(x, y, D, C)
    PROVE  LET w == WokenUp(y)
           IN  /\ w \in ThreadRecord /\ Stays(x, w, D, C) /\ SameLinks(y, w) /\ w.pc = y.pc
               /\ ~w.joining /\ w.scheduled /\ (w.onEvent <=> y.onEvent) /\ (w.waiting <=> y.waiting)
               /\ w.taskFunc = y.taskFunc /\ w.children = y.children /\ w.detached = y.detached
<1> DEFINE w == WokenUp(y)
<1>1. /\ w \in ThreadRecord /\ w.live = y.live /\ w.scope = y.scope /\ w.inScope = y.inScope /\ w.parent = y.parent
      /\ w.children = y.children /\ w.detached = y.detached /\ w.taskFunc = y.taskFunc
      /\ w.joining = FALSE /\ w.isDetached = y.isDetached /\ w.waiting = y.waiting
      /\ w.scheduled = TRUE /\ w.ended = y.ended /\ w.onEvent = y.onEvent /\ w.pc = y.pc
  BY DEF WokenUp, ThreadRecord
<1> HIDE DEF w
<1>2. x.live /\ ~x.ended
  BY DEF Going
<1>3. Stays(x, w, D, C)
  BY <1>1, <1>2 DEF Stays
<1>4. SameLinks(y, w)
  BY <1>1 DEF SameLinks
<1> QED
  BY <1>1, <1>3, <1>4 DEF w

(* What wakes up a parent in a %join changes its record only. *)
LEMMA WakeJoinerDone ==
    ASSUME NEW r \in State, NEW p \in Thread, ~r.thread[p].scheduled
    PROVE  LET s == WakeJoiner(r, p)
           IN  /\ s \in State /\ s.failed = r.failed /\ s.active = <<<<p>>>> \o r.active
               /\ s.thread \in Table /\ s.thread[p] = WokenUp(r.thread[p])
               /\ \A u \in Thread \ {p} : s.thread[u] = r.thread[u]
<1> DEFINE s == WakeJoiner(r, p)
<1>1. IsWoken(r, p, s)
  BY WakeJoinerIs
<1> HIDE DEF s
<1>2. s \in State /\ s.failed = r.failed /\ s.active = <<<<p>>>> \o r.active
  BY <1>1 DEF IsWoken
<1>3. r.thread \in Table /\ s.thread \in Table
  BY <1>2, ThreadsOf DEF Table
<1>4. s.thread = [r.thread EXCEPT ![p].joining = FALSE, ![p].scheduled = TRUE]
  BY <1>1 DEF IsWoken
<1>5. s.thread[p] = WokenUp(r.thread[p])
  BY <1>3, <1>4 DEF Table, WokenUp, ThreadRecord
<1>6. \A u \in Thread \ {p} : s.thread[u] = r.thread[u]
  BY <1>3, <1>4 DEF Table
<1> QED
  BY <1>2, <1>3, <1>5, <1>6 DEF s

(* A thread is disabled that its parent waits for in a %join. *)
LEMMA DisableJoins ==
    ASSUME NEW q, NEW t, NEW L, NEW W, NEW R, DisableBegun(q, t, L, W, R), ~Detaching,
           q.thread[t].scope \in Blocks,
           q.thread[t].parent # Nobody, q.thread[q.thread[t].parent].joining
    PROVE  DisableDone(q, DoDisable(q, t), t, L, W, R)
<1> DEFINE T == q.thread
           B == Offspring(T, t)
           b == Broken(q, t)
           T2 == b.thread
           p == T[t].parent
           w == WakeJoiner(b, p)
           T1 == w.thread
           s == Reap(w, {t})
           T3 == s.thread
           D == B \cup {t}
<1>1. /\ b \in State /\ b.failed = {} /\ b.active = q.active /\ T2 \in Table
      /\ IsBroken(T, T2, t, B) /\ Brood(T, t, B)
      /\ T \in Table /\ Whole(T) /\ Fields(T) /\ Tree(T) /\ Kids(T) /\ T[t].live
      /\ Going(T[t]) \/ T[t].detached = {}
  BY DisableFirstly
<1>2. t \in Thread /\ Sound(T, q.active, L, W, R, {})
  BY DEF DisableBegun
<1>3. \A u \in Thread : T[u].detached = {} /\ ~T[u].isDetached
  BY <1>1 DEF Fields, FieldsOf
<1>4. p \in Thread /\ Going(T[p]) /\ t \in T[p].children /\ KidsOf(T, p) /\ T[p].joining
  BY <1>1, <1>2, <1>3, ParentIs DEF Kids
<1>5. p \in Thread \ (B \cup {t}) /\ p # t
  BY <1>1, <1>4 DEF Brood
<1>6. Stays(T[p], T2[p], B, B) /\ Same(T[p], T2[p]) /\ T2[p].children = T[p].children
  BY <1>1, <1>5 DEF IsBroken
<1>7. PlaceOf(T[p], p \in R) /\ p \notin R /\ ~T[p].scheduled /\ ~T[p].onEvent /\ ~T[p].waiting
  <2>1. PlaceOf(T[p], p \in R)
    BY <1>2, <1>4 DEF Sound, Placed
  <2> QED
    BY <1>4, <2>1 DEF PlaceOf, Going
<1>8. DoDisable(q, t) = s
  <2>1. T2[t].parent = p /\ p # Nobody /\ T2[p].joining /\ ~T2[p].ended
    BY <1>1, <1>4, <1>6 DEF IsBroken, Same, Stays, Going
  <2> HIDE DEF b, p
  <2> QED
    BY <2>1, DoDisableIs DEF b
<1> HIDE DEF b, B, p, T
<1>9. /\ w \in State /\ w.failed = {} /\ w.active = <<<<p>>>> \o q.active
      /\ T1 \in Table /\ T1[p] = WokenUp(T2[p])
      /\ \A u \in Thread \ {p} : T1[u] = T2[u]
  <2>1. ~T2[p].scheduled
    BY <1>6, <1>7 DEF Same
  <2>2. b \in State /\ b.thread = T2 /\ b.failed = {} /\ b.active = q.active /\ p \in Thread
    BY <1>1, <1>4
  <2> HIDE DEF p, T2, b
  <2> QED
    BY <2>1, <2>2, WakeJoinerDone
<1> HIDE DEF w
<1>10. /\ Stays(T[p], T1[p], B, B) /\ SameLinks(T2[p], T1[p]) /\ T1[p].pc = T2[p].pc
       /\ ~T1[p].joining /\ T1[p].scheduled /\ (T1[p].onEvent <=> T2[p].onEvent)
       /\ (T1[p].waiting <=> T2[p].waiting) /\ T1[p].taskFunc = T2[p].taskFunc
  <2>1. T[p] \in ThreadRecord /\ T2[p] \in ThreadRecord
    BY <1>1, <1>4, Record
  <2> QED
    BY <1>4, <1>6, <1>9, <2>1, WakingStays
<1>11. MayReap(T, T2, T1, t, B)
  <2>1. B \subseteq Thread
    BY <1>1 DEF Brood
  <2>2. T1[t] = T2[t] /\ \A u \in B : T1[u] = T2[u]
    BY <1>2, <1>5, <1>9, <2>1
  <2>3. \A u \in Thread \ (B \cup {t}) : Stays(T[u], T1[u], B, B) /\ SameLinks(T2[u], T1[u])
    <3> SUFFICES ASSUME NEW u \in Thread \ (B \cup {t})
                 PROVE  Stays(T[u], T1[u], B, B) /\ SameLinks(T2[u], T1[u])
      OBVIOUS
    <3>1. CASE u = p
      BY <1>10, <3>1
    <3>2. CASE u # p
      <4>1. T1[u] = T2[u] /\ Stays(T[u], T2[u], B, B)
        BY <1>1, <1>9, <3>2 DEF IsBroken
      <4> QED
        BY <4>1 DEF SameLinks
    <3> QED
      BY <3>1, <3>2
  <2> QED
    BY <1>9, <2>2, <2>3 DEF MayReap
<1>12. /\ s \in State /\ s.active = w.active /\ s.failed = {} /\ T3 \in Table /\ Reaps(T1, T3, {t})
  <2>1. Reapable(T1, {t})
    BY <1>1, <1>2, <1>11, BrokenReapable
  <2>2. {t} \in SUBSET Thread
    BY <1>2
  <2> QED
    BY <1>9, <2>1, <2>2, ReapDone
<1> HIDE DEF s
<1>13. BroodGone(T, T1, T3, t, B)
  BY <1>1, <1>2, <1>11, <1>12, BrokenReaped
<1>14. Disabled(T, T3, t, B)
  <2>1. \A u \in Thread \ (B \cup {t}) :
           T1[u].pc = T2[u].pc /\ (T2[u].joining => T1[u].joining \/ t \in T[u].children)
    BY <1>4, <1>9, <1>10
  <2> HIDE DEF T1, T2, T3, D
  <2> QED
    BY <1>1, <1>2, <1>11, <1>12, <1>13, <2>1, GoneDisabled
<1> HIDE DEF T1
<1>15. Same(T1[p], T3[p]) /\ T3[p].children = T[p].children \ {t} /\ Stays(T[p], T3[p], D, D)
  BY <1>5, <1>13 DEF BroodGone, Cut
<1>16. /\ T3[p].detached = T[p].detached /\ T3[p].taskFunc = T[p].taskFunc \ {t}
       /\ ~T3[p].joining /\ ~T3[p].waiting /\ T3[p].pc = T[p].pc /\ T3[p].scheduled /\ ~T3[p].onEvent
  <2>1. T[p].detached = {} /\ T3[p].detached \subseteq T[p].detached
    BY <1>3, <1>4, <1>15 DEF Stays
  <2>2. T[p].taskFunc = {} /\ {} \ {t} = {}
    <3>1. t \notin T[p].taskFunc
      BY <1>4, FunctionScopes DEF KidsOf, T
    <3> QED
      BY <1>4, <3>1 DEF KidsOf
  <2>3. T3[p].taskFunc = {}
    BY <1>6, <1>10, <1>15, <2>2 DEF Same
  <2> QED
    BY <1>6, <1>7, <1>10, <1>15, <2>1, <2>2, <2>3 DEF Same
<1>17. KidsOf(T3, p)
  <2>1. FieldsOf(T[p])
    BY <1>1, <1>4 DEF Fields
  <2>2. Joins(T[p].pc) \in Nat
    BY Shapes, <2>1 DEF FieldsOf, PcShapes
  <2>3. ToJoin(T3[p]) = Joins(T[p].pc) /\ ToJoin(T[p]) = Joins(T[p].pc) + 1
    BY <1>4, <1>16, <2>2 DEF ToJoin
  <2>4. \A d \in T[p].children \ {t} : T3[d].scope = T[d].scope
    <3> SUFFICES ASSUME NEW d \in T[p].children \ {t} PROVE T3[d].scope = T[d].scope
      OBVIOUS
    <3>1. d \in Thread /\ T[d].parent = p
      BY <1>1, <1>4, Record DEF Tree
    <3>2. d \in Thread \ (B \cup {t})
      BY <1>1, <1>5, <3>1 DEF Brood
    <3> QED
      BY <1>14, <3>2 DEF Disabled
  <2> QED
    BY <1>1, <1>4, <1>12, <1>15, <1>16, <2>2, <2>3, <2>4, KidsLess
<1>18. SoundCut(T, T3, D, {}, {p}, R, R, {}, {})
  <2>1. MayCut(T, D, {}) /\ Cut(T, T3, D, {})
    BY <1>13 DEF BroodGone
  <2>2. Knows(T, D, {}, {p})
    BY <1>1 DEF Knows, Brood, p
  <2>3. Unmoved(T, T3, D, {}, {p})
    <3> SUFFICES ASSUME NEW u \in Thread \ (D \cup {} \cup {p}) PROVE Same(T[u], T3[u])
      BY DEF Unmoved
    <3>1. u \in Thread \ (B \cup {t}) /\ u \in Thread \ {p}
      OBVIOUS
    <3>2. Same(T[u], T2[u]) /\ T1[u] = T2[u] /\ Same(T1[u], T3[u])
      BY <1>1, <1>9, <1>13, <3>1 DEF IsBroken, BroodGone, T1
    <3> QED
      BY <3>2 DEF Same
  <2>4. {} \subseteq {} \cup D \cup {}
    OBVIOUS
  <2>5. PlaceOf(T3[p], p \in R)
    BY <1>7, <1>16 DEF PlaceOf
  <2>6. \A u \in {p} \ {} : T[u].scheduled \/ T[u].onEvent => T3[u].scheduled \/ T3[u].onEvent
    BY <1>7
  <2> HIDE DEF D
  <2> QED
    BY <1>12, <1>17, <2>1, <2>2, <2>3, <2>4, <2>5, <2>6 DEF SoundCut
<1>19. Sound(T3, <<<<p>>>> \o q.active, L, W, R, {})
  <2>1. ~T[p].scheduled /\ T3[p].scheduled /\ (T3[p].onEvent <=> T[p].onEvent)
    BY <1>7, <1>16
  <2> QED
    BY <1>2, <1>4, <1>18, <2>1, CutWoken
<1> QED
  BY <1>1, <1>8, <1>9, <1>12, <1>14, <1>19 DEF DisableDone, T, B

(* do_disable of a thread in a block leaves the threads as they should be. *)
LEMMA DisableOne ==
    ASSUME NEW q, NEW t, NEW L, NEW W, NEW R, DisableBegun(q, t, L, W, R), ~Detaching,
           q.thread[t].scope \in Blocks
    PROVE  DisableDone(q, DoDisable(q, t), t, L, W, R)
BY DisableLonely, DisableStays, DisableJoins

(* What holds while of_DISABLE goes through the threads of a scope *)
Disabling(q) ==
    /\ q \in State /\ q.failed = {} /\ Sound(q.thread, q.active, later, waiters, OnStack, {})
    /\ Len(stack) = 2 => Called(q.thread, stack)

(* A function that disables a block of its own goes on, and so does its caller,  *)
(* unless it runs in that block itself.                                         *)
LEMMA CallSpared ==
    ASSUME NEW K \in Seq(Frame), Len(K) = 2, NEW T \in Table, Tree(T), Families(T), Called(T, K),
           NEW t \in Thread, T[t].scope \in Blocks, InFunction(T[t].scope),
           NEW T3, Brood(T, t, Offspring(T, t)), Disabled(T, T3, t, Offspring(T, t))
    PROVE  Called(T3, K)
<1> DEFINE f == K[1].thr
           c == K[2].thr
           B == Offspring(T, t)
           S == {u \in B : InFunction(T[u].scope)}
<1>1. f \in Thread /\ c \in Thread
  <2>1. 1 \in 1..Len(K) /\ 2 \in 1..Len(K)
    OBVIOUS
  <2>2. K[1] \in Frame /\ K[2] \in Frame
    BY <2>1, ElementOfSeq
  <2> QED
    BY <2>2 DEF Frame
<1>2. /\ K[1].rest = <<>> /\ f # c
      /\ Going(T[f]) /\ T[f].scope \in Functions
      /\ Going(T[c]) /\ T[c].pc = <<"join">> /\ T[c].children = {f} /\ ~InFunction(T[c].scope)
  BY DEF Called
<1> HIDE DEF f, c
<1>3. B \in SUBSET Thread /\ T[t].children \subseteq B /\ \A u \in B : T[u].children \subseteq B
  BY DEF Brood
<1> HIDE DEF B
<1>4. \A u \in B : InFunction(T[u].scope)
  <2>1. S \in SUBSET Thread
    BY <1>3
  <2>2. T[t].children \subseteq S
    BY <1>3 DEF Families
  <2>3. \A u \in S : T[u].children \subseteq S
    BY <1>3 DEF Families
  <2>4. B \subseteq S
    BY <2>1, <2>2, <2>3, OffspringLeast DEF B
  <2> QED
    BY <2>4
<1>5. c \in Thread \ (B \cup {t})
  BY <1>1, <1>2, <1>4
<1>6. f \in Thread \ (B \cup {t})
  <2>1. f # t
    BY <1>2, FunctionScopes
  <2>2. T[f].parent = c
    BY <1>1, <1>2 DEF Tree
  <2>3. \A u \in B : T[u].parent \in B \cup {t}
    BY DEF Brood, B
  <2> QED
    BY <1>1, <1>5, <2>1, <2>2, <2>3
<1>7. /\ (T3[f].live <=> T[f].live) /\ (T3[f].ended <=> T[f].ended) /\ T3[f].scope = T[f].scope
      /\ (T3[c].live <=> T[c].live) /\ (T3[c].ended <=> T[c].ended) /\ T3[c].scope = T[c].scope
      /\ T3[c].pc = T[c].pc
      /\ T3[c].children \subseteq T[c].children /\ T[c].children \ {t} \subseteq T3[c].children
  BY <1>5, <1>6 DEF Disabled, B
<1>8. T3[c].children = {f}
  BY <1>2, <1>6, <1>7
<1> QED
  BY <1>2, <1>7, <1>8 DEF Called, Going, f, c

(* A turn of the loop leaves the threads as they should be. *)
LEMMA ScopeStepKeeps ==
    ASSUME TypeOK, ~Detaching, NEW scope \in Blocks, Len(stack) = 2 => InFunction(scope),
           NEW q, Disabling(q), Inside(q, scope) # {}
    PROVE  LET t == Min(Inside(q, scope))
               s == ScopeStep(q, scope)
           IN  /\ t \in Inside(q, scope) /\ t \in Thread
               /\ Disabling(s) /\ Disabled(q.thread, s.thread, t, Offspring(q.thread, t))
<1> DEFINE t == Min(Inside(q, scope))
           s == ScopeStep(q, scope)
<1>1. t \in Inside(q, scope) /\ t \in Thread
  <2>1. Inside(q, scope) \in SUBSET Thread
    BY DEF Inside
  <2>2. t \in Inside(q, scope)
    BY <2>1, MinIn
  <2> QED
    BY <2>1, <2>2
<1>2. s = DoDisable(q, t)
  BY DEF ScopeStep
<1> HIDE DEF t, s
<1>3. q.thread[t].inScope /\ q.thread[t].scope = scope
  BY <1>1 DEF Inside
<1>4. DisableBegun(q, t, later, waiters, OnStack)
  BY <1>1, <1>3 DEF DisableBegun, Disabling
<1>5. DisableDone(q, s, t, later, waiters, OnStack)
  BY <1>2, <1>3, <1>4, DisableOne
<1>6. Disabled(q.thread, s.thread, t, Offspring(q.thread, t))
  BY <1>5 DEF DisableDone
<1>7. Len(stack) = 2 => Called(s.thread, stack)
  <2> SUFFICES ASSUME Len(stack) = 2 PROVE Called(s.thread, stack)
    OBVIOUS
  <2>1. stack \in Seq(Frame)
    BY DEF TypeOK, Frame
  <2>2. q.thread \in Table /\ Tree(q.thread) /\ Families(q.thread) /\ Rooted(q.thread) /\ Called(q.thread, stack)
    BY DEF Disabling, Sound, Whole
  <2>3. Brood(q.thread, t, Offspring(q.thread, t))
    BY <1>1, <2>2, BroodIs
  <2>4. q.thread[t].scope \in Blocks /\ InFunction(q.thread[t].scope)
    BY <1>3
  <2> QED
    BY <1>1, <1>6, <2>1, <2>2, <2>3, <2>4, CallSpared
<1>8. Disabling(s)
  BY <1>5, <1>7 DEF Disabling, DisableDone
<1> QED
  BY <1>1, <1>6, <1>8 DEF t, s

(* What %disable begins with *)
LEMMA DisableBegins ==
    ASSUME TypeOK, IInv, Regular, NEW scope \in Disablable, Disable(scope)
    PROVE  /\ ~Detaching /\ scope \in Blocks /\ (Len(stack) = 2 => InFunction(scope))
           /\ stack # <<>> /\ Disabling(Now) /\ Statement("disable")
           /\ later' = later /\ waiters' = waiters
<1>1. Statement("disable") /\ later' = later /\ waiters' = waiters
  BY DEF Disable
<1>2. /\ stack # <<>> /\ Now \in State /\ Now.thread = thread /\ Now.active = active /\ Now.failed = {}
      /\ Sound(thread, active, later, waiters, OnStack, {})
  BY <1>1, StatementBegins
<1>3. ~Detaching /\ scope \in Blocks
  BY <1>1 DEF Statement, Regular
<1>4. Len(stack) = 2 => Called(thread, stack)
  BY <1>2, StackIs
<1>5. Len(stack) = 2 => InFunction(scope)
  <2>1. InFunction(thread[self].scope) => Home[scope] = Home[thread[self].scope]
    BY DEF Disable
  <2>2. Len(stack) = 2 => InFunction(thread[self].scope)
    BY <1>2, CallerLives, FunctionScopes
  <2> QED
    BY <2>1, <2>2 DEF InFunction
<1> QED
  BY <1>1, <1>2, <1>3, <1>4, <1>5 DEF Disabling

(* The loop of of_DISABLE leaves the threads as they should be. *)
LEMMA DisableLoop ==
    ASSUME TypeOK, ~Detaching, NEW scope \in Blocks, Len(stack) = 2 => InFunction(scope),
           Disabling(Now), NEW f, ScopeLoop(f, Now, scope)
    PROVE  \A i \in 0..NThreads : Disabling(f[i])
<1> DEFINE Q == {q \in State : Disabling(q)}
<1>1. NThreads \in Nat
  BY ThreadAssumption
<1>2. f[0] \in Q
  BY DEF ScopeLoop, Disabling
<1>3. \A i \in 1..NThreads : f[i - 1] \in Q => f[i] \in Q
  <2> SUFFICES ASSUME NEW i \in 1..NThreads, f[i - 1] \in Q PROVE f[i] \in Q
    OBVIOUS
  <2>1. f[i] = ScopeStep(f[i - 1], scope)
    BY DEF ScopeLoop
  <2>2. Disabling(f[i - 1])
    OBVIOUS
  <2>3. CASE Inside(f[i - 1], scope) = {}
    BY <2>1, <2>3 DEF ScopeStep
  <2>4. CASE Inside(f[i - 1], scope) # {}
    <3>1. Disabling(ScopeStep(f[i - 1], scope))
      BY <2>2, <2>4, ScopeStepKeeps
    <3> QED
      BY <2>1, <3>1 DEF Disabling
  <2> QED
    BY <2>3, <2>4
<1> HIDE DEF Q
<1>4. \A i \in 0..NThreads : f[i] \in Q
  BY <1>1, <1>2, <1>3, IteratedIn
<1> QED
  BY <1>4 DEF Q

(* The threads T are those after the step, but for the one that begins to run. *)
Alike(T) ==
    \A t \in Thread : (thread'[t].joining <=> T[t].joining) /\ (thread'[t].live <=> T[t].live)
                      /\ (thread'[t].ended <=> T[t].ended) /\ thread'[t].children = T[t].children
                      /\ thread'[t].pc = T[t].pc

(* %disable leaves the invariant. *)
LEMMA DisableKeeps ==
    ASSUME TypeOK, IInv, Regular, NEW scope \in Disablable, Disable(scope)
    PROVE  IInv' /\ Alike(DisableScope(Now, scope).thread)
<1> DEFINE r == DisableScope(Now, scope)
<1>1. /\ ~Detaching /\ scope \in Blocks /\ (Len(stack) = 2 => InFunction(scope))
      /\ stack # <<>> /\ Disabling(Now) /\ later' = later /\ waiters' = waiters
  BY DisableBegins
<1>2. Disabling(r)
  <2>1. PICK f : ScopeLoop(f, Now, scope)
    BY <1>1, DisableScopeIs DEF Disabling
  <2>2. NThreads \in 0..NThreads
    BY ThreadAssumption
  <2>3. Disabling(f[NThreads])
    BY <1>1, <2>1, <2>2, DisableLoop
  <2> QED
    BY <2>1, <2>3 DEF ScopeLoop
<1>3. IF r.thread[self].live /\ ~r.thread[self].ended THEN Continue(r) ELSE Pause(r)
  BY DEF Disable
<1> HIDE DEF r
<1>4. r \in State /\ r.failed = {} /\ Sound(r.thread, r.active, later', waiters', OnStack, {})
  BY <1>1, <1>2 DEF Disabling
<1>5. /\ stack \in Seq(Frame) /\ self \in Thread /\ self = stack[1].thr
      /\ Len(stack) = 1 \/ Len(stack) = 2
      /\ Len(stack) = 2 => caller \in Thread /\ caller = stack[2].thr /\ Called(r.thread, stack)
  BY <1>1, <1>2, StackIs DEF Disabling, caller
<1>6. Len(stack) = 2 => Going(r.thread[self]) /\ Going(r.thread[caller])
  BY <1>5 DEF Called
<1>7. CASE Going(r.thread[self])
  <2>1. Continue(r)
    BY <1>3, <1>7 DEF Going
  <2>2. Calls(r.thread, stack)
    <3>1. \A i \in DOMAIN stack : i = 1 \/ (i = 2 /\ Len(stack) = 2)
      BY <1>5
    <3>2. \A i \in DOMAIN stack : r.thread[stack[i].thr].live
      BY <1>5, <1>6, <1>7, <3>1 DEF Going
    <3> QED
      BY <1>5, <3>2 DEF Calls
  <2>3. IInv'
    BY <1>1, <1>4, <2>1, <2>2, ContinueStep
  <2>4. thread' = r.thread
    BY <2>1 DEF Continue, Become
  <2> QED
    BY <2>3, <2>4 DEF r, Alike
<1>8. CASE ~Going(r.thread[self])
  <2>1. Pause(r) /\ Len(stack) = 1
    BY <1>3, <1>5, <1>6, <1>8 DEF Going
  <2>2. Sound(r.thread, r.active, later', waiters', OnStack \ {self}, {})
    <3>1. RemainsOf(r.thread[self])
      BY <1>4, <1>5 DEF Sound, Remain
    <3>2. {} \subseteq {self}
      OBVIOUS
    <3> QED
      BY <1>4, <1>5, <1>8, <3>1, <3>2, RunsNoMore
  <2>3. ~(Len(stack) = 2)
    BY <2>1
  <2>4. /\ IInv'
        /\ \A t \in Thread : (thread'[t].joining <=> r.thread[t].joining)
                             /\ (thread'[t].live <=> r.thread[t].live)
                             /\ (thread'[t].ended <=> r.thread[t].ended)
                             /\ thread'[t].children = r.thread[t].children
                             /\ thread'[t].pc = r.thread[t].pc
    BY <1>1, <1>4, <2>1, <2>2, <2>3, PauseStep
  <2> QED
    BY <2>4 DEF r, Alike
<1> QED
  BY <1>7, <1>8

(* What holds while of_DISABLE_FORK goes through the detached children *)
ForkDisabling(q) ==
    /\ q \in State /\ q.failed = {} /\ Sound(q.thread, q.active, later, waiters, OnStack, {})
    /\ Ready(q.thread[self])
    /\ \A u \in Thread : thread[u].joining /\ Going(q.thread[u]) => q.thread[u].joining

(* A thread that stays is as ready as before. *)
LEMMA ReadyStays ==
    ASSUME NEW x, NEW y, NEW D, NEW C, Ready(x), Stays(x, y, D, C), Same(x, y)
    PROVE  Ready(y)
<1>1. /\ x.live /\ ~x.ended /\ x.pc = <<>> /\ x.children = {} /\ x.taskFunc = {}
      /\ ~x.joining /\ ~x.waiting /\ ~x.scheduled /\ ~x.onEvent
  BY DEF Ready, Going
<1>2. y.children = {} \ D /\ (y.live <=> x.live) /\ (y.ended <=> x.ended)
  BY <1>1 DEF Stays
<1>3. y.pc = <<>> /\ y.taskFunc = {} /\ ~y.joining /\ ~y.waiting /\ ~y.scheduled /\ ~y.onEvent
  BY <1>1 DEF Same
<1> QED
  BY <1>1, <1>2, <1>3 DEF Ready, Going

(* A turn of the loop of of_DISABLE_FORK: a detached child goes. *)
LEMMA ForkStepKeeps ==
    ASSUME self \in Thread, self \in OnStack, NEW q, ForkDisabling(q)
    PROVE  ForkDisabling(ForkStep(q, self))
<1> DEFINE T == q.thread
           d == Min(T[self].detached)
           B == Offspring(T, d)
           b == Broken(q, d)
           T2 == b.thread
           s == Reap(b, {d})
           T3 == s.thread
           D == B \cup {d}
<1>1. /\ q \in State /\ q.failed = {} /\ Sound(T, q.active, later, waiters, OnStack, {})
      /\ Ready(T[self]) /\ Going(T[self])
      /\ T \in Table /\ Whole(T) /\ Fields(T) /\ Tree(T) /\ Rooted(T) /\ Kids(T)
  BY DEF ForkDisabling, Sound, Whole, Ready
<1>2. CASE T[self].detached = {}
  BY <1>2 DEF ForkStep
<1>3. CASE T[self].detached # {}
  <2>1. d \in T[self].detached /\ d \in Thread
    <3>1. T[self].detached \in SUBSET Thread
      BY <1>1, Record
    <3>2. d \in T[self].detached
      BY <1>3, <3>1, MinIn
    <3> QED
      BY <3>1, <3>2
  <2>2. ForkStep(q, self) = Reap(DoDisable(q, d), {d})
    BY <1>3 DEF ForkStep
  <2> HIDE DEF d, T
  <2>3. T[d].live /\ T[d].parent = self /\ T[d].isDetached /\ Going(T[d])
    BY <1>1, <2>1 DEF Tree, Going
  <2>4. Brood(T, d, B)
    BY <1>1, <2>1, BroodIs
  <2>5. b \in State /\ b.failed = {} /\ b.active = q.active /\ IsBroken(T, T2, d, B)
    BY <1>1, <2>1, <2>3, BrokenDone DEF T
  <2>6. T2 \in Table
    BY <2>5, ThreadsOf DEF Table
  <2>7. self \in Thread \ (B \cup {d})
    BY <2>3, <2>4 DEF Brood
  <2>8. Stays(T[self], T2[self], B, B) /\ Same(T[self], T2[self])
    BY <2>5, <2>7 DEF IsBroken
  <2>9. DoDisable(q, d) = b
    <3>1. T2[d].parent = self /\ self # Nobody /\ ~T2[self].joining
      BY <1>1, <2>3, <2>5, <2>8, Addresses DEF IsBroken, Same, Ready
    <3> HIDE DEF b
    <3> QED
      BY <3>1, DoDisableIs DEF b
  <2> HIDE DEF b, B
  <2>10. MayReap(T, T2, T2, d, B)
    BY <2>5, <2>6 DEF MayReap, IsBroken, SameLinks, Stays
  <2>11. /\ s \in State /\ s.active = b.active /\ s.failed = {} /\ T3 \in Table /\ Reaps(T2, T3, {d})
    <3>1. Reapable(T2, {d})
      BY <1>1, <2>1, <2>3, <2>4, <2>5, <2>10, BrokenReapable
    <3>2. {d} \in SUBSET Thread
      BY <2>1
    <3> QED
      BY <2>5, <3>1, <3>2, ReapDone
  <2> HIDE DEF s
  <2>12. BroodGone(T, T2, T3, d, B)
    BY <1>1, <2>1, <2>3, <2>4, <2>5, <2>10, <2>11, BrokenReaped
  <2>13. Stays(T[self], T3[self], D, D) /\ Same(T[self], T3[self])
    <3>1. Stays(T[self], T3[self], D, D \cup {}) /\ Same(T2[self], T3[self])
      BY <2>7, <2>12 DEF BroodGone, Cut
    <3> QED
      BY <2>8, <3>1 DEF Same
  <2>14. Ready(T3[self])
    BY <1>1, <2>13, ReadyStays
  <2>15. KidsOf(T3, self)
    <3>1. Cardinality({}) = 0
      BY FS_EmptySet
    <3>2. ToJoin(T3[self]) = 0 /\ ~Detaches(T3[self].pc)
      BY <2>14, Shapes DEF Ready, ToJoin
    <3> QED
      BY <2>14, <3>1, <3>2 DEF KidsOf, Ready
  <2>16. SoundCut(T, T3, D, {}, {self}, OnStack, OnStack, {}, {})
    <3>1. MayCut(T, D, {}) /\ Cut(T, T3, D, {})
      BY <2>12 DEF BroodGone
    <3>2. Knows(T, D, {}, {self})
      BY <2>3, <2>4 DEF Knows, Brood
    <3>3. Unmoved(T, T3, D, {}, {self})
      <4> SUFFICES ASSUME NEW u \in Thread \ (B \cup {d}) PROVE Same(T[u], T3[u])
        BY DEF Unmoved
      <4>1. Same(T[u], T2[u]) /\ Same(T2[u], T3[u])
        BY <2>5, <2>12 DEF IsBroken, BroodGone
      <4> QED
        BY <4>1 DEF Same
    <3>4. {} \subseteq {} \cup D \cup {}
      OBVIOUS
    <3>5. PlaceOf(T3[self], self \in OnStack)
      BY <2>14 DEF PlaceOf, Ready
    <3>6. T[self].scheduled \/ T[self].onEvent => T3[self].scheduled \/ T3[self].onEvent
      BY <1>1 DEF Ready
    <3> HIDE DEF D
    <3> QED
      BY <2>11, <2>15, <3>1, <3>2, <3>3, <3>4, <3>5, <3>6 DEF SoundCut
  <2>17. Sound(T3, q.active, later, waiters, OnStack, {})
    <3>1. \A u \in {self} : (T3[u].scheduled <=> T[u].scheduled) /\ (T3[u].onEvent <=> T[u].onEvent)
      BY <2>13 DEF Same
    <3> QED
      BY <1>1, <2>16, <3>1, CutSound
  <2>18. \A u \in Thread : thread[u].joining /\ Going(T3[u]) => T3[u].joining
    <3> SUFFICES ASSUME NEW u \in Thread, thread[u].joining, Going(T3[u]) PROVE T3[u].joining
      OBVIOUS
    <3>1. u \notin D
      <4>1. u \in D => Gone(T[u], T3[u])
        BY <2>12 DEF BroodGone, Cut
      <4> QED
        BY <4>1, DeletedTyped DEF Gone, Going
    <3>2. Stays(T[u], T3[u], D, D \cup {}) /\ Same(T[u], T2[u]) /\ Same(T2[u], T3[u])
      BY <2>5, <2>12, <3>1 DEF BroodGone, Cut, IsBroken
    <3>3. Going(T[u])
      BY <3>2 DEF Stays, Going
    <3>4. T[u].joining
      BY <3>3 DEF ForkDisabling, T
    <3> QED
      BY <3>2, <3>4 DEF Same
  <2> QED
    BY <2>2, <2>5, <2>9, <2>11, <2>14, <2>17, <2>18 DEF ForkDisabling, s, b
<1> QED
  BY <1>2, <1>3

(* %disable/fork leaves the invariant. *)
LEMMA DisableForkKeeps ==
    ASSUME TypeOK, IInv, Regular, DisableFork
    PROVE  /\ IInv'
           /\ \A u \in Thread : thread[u].joining /\ Going(thread'[u]) => thread'[u].joining
<1>1. Statement("disable_fork")
  BY DEF DisableFork
<1>2. /\ stack # <<>> /\ self \in Thread /\ self \in OnStack /\ Ready(thread[self])
      /\ Now \in State /\ Now.thread = thread /\ Now.active = active /\ Now.failed = {}
      /\ Sound(thread, active, later, waiters, OnStack, {})
  BY <1>1, StatementBegins
<1>3. /\ later' = later /\ waiters' = waiters
      /\ \E f : ForkLoop(f, ForkStart) /\ Continue(f[NThreads])
  BY <1>2, DisableForkIs
<1>4. PICK f : ForkLoop(f, ForkStart) /\ Continue(f[NThreads])
  BY <1>3
<1>5. ForkStart = Now
  BY <1>2 DEF ForkStart, Check, Ready
<1>6. Len(stack) = 1
  <2>1. ~InFunction(thread[self].scope)
    <3>1. "disable_fork" \notin {"event", "block", "disable"}
      OBVIOUS
    <3> QED
      BY <1>1, <3>1, ForkAllowed
  <2>2. Len(stack) = 2 => InFunction(thread[self].scope)
    BY <1>2, CallerLives, FunctionScopes
  <2> QED
    BY <1>2, <2>1, <2>2, StackIs
<1> DEFINE Q == {q \in State : ForkDisabling(q)}
<1>7. NThreads \in Nat /\ NThreads \in 0..NThreads
  BY ThreadAssumption
<1>8. f[0] \in Q
  BY <1>2, <1>4, <1>5 DEF ForkLoop, ForkDisabling
<1>9. \A i \in 1..NThreads : f[i - 1] \in Q => f[i] \in Q
  <2> SUFFICES ASSUME NEW i \in 1..NThreads, f[i - 1] \in Q PROVE f[i] \in Q
    OBVIOUS
  <2>1. f[i] = ForkStep(f[i - 1], self) /\ ForkDisabling(f[i - 1])
    BY <1>4 DEF ForkLoop
  <2>2. ForkDisabling(f[i])
    BY <1>2, <2>1, ForkStepKeeps
  <2> QED
    BY <2>2 DEF ForkDisabling
<1> HIDE DEF Q
<1>10. \A i \in 0..NThreads : f[i] \in Q
  BY <1>7, <1>8, <1>9, IteratedIn
<1>11. ForkDisabling(f[NThreads])
  BY <1>7, <1>10 DEF Q
<1> DEFINE r == f[NThreads]
<1> HIDE DEF r
<1>12. Calls(r.thread, stack)
  <2>1. Going(r.thread[self]) /\ self = stack[1].thr /\ stack \in Seq(Frame)
    BY <1>2, <1>11, StackIs DEF r, ForkDisabling, Ready
  <2>2. \A i \in DOMAIN stack : i = 1
    BY <1>6, <2>1
  <2> QED
    BY <1>6, <2>1, <2>2 DEF Calls, Going
<1> QED
  <2>1. /\ r \in State /\ r.failed = {} /\ Continue(r)
        /\ Sound(r.thread, r.active, later', waiters', OnStack, {})
    BY <1>3, <1>4, <1>11 DEF r, ForkDisabling
  <2>2. IInv'
    BY <1>2, <1>12, <2>1, ContinueStep
  <2>3. thread' = r.thread
    BY <2>1 DEF Continue, Become
  <2> QED
    BY <1>11, <2>2, <2>3 DEF ForkDisabling, r

--------------------------------------------------------------------------------
(* The theorems                                                                 *)

(* Every step of a regular program leaves the invariant. *)
LEMMA StepKeeps == Regular /\ TypeOK /\ IInv /\ [Next]_vars => IInv'
<1> SUFFICES ASSUME Regular, TypeOK, IInv, [Next]_vars PROVE IInv'
  OBVIOUS
<1>1. CASE Delay
  BY <1>1, DelayKeeps
<1>2. CASE \E e \in Events : Wait(e) \/ Event(e)
  BY <1>2, WaitKeeps, EventKeeps
<1>3. CASE \E n \in 1..2 : Fork(n)
  BY <1>3, ForkKeeps
<1>4. CASE Block
  BY <1>4, BlockKeeps
<1>5. CASE CallTask
  BY <1>5, CallTaskKeeps
<1>6. CASE CallFunction
  BY <1>6, CallFunctionKeeps
<1>7. CASE \E s \in Disablable : Disable(s)
  BY <1>7, DisableKeeps
<1>8. CASE DisableFork
  BY <1>8, DisableForkKeeps
<1>9. CASE WaitFork
  BY <1>9, WaitForkKeeps
<1>10. CASE Join
  BY <1>10, JoinKeeps
<1>11. CASE JoinDetach
  BY <1>11, JoinDetachKeeps
<1>12. CASE End
  BY <1>12, EndKeeps
<1>13. CASE Zombie
  BY <1>13, ZombieKeeps
<1>14. CASE RunEvent
  BY <1>14, RunEventKeeps
<1>15. CASE NextTime
  BY <1>15, NextTimeKeeps
<1>16. CASE UNCHANGED vars
  BY <1>16 DEF IInv, vars, Others, Rests, OnStack
<1>17. CASE Finished
  BY <1>16, <1>17 DEF Finished
<1> QED
  BY <1>1, <1>2, <1>3, <1>4, <1>5, <1>6, <1>7, <1>8, <1>9, <1>10, <1>11, <1>12, <1>13, <1>14,
     <1>15, <1>16, <1>17 DEF Next

(* The invariant holds in every state of a regular program. *)
LEMMA Invariant ==
    ASSUME Regular
    PROVE  Spec => [](TypeOK /\ IInv)
<1>1. Init => TypeOK /\ IInv
  BY InitTyped, InitHolds
<1>2. TypeOK /\ IInv /\ [Next]_vars => (TypeOK /\ IInv)'
  BY StepTyped, StepKeeps
<1> QED
  BY <1>1, <1>2, PTL DEF Spec

(* No assertion of the thread code fails in any program that is regular: neither *)
(* those of vthread_reap about the links of the threads nor those of the lists   *)
(* and of the opcodes (vthread.cc, every assert of the modelled functions).      *)
THEOREM NoAssertionFails ==
    ASSUME Regular
    PROVE  Spec => []AssertsHold
<1>1. IInv => AssertsHold
  BY DEF IInv, AssertsHold
<1> QED
  BY <1>1, Invariant, PTL

(* A thread that is there is over, with nothing left to do, or goes on. *)
LEMMA LiveIs ==
    ASSUME TypeOK, IInv, NEW t \in Live
    PROVE  /\ t \in Thread /\ thread[t].live /\ FieldsOf(thread[t])
           /\ t \in Alive => Going(thread[t])
           /\ t \notin Alive => thread[t].ended /\ thread[t].pc = Null
           /\ thread \in Table
<1>1. t \in Thread /\ thread[t].live
  BY DEF Live
<1>2. FieldsOf(thread[t])
  BY <1>1 DEF IInv, Whole, Fields
<1>3. thread \in Table
  BY DEF TypeOK, Table
<1> QED
  BY <1>1, <1>2, <1>3 DEF FieldsOf, Alive, Going

(* Parents and children agree about each other in every state, however often     *)
(* threads are reaped, detached and disabled, and a thread that is over leaves   *)
(* no child behind that goes on (vthread_reap, do_disable, of_END, of_JOIN and   *)
(* of_JOIN_DETACH).                                                              *)
THEOREM TreesAgree ==
    ASSUME Regular
    PROVE  Spec => []TreeAgrees
<1>1. TypeOK /\ IInv => TreeAgrees
  <2> SUFFICES ASSUME TypeOK, IInv PROVE TreeAgrees
    OBVIOUS
  <2>1. Tree(thread) /\ thread \in Table
    BY DEF IInv, Whole, TypeOK, Table
  <2>2. ASSUME NEW t \in Live, thread[t].parent # Nobody
        PROVE  /\ thread[t].parent \in Live
               /\ t \in IF thread[t].isDetached THEN thread[thread[t].parent].detached
                                                ELSE thread[thread[t].parent].children
    BY <2>1, <2>2, ParentIs DEF Live, Going
  <2>3. ASSUME NEW t \in Live, NEW c \in thread[t].children
        PROVE  c \in Live /\ thread[c].parent = t /\ ~thread[c].isDetached
    <3>1. t \in Thread
      BY DEF Live
    <3>2. c \in Thread
      BY <2>1, <2>3, <3>1, Record
    <3> QED
      BY <2>1, <3>1, <3>2 DEF Tree, Live
  <2>4. ASSUME NEW t \in Live, ~Orphaned(t), NEW c \in thread[t].detached
        PROVE  c \in Live /\ thread[c].parent = t /\ thread[c].isDetached
    <3>1. t \in Thread /\ thread[t].live /\ FieldsOf(thread[t])
      BY LiveIs
    <3>2. ~thread[t].ended
      BY <2>4, <3>1 DEF FieldsOf, Orphaned
    <3>3. c \in Thread
      BY <2>1, <2>4, <3>1, Record
    <3> QED
      BY <2>1, <3>1, <3>2, <3>3 DEF Tree, Live, Going
  <2>5. ASSUME NEW t \in Live \ Alive PROVE thread[t].children = {}
    BY LiveIs DEF FieldsOf
  <2> QED
    BY <2>2, <2>3, <2>4, <2>5 DEF TreeAgrees
<1> QED
  BY <1>1, Invariant, PTL

(* One of five conditions holds, and no other. *)
LEMMA OneOfFive ==
    ASSUME NEW a \in BOOLEAN, NEW b \in BOOLEAN, NEW c \in BOOLEAN, NEW d \in BOOLEAN, NEW e \in BOOLEAN,
           a \/ b \/ c \/ d \/ e,
           a => ~(b \/ c \/ d \/ e), b => ~(c \/ d \/ e), c => ~(d \/ e), d => ~e
    PROVE  LET places == {<<"running", a>>, <<"scheduled", b>>, <<"event", c>>, <<"join", d>>, <<"fork", e>>}
           IN  \E p \in places : p[2] /\ \A q \in places : q[2] => q = p
<1> DEFINE pa == <<"running", a>>
           pb == <<"scheduled", b>>
           pc == <<"event", c>>
           pd == <<"join", d>>
           pe == <<"fork", e>>
<1>1. (pa[2] <=> a) /\ (pb[2] <=> b) /\ (pc[2] <=> c) /\ (pd[2] <=> d) /\ (pe[2] <=> e)
  OBVIOUS
<1> HIDE DEF pa, pb, pc, pd, pe
<1>2. \E p \in {pa, pb, pc, pd, pe} : p[2] /\ \A q \in {pa, pb, pc, pd, pe} : q[2] => q = p
  BY <1>1
<1> QED
  BY <1>2 DEF pa, pb, pc, pd, pe

(* No thread is ever forgotten: one that can go on runs, waits on one list or    *)
(* sleeps in one %join or %wait/fork; is_scheduled and waiting_for_event tell    *)
(* the truth about the lists, on which no thread is twice (schedule_vthread,     *)
(* vthread_run, vthread_schedule_list, run_waiting_threads_ and vthread_reap).   *)
THEOREM ThreadsKept ==
    ASSUME Regular
    PROVE  Spec => []NoneForgotten
<1>1. TypeOK /\ IInv => NoneForgotten
  <2> SUFFICES ASSUME TypeOK, IInv PROVE NoneForgotten
    OBVIOUS
  <2>1. /\ Fields(thread) /\ Placed(thread, OnStack) /\ Remain(thread, OnStack)
        /\ Distinct(active) /\ Members(active) \cap Others = {}
        /\ Members(active) \cup Others = {t \in Thread : thread[t].scheduled}
        /\ Distinct(waiters) /\ Members(waiters) = {t \in Thread : thread[t].onEvent}
        /\ IsInjective(later) /\ Distinct(Rests) /\ Members(Rests) \cap ToSet(later) = {}
    BY DEF IInv, Whole, Queues, EventLists
  <2>2. \A t \in Thread : ~thread[t].live => ~thread[t].scheduled /\ ~thread[t].onEvent
    BY <2>1, DeletedTyped DEF Fields, FieldsOf
  <2>3. /\ {t \in Thread : thread[t].scheduled} = {t \in Live : thread[t].scheduled}
        /\ {t \in Thread : thread[t].onEvent} = {t \in Live : thread[t].onEvent}
    BY <2>2 DEF Live
  <2>4. /\ Members(active) \cap ToSet(later) = {} /\ Members(active) \cap Members(Rests) = {}
        /\ Members(active) \cup ToSet(later) \cup Members(Rests) = {t \in Live : thread[t].scheduled}
    BY <2>1, <2>3 DEF Others
  <2>5. ASSUME NEW t \in Alive
        PROVE  LET me == thread[t]
                   places == {<<"running", t \in OnStack>>, <<"scheduled", me.scheduled>>,
                              <<"event", me.onEvent>>, <<"join", me.joining>>, <<"fork", me.waiting>>}
               IN  \E p \in places : p[2] /\ \A q \in places : q[2] => q = p
    <3>1. t \in Live /\ t \in Thread /\ thread \in Table /\ Going(thread[t])
      BY LiveIs DEF Alive
    <3>2. /\ (t \in OnStack) \in BOOLEAN /\ thread[t].scheduled \in BOOLEAN /\ thread[t].onEvent \in BOOLEAN
          /\ thread[t].joining \in BOOLEAN /\ thread[t].waiting \in BOOLEAN
      BY <3>1, Record
    <3>3. PlaceOf(thread[t], t \in OnStack)
      BY <2>1, <3>1 DEF Placed
    <3>4. /\ t \in OnStack \/ thread[t].scheduled \/ thread[t].onEvent \/ thread[t].joining \/ thread[t].waiting
          /\ t \in OnStack => ~(thread[t].scheduled \/ thread[t].onEvent \/ thread[t].joining \/ thread[t].waiting)
          /\ thread[t].scheduled => ~(thread[t].onEvent \/ thread[t].joining \/ thread[t].waiting)
          /\ thread[t].onEvent => ~(thread[t].joining \/ thread[t].waiting)
          /\ thread[t].joining => ~thread[t].waiting
      BY <3>1, <3>3 DEF PlaceOf, Going
    <3> DEFINE run == t \in OnStack
    <3>5. run \in BOOLEAN /\ (run \/ thread[t].scheduled \/ thread[t].onEvent \/ thread[t].joining \/ thread[t].waiting)
          /\ (run => ~(thread[t].scheduled \/ thread[t].onEvent \/ thread[t].joining \/ thread[t].waiting))
      BY <3>2, <3>4
    <3>6. run = (t \in OnStack)
      OBVIOUS
    <3> HIDE DEF run
    <3> QED
      BY <3>2, <3>4, <3>5, <3>6, OneOfFive
  <2>6. ASSUME NEW t \in Live \ Alive, thread[t].parent = Nobody
        PROVE  t \in OnStack \/ thread[t].scheduled \/ thread[t].onEvent
    <3>1. t \in Thread /\ thread[t].live /\ thread[t].ended
      BY LiveIs
    <3> QED
      BY <2>1, <2>6, <3>1 DEF Remain, RemainsOf
  <2> QED
    BY <2>1, <2>3, <2>4, <2>5, <2>6 DEF NoneForgotten
<1> QED
  BY <1>1, Invariant, PTL

(* A thread asleep in a %join has a child that is still to end, and whose end    *)
(* wakes it up (of_JOIN, of_END, do_disable).                                    *)
THEOREM JoinersHaveChildren ==
    ASSUME Regular
    PROVE  Spec => []JoinersAreWoken
<1>1. TypeOK /\ IInv => JoinersAreWoken
  <2> SUFFICES ASSUME TypeOK, IInv, NEW t \in Alive, thread[t].joining
               PROVE  \E c \in thread[t].children : ~thread[c].ended /\ Joinable(thread, t, c)
    BY DEF JoinersAreWoken
  <2>1. t \in Thread /\ thread[t].live /\ Going(thread[t])
    BY LiveIs DEF Alive
  <2>2. KidsOf(thread, t)
    BY <2>1 DEF IInv, Kids
  <2>3. thread[t].children # {}
    <3>1. thread[t].joining \in BOOLEAN /\ thread \in Table
      BY <2>1, Record DEF TypeOK, Table
    <3>2. (thread[t].ended => ~thread[t].joining) /\ (thread[t].joining => thread[t].children # {})
      BY <2>1, <3>1, JoinerHas DEF IInv, Whole
    <3> QED
      BY <3>2
  <2> QED
    BY <2>2, <2>3 DEF KidsOf, Joinable
<1> QED
  BY <1>1, Invariant, PTL

(* The joins of a statement *)
LEMMA JoinsCounted ==
    ASSUME NEW pc \in PcShapes
    PROVE  /\ Cardinality({i \in DOMAIN pc : pc[i] = "join"}) = Joins(pc)
           /\ Contains(pc, "detach") <=> Detaches(pc)
<1> DEFINE J == {i \in DOMAIN pc : pc[i] = "join"}
<1>1. Cardinality({}) = 0 /\ Cardinality({1}) = 1 /\ Cardinality({1, 2}) = 2
  <2>1. Cardinality({1} \cup {2}) = Cardinality({1}) + 1 /\ Cardinality({1}) = 1
    <3>1. IsFiniteSet({1}) /\ Cardinality({1}) = 1
      BY FS_Singleton
    <3>3. 2 \notin {1}
      OBVIOUS
    <3>2. Cardinality({1} \cup {2}) = Cardinality({1}) + 1
      BY <3>1, <3>3, FS_AddElement
    <3> QED
      BY <3>1, <3>2
  <2>2. {1} \cup {2} = {1, 2}
    OBVIOUS
  <2> QED
    BY <2>1, <2>2, FS_EmptySet
<1>2. CASE pc = <<>>
  <2>1. J = {}
    BY <1>2
  <2>2. ~Contains(pc, "detach")
    BY <1>2 DEF Contains, ToSet
  <2> QED
    BY <1>1, <1>2, <2>1, <2>2, Shapes
<1>3. CASE pc = <<"join">>
  <2>1. J = {1}
    BY <1>3
  <2>2. ~Contains(pc, "detach")
    BY <1>3 DEF Contains, ToSet
  <2> QED
    BY <1>1, <1>3, <2>1, <2>2, Shapes
<1>4. CASE pc = <<"join", "join">>
  <2>1. J = {1, 2}
    BY <1>4
  <2>2. ~Contains(pc, "detach")
    BY <1>4 DEF Contains, ToSet
  <2> QED
    BY <1>1, <1>4, <2>1, <2>2, Shapes
<1>5. CASE pc = <<"join", "detach">>
  <2>1. J = {1}
    BY <1>5
  <2>2. Contains(pc, "detach")
    BY <1>5 DEF Contains, ToSet
  <2> QED
    BY <1>1, <1>5, <2>1, <2>2, Shapes
<1>6. CASE pc = <<"detach">>
  <2>1. J = {}
    BY <1>6
  <2>2. Contains(pc, "detach")
    BY <1>6 DEF Contains, ToSet
  <2> QED
    BY <1>1, <1>6, <2>1, <2>2, Shapes
<1>7. CASE pc = Null
  <2>1. J = {}
    BY <1>7 DEF Null
  <2>2. ~Contains(pc, "detach")
    BY <1>7 DEF Contains, ToSet, Null
  <2> QED
    BY <1>1, <1>7, <2>1, <2>2, Shapes
<1> QED
  BY <1>2, <1>3, <1>4, <1>5, <1>6, <1>7 DEF PcShapes

(* A statement joins or detaches just the threads it has forked, and leaves no   *)
(* child behind when it is over (of_FORK, of_JOIN, of_JOIN_DETACH, do_disable).  *)
LEMMA MatchingJoins == TypeOK /\ IInv => JoinsMatchChildren
<1> SUFFICES ASSUME TypeOK, IInv, NEW t \in Alive
             PROVE  LET joins == Cardinality({i \in DOMAIN thread[t].pc : thread[t].pc[i] = "join"})
                                   + (IF thread[t].joining THEN 1 ELSE 0)
                    IN  IF Contains(thread[t].pc, "detach")
                        THEN joins < Cardinality(thread[t].children)
                        ELSE joins = Cardinality(thread[t].children)
  BY DEF JoinsMatchChildren
<1>1. t \in Thread /\ FieldsOf(thread[t]) /\ Going(thread[t])
  BY LiveIs DEF Alive
<1>2. KidsOf(thread, t)
  BY <1>1 DEF IInv, Kids
<1>3. /\ Cardinality({i \in DOMAIN thread[t].pc : thread[t].pc[i] = "join"}) = Joins(thread[t].pc)
      /\ Contains(thread[t].pc, "detach") <=> Detaches(thread[t].pc)
  BY <1>1, JoinsCounted DEF FieldsOf
<1> QED
  BY <1>2, <1>3 DEF KidsOf, ToJoin

(* A thread asleep in a %wait/fork has a detached child that is still to end. *)
LEMMA WaitersHaveChildren == TypeOK /\ IInv => WaitersAreWoken
<1> SUFFICES ASSUME TypeOK, IInv, NEW t \in Alive, thread[t].waiting
             PROVE  \E c \in thread[t].detached : ~thread[c].ended
  BY DEF WaitersAreWoken
<1>1. t \in Thread /\ Going(thread[t])
  BY LiveIs DEF Alive
<1>2. thread[t].detached # {}
  BY <1>1 DEF IInv, Kids, KidsOf
<1>3. \A c \in thread[t].detached : ~thread[c].ended
  BY <1>1 DEF IInv, Whole, Tree
<1> QED
  BY <1>2, <1>3

(* The same in every state *)
THEOREM JoinsMatch ==
    ASSUME Regular
    PROVE  Spec => []JoinsMatchChildren
BY MatchingJoins, Invariant, PTL

(* What must hold of every thread does, in the programs that detach children     *)
(* and in those that do not: all of the above, and no thread is left asleep in a *)
(* %wait/fork (of_WAIT_FORK, of_END, of_JOIN_DETACH, of_DISABLE_FORK).           *)
THEOREM ThreadsConsistent ==
    ASSUME Regular
    PROVE  Spec => []Consistent
<1>1. Spec => [](TypeOK /\ IInv)
  BY Invariant
<1>2. Spec => []AssertsHold /\ []TreeAgrees /\ []NoneForgotten
  BY NoAssertionFails, TreesAgree, ThreadsKept
<1>3. AssertsHold /\ TreeAgrees /\ NoneForgotten /\ JoinsMatchChildren /\ WaitersAreWoken => Consistent
  BY DEF Consistent
<1> QED
  BY <1>1, <1>2, <1>3, MatchingJoins, WaitersHaveChildren, PTL

--------------------------------------------------------------------------------
(* What %disable stops                                                          *)

(* the threads of a scope and all below them *)
Hit(T, scope) ==
    LET inside == {t \in Thread : T[t].inScope /\ T[t].scope = scope}
    IN  inside \cup UNION {Offspring(T, t) : t \in inside}

Closed(T, S) == \A u \in S : T[u].children \subseteq S

(* With a thread, its children are among them. *)
LEMMA HitClosed ==
    ASSUME NEW T \in Table, NEW scope
    PROVE  Hit(T, scope) \in SUBSET Thread /\ Closed(T, Hit(T, scope))
<1> DEFINE inside == {t \in Thread : T[t].inScope /\ T[t].scope = scope}
           H == Hit(T, scope)
<1>1. \A t \in inside : Offspring(T, t) \subseteq H /\ Offspring(T, t) \in SUBSET Thread
  BY OffspringTyped DEF Hit
<1>2. H \in SUBSET Thread
  BY OffspringTyped DEF Hit
<1>3. \A u \in H : T[u].children \subseteq H
  <2> SUFFICES ASSUME NEW u \in H PROVE T[u].children \subseteq H
    OBVIOUS
  <2>1. CASE u \in inside
    BY <1>1, <2>1, OffspringClosed
  <2>2. CASE u \notin inside
    <3>1. PICK t \in inside : u \in Offspring(T, t)
      BY <2>2 DEF Hit
    <3>2. T[u].children \subseteq Offspring(T, t)
      BY <3>1, OffspringClosed
    <3> QED
      BY <1>1, <3>2
  <2> QED
    BY <2>1, <2>2
<1> QED
  BY <1>2, <1>3 DEF Closed

(* They are the least such set. *)
LEMMA HitLeast ==
    ASSUME NEW T, NEW scope, NEW S \in SUBSET Thread, Closed(T, S),
           \A t \in Thread : T[t].inScope /\ T[t].scope = scope => t \in S
    PROVE  Hit(T, scope) \subseteq S
<1> DEFINE inside == {t \in Thread : T[t].inScope /\ T[t].scope = scope}
<1>1. \A t \in inside : t \in S /\ Offspring(T, t) \subseteq S
  BY OffspringLeast DEF Closed
<1> QED
  BY <1>1 DEF Hit

(* A thread that has nothing left to do *)
Halted(x) == ~x.live \/ x.pc = Null

(* The threads outside H go on as they were before the %disable. *)
Spared(T0, T, scope, H) ==
    /\ Closed(T, H) /\ \A t \in Thread : T[t].inScope /\ T[t].scope = scope => t \in H
    /\ \A u \in Thread \ H : (T[u].live <=> T0[u].live) /\ T[u].pc = T0[u].pc

(* do_disable of one of the threads spares the threads outside, too. *)
LEMMA SparesOthers ==
    ASSUME NEW T0, NEW T \in Table, NEW T3 \in Table, Fields(T3), NEW scope, NEW H \in SUBSET Thread,
           Spared(T0, T, scope, H), NEW t \in Thread, T[t].inScope, T[t].scope = scope,
           Disabled(T, T3, t, Offspring(T, t))
    PROVE  Spared(T0, T3, scope, H)
<1> DEFINE B == Offspring(T, t)
<1>1. t \in H /\ Closed(T, H)
  BY DEF Spared
<1>2. B \subseteq H
  BY <1>1, OffspringLeast DEF Closed
<1>3. B \subseteq Thread
  BY OffspringTyped
<1> HIDE DEF B
<1>4. /\ \A u \in B \cup {t} : ~T3[u].inScope /\ (T3[u].live => T3[u].pc = Null)
      /\ \A u \in Thread \ (B \cup {t}) :
            /\ (T3[u].live <=> T[u].live) /\ T3[u].scope = T[u].scope
            /\ (T3[u].inScope <=> T[u].inScope) /\ T3[u].pc = T[u].pc /\ T3[u].children \subseteq T[u].children
  BY DEF Disabled, B
<1>5. \A u \in B \cup {t} : T3[u].children = {}
  <2> SUFFICES ASSUME NEW u \in B \cup {t} PROVE T3[u].children = {}
    OBVIOUS
  <2>1. FieldsOf(T3[u]) /\ (T3[u].live => T3[u].pc = Null)
    BY <1>3, <1>4 DEF Fields
  <2> QED
    BY <2>1, DeletedTyped DEF FieldsOf
<1>6. Closed(T3, H)
  BY <1>1, <1>4, <1>5 DEF Closed
<1>7. \A u \in Thread : T3[u].inScope /\ T3[u].scope = scope => u \in H
  BY <1>4 DEF Spared
<1>8. \A u \in Thread \ H : (T3[u].live <=> T0[u].live) /\ T3[u].pc = T0[u].pc
  BY <1>1, <1>2, <1>4 DEF Spared
<1> QED
  BY <1>6, <1>7, <1>8 DEF Spared

(* What it does not stop is still to be hit. *)
LEMMA StillHit ==
    ASSUME NEW T \in Table, NEW T3 \in Table, NEW scope, NEW t \in Thread,
           Disabled(T, T3, t, Offspring(T, t))
    PROVE  \A u \in Thread : /\ u \in Hit(T, scope) => u \in Hit(T3, scope) \/ Halted(T3[u])
                             /\ Halted(T[u]) => Halted(T3[u])
<1> DEFINE B == Offspring(T, t)
           S == Hit(T3, scope) \cup B \cup {t}
<1>1. B \subseteq Thread /\ T[t].children \subseteq B /\ \A c \in B : T[c].children \subseteq B
  BY OffspringTyped, OffspringClosed
<1> HIDE DEF B
<1>2. /\ \A u \in B \cup {t} : Halted(T3[u])
      /\ \A u \in Thread \ (B \cup {t}) :
            /\ (T3[u].live <=> T[u].live) /\ T3[u].scope = T[u].scope
            /\ (T3[u].inScope <=> T[u].inScope) /\ T3[u].pc = T[u].pc
            /\ T[u].children \ {t} \subseteq T3[u].children
  BY DEF Disabled, B, Halted
<1>3. Hit(T3, scope) \in SUBSET Thread /\ Closed(T3, Hit(T3, scope))
  BY HitClosed
<1>4. \A u \in Thread : T3[u].inScope /\ T3[u].scope = scope => u \in Hit(T3, scope)
  BY DEF Hit
<1>5. S \in SUBSET Thread
  BY <1>1, <1>3
<1>6. Closed(T, S)
  <2> SUFFICES ASSUME NEW u \in S PROVE T[u].children \subseteq S
    BY DEF Closed
  <2>1. CASE u \in B \cup {t}
    BY <1>1, <2>1
  <2>2. CASE u \notin B \cup {t}
    <3>1. u \in Thread \ (B \cup {t}) /\ u \in Hit(T3, scope)
      BY <1>3, <2>2
    <3> QED
      BY <1>2, <1>3, <3>1 DEF Closed
  <2> QED
    BY <2>1, <2>2
<1>7. \A u \in Thread : T[u].inScope /\ T[u].scope = scope => u \in S
  BY <1>2, <1>4
<1>8. Hit(T, scope) \subseteq S
  <2> HIDE DEF S
  <2> QED
    BY <1>5, <1>6, <1>7, HitLeast
<1>9. \A u \in Thread : Halted(T[u]) => Halted(T3[u])
  BY <1>2 DEF Halted
<1> QED
  BY <1>2, <1>8, <1>9

(* What holds after i turns of the loop of of_DISABLE: H are the threads to hit *)
Hitting(q, i, scope, H) ==
    /\ Disabling(q) /\ Spared(thread, q.thread, scope, H)
    /\ \A u \in H : u \in Hit(q.thread, scope) \/ Halted(q.thread[u])
    /\ \A u \in Inside(q, scope) : u > i

(* The least thread of a set *)
LEMMA LeastThread ==
    ASSUME NEW S \in SUBSET Thread, S # {}
    PROVE  Min(S) \in S /\ \A u \in S : Min(S) =< u
<1>1. S \subseteq Nat
  BY Addresses
<1>2. \E n \in S : \A m \in S : n =< m
  BY <1>1, LeastNat
<1> QED
  BY <1>2 DEF Min

(* Each turn takes the least thread out of its scope. *)
LEMMA HitStep ==
    ASSUME TypeOK, ~Detaching, NEW scope \in Blocks, Len(stack) = 2 => InFunction(scope),
           NEW H \in SUBSET Thread, NEW i \in Nat, NEW q, Hitting(q, i, scope, H)
    PROVE  Hitting(ScopeStep(q, scope), i + 1, scope, H)
<1> DEFINE s == ScopeStep(q, scope)
           t == Min(Inside(q, scope))
           T == q.thread
           T3 == s.thread
<1>1. /\ Disabling(q) /\ Spared(thread, T, scope, H)
      /\ \A u \in H : u \in Hit(T, scope) \/ Halted(T[u])
      /\ \A u \in Inside(q, scope) : u > i
  BY DEF Hitting
<1>2. CASE Inside(q, scope) = {}
  <2>1. s = q
    BY <1>2 DEF ScopeStep
  <2> HIDE DEF s
  <2> QED
    BY <1>1, <1>2, <2>1 DEF Hitting, s
<1>3. CASE Inside(q, scope) # {}
  <2>1. /\ t \in Inside(q, scope) /\ t \in Thread
        /\ Disabling(s) /\ Disabled(T, T3, t, Offspring(T, t))
    BY <1>1, <1>3, ScopeStepKeeps
  <2>2. \A u \in Inside(q, scope) : t =< u
    <3>1. Inside(q, scope) \in SUBSET Thread
      BY DEF Inside
    <3> QED
      BY <1>3, <3>1, LeastThread
  <2> HIDE DEF s, t
  <2>3. T[t].inScope /\ T[t].scope = scope
    BY <2>1 DEF Inside
  <2>4. T \in Table /\ T3 \in Table /\ Fields(T3)
    BY <1>1, <2>1 DEF Disabling, Sound, Whole
  <2>5. Spared(thread, T3, scope, H)
    BY <1>1, <2>1, <2>3, <2>4, SparesOthers
  <2>6. \A u \in H : u \in Hit(T3, scope) \/ Halted(T3[u])
    <3>1. \A u \in Thread : /\ u \in Hit(T, scope) => u \in Hit(T3, scope) \/ Halted(T3[u])
                            /\ Halted(T[u]) => Halted(T3[u])
      BY <2>1, <2>4, StillHit
    <3> QED
      BY <1>1, <3>1
  <2>7. \A u \in Inside(s, scope) : u > i + 1
    <3> SUFFICES ASSUME NEW u \in Inside(s, scope) PROVE u > i + 1
      OBVIOUS
    <3>1. u \in Thread /\ T3[u].inScope /\ T3[u].scope = scope
      BY DEF Inside
    <3>2. u \in Thread \ (Offspring(T, t) \cup {t}) /\ u # t
      BY <2>1, <3>1 DEF Disabled
    <3>3. u \in Inside(q, scope)
      BY <2>1, <3>1, <3>2 DEF Disabled, Inside
    <3>4. t \in Nat /\ u \in Nat /\ t > i /\ t =< u
      BY <1>1, <2>1, <2>2, <3>1, <3>3, Addresses
    <3> QED
      BY <3>2, <3>4
  <2> QED
    BY <2>1, <2>5, <2>6, <2>7 DEF Hitting, s
<1> QED
  BY <1>2, <1>3

(* Then all of them are stopped, and no others are. *)
LEMMA ScopeStopped ==
    ASSUME TypeOK, IInv, Regular, NEW scope \in Disablable, Disable(scope)
    PROVE  \A u \in Thread :
              /\ u \in Hit(thread, scope) => Halted(DisableScope(Now, scope).thread[u])
              /\ u \notin Hit(thread, scope) =>
                    /\ DisableScope(Now, scope).thread[u].live <=> thread[u].live
                    /\ DisableScope(Now, scope).thread[u].pc = thread[u].pc
<1> DEFINE H == Hit(thread, scope)
           r == DisableScope(Now, scope)
<1>1. /\ ~Detaching /\ scope \in Blocks /\ (Len(stack) = 2 => InFunction(scope)) /\ Disabling(Now)
  BY DisableBegins
<1>2. Now.thread = thread /\ thread \in Table
  BY NowTyped DEF TypeOK, Table
<1>3. H \in SUBSET Thread /\ Closed(thread, H)
  BY <1>2, HitClosed
<1>4. \A t \in Thread : thread[t].inScope /\ thread[t].scope = scope => t \in H
  BY DEF Hit
<1>5. PICK f : ScopeLoop(f, Now, scope)
  BY <1>1, DisableScopeIs DEF Disabling
<1> DEFINE g == [i \in 0..NThreads |-> <<f[i], i>>]
           Q == {p \in State \X Nat : Hitting(p[1], p[2], scope, H)}
<1> HIDE DEF H
<1>6. NThreads \in Nat /\ NThreads \in 0..NThreads /\ 0 \in 0..NThreads
  BY ThreadAssumption
<1>7. g[0] \in Q
  <2>1. f[0] = Now
    BY <1>5 DEF ScopeLoop
  <2>2. Hitting(Now, 0, scope, H)
    <3>1. Spared(thread, thread, scope, H)
      BY <1>3, <1>4 DEF Spared
    <3>2. \A u \in Inside(Now, scope) : u > 0
      BY Addresses DEF Inside, Thread
    <3> QED
      BY <1>1, <1>2, <3>1, <3>2 DEF Hitting, H
  <2> QED
    BY <1>1, <1>6, <2>1, <2>2 DEF Disabling
<1>8. \A i \in 1..NThreads : g[i - 1] \in Q => g[i] \in Q
  <2> SUFFICES ASSUME NEW i \in 1..NThreads, g[i - 1] \in Q PROVE g[i] \in Q
    OBVIOUS
  <2>1. i - 1 \in 0..NThreads /\ i \in 0..NThreads /\ i - 1 \in Nat /\ i \in Nat /\ (i - 1) + 1 = i
    BY <1>6
  <2>2. g[i - 1] = <<f[i - 1], i - 1>> /\ g[i] = <<f[i], i>>
    BY <2>1
  <2>3. Hitting(f[i - 1], i - 1, scope, H)
    BY <2>2
  <2>4. f[i] = ScopeStep(f[i - 1], scope)
    BY <1>5 DEF ScopeLoop
  <2> HIDE DEF g
  <2>5. Hitting(ScopeStep(f[i - 1], scope), (i - 1) + 1, scope, H)
    BY <1>1, <1>3, <2>1, <2>3, HitStep
  <2>6. Hitting(f[i], i, scope, H)
    BY <2>1, <2>4, <2>5
  <2> QED
    BY <2>1, <2>2, <2>6 DEF Hitting, Disabling
<1>9. Hitting(r, NThreads, scope, H)
  <2> HIDE DEF Q
  <2>1. \A i \in 0..NThreads : g[i] \in Q
    <3> HIDE DEF g
    <3> QED
      BY <1>6, <1>7, <1>8, IteratedIn
  <2>2. g[NThreads] = <<r, NThreads>>
    BY <1>5, <1>6 DEF ScopeLoop
  <2> QED
    BY <1>6, <2>1, <2>2 DEF Q
<1> HIDE DEF r
<1>10. Inside(r, scope) = {}
  BY <1>6, <1>9 DEF Hitting, Inside, Thread
<1>11. Hit(r.thread, scope) = {}
  BY <1>10 DEF Hit, Inside
<1> QED
  BY <1>9, <1>11 DEF Hitting, Spared, r, H

(* %disable of a block stops the threads in it and all below them, whatever they *)
(* are doing, and no other thread (of_DISABLE, do_disable).                      *)
THEOREM DisablesStop ==
    ASSUME Regular
    PROVE  Spec => DisableStops
<1> DEFINE Stops == \A s \in Disablable : Disable(s) =>
          LET inside == {t \in Live : thread[t].inScope /\ thread[t].scope = s}
              hit == inside \cup UNION {Offspring(thread, t) : t \in inside}
          IN  \A t \in Alive : (t \in hit) <=> (~thread'[t].live \/ thread'[t].pc = Null)
<1>1. TypeOK /\ IInv => Stops
  <2> SUFFICES ASSUME TypeOK, IInv, NEW s \in Disablable, Disable(s), NEW t \in Alive
               PROVE  LET inside == {u \in Live : thread[u].inScope /\ thread[u].scope = s}
                          hit == inside \cup UNION {Offspring(thread, u) : u \in inside}
                      IN  (t \in hit) <=> (~thread'[t].live \/ thread'[t].pc = Null)
    OBVIOUS
  <2> DEFINE inside == {u \in Live : thread[u].inScope /\ thread[u].scope = s}
             r == DisableScope(Now, s)
  <2>1. inside = {u \in Thread : thread[u].inScope /\ thread[u].scope = s}
    <3>1. \A u \in Thread : thread[u].inScope => thread[u].live
      BY DeletedTyped DEF IInv, Whole, Fields, FieldsOf
    <3> QED
      BY <3>1 DEF Live
  <2>2. inside \cup UNION {Offspring(thread, u) : u \in inside} = Hit(thread, s)
    <3> HIDE DEF inside
    <3> QED
      BY <2>1 DEF Hit
  <2>3. t \in Thread /\ thread[t].live /\ thread[t].pc # Null
    BY DEF Alive, Live
  <2>4. (thread'[t].live <=> r.thread[t].live) /\ thread'[t].pc = r.thread[t].pc
    <3>1. Alike(r.thread)
      BY DisableKeeps
    <3> QED
      BY <2>3, <3>1 DEF Alike
  <2>5. /\ t \in Hit(thread, s) => Halted(r.thread[t])
        /\ t \notin Hit(thread, s) => /\ r.thread[t].live <=> thread[t].live
                                      /\ r.thread[t].pc = thread[t].pc
    BY <2>3, ScopeStopped
  <2> HIDE DEF inside, r
  <2>6. (t \in Hit(thread, s)) <=> (~thread'[t].live \/ thread'[t].pc = Null)
    BY <2>3, <2>4, <2>5 DEF Halted
  <2> QED
    BY <2>2, <2>6 DEF inside
<1>2. TypeOK /\ IInv /\ [Next]_vars => [Stops]_vars
  BY <1>1
<1>3. Spec => [](TypeOK /\ IInv)
  BY Invariant
<1>4. DisableStops <=> [][Stops]_vars
  BY DEF DisableStops
<1> HIDE DEF Stops
<1> QED
  BY <1>2, <1>3, <1>4, PTL DEF Spec

--------------------------------------------------------------------------------
(* What a %join waits for                                                       *)

(* Threads asleep in a %join stay asleep as long as they go on. *)
StillJoins(T, T2) == \A u \in Thread : T[u].joining /\ Going(T2[u]) => T2[u].joining

(* A %join is over only if a child of the thread is gone. *)
Waited(T, T2) ==
    \A u \in Thread : T[u].joining /\ Going(T2[u]) /\ ~T2[u].joining
                         => T[u].children \ T2[u].children # {}

(* An opcode that returns does not change what it has done. *)
LEMMA EndsAlike ==
    ASSUME TypeOK, stack # <<>>, NEW r \in State, Continue(r) \/ Pause(r)
    PROVE  Alike(r.thread)
<1> DEFINE rest == Head(stack).rest
           h == Head(rest)
<1>1. r.thread \in Table
  BY ThreadsOf DEF Table
<1>2. CASE thread' = r.thread
  BY <1>2 DEF Alike
<1>3. CASE Become(Started(r, h)) /\ rest # <<>>
  <2>1. rest \in Seq(Thread)
    BY Caller
  <2> HIDE DEF rest
  <2>2. h \in Thread
    BY <1>3, <2>1
  <2> HIDE DEF h
  <2>3. IsStarted(r, h, Started(r, h))
    BY <2>2, StartedIs
  <2>4. thread' = [r.thread EXCEPT ![h] = [r.thread[h] EXCEPT !.scheduled = FALSE]]
    BY <1>3, <2>3 DEF IsStarted, Become
  <2>5. \A u \in Thread \ {h} : thread'[u] = r.thread[u]
    BY <1>1, <2>4 DEF Table
  <2>6. thread'[h] = [r.thread[h] EXCEPT !.scheduled = FALSE] /\ r.thread[h] \in ThreadRecord
    BY <1>1, <2>2, <2>4 DEF Table
  <2>7. /\ thread'[h].joining = r.thread[h].joining /\ thread'[h].live = r.thread[h].live
        /\ thread'[h].ended = r.thread[h].ended /\ thread'[h].children = r.thread[h].children
        /\ thread'[h].pc = r.thread[h].pc
    BY <2>6 DEF ThreadRecord
  <2> QED
    BY <2>5, <2>7 DEF Alike
<1> QED
  BY <1>2, <1>3 DEF Continue, Pause, Become

(* So it wakes up whom it woke up. *)
LEMMA EndsWaited ==
    ASSUME TypeOK, stack # <<>>, NEW r \in State, Continue(r) \/ Pause(r),
           StillJoins(thread, r.thread) \/ Waited(thread, r.thread)
    PROVE  Waited(thread, thread')
<1>1. Alike(r.thread)
  BY EndsAlike
<1>2. Waited(thread, r.thread)
  BY DEF StillJoins, Waited
<1> QED
  BY <1>1, <1>2 DEF Alike, Waited, Going

(* A thread gets a new value. *)
LEMMA SetJoins ==
    ASSUME NEW T \in Table, NEW p \in Thread, NEW x,
           T[p].joining /\ Going(x) => x.joining
    PROVE  StillJoins(T, [T EXCEPT ![p] = x])
BY DEF StillJoins, Table

(* What vthread_reap leaves: nobody wakes up. *)
LEMMA ReapJoins ==
    ASSUME NEW r \in State, NEW D \in SUBSET Thread, NEW T, StillJoins(T, r.thread)
    PROVE  Reap(r, D) \in State /\ StillJoins(T, Reap(r, D).thread)
<1> DEFINE s == Reap(r, D)
<1>1. IsReaped(r, D, s)
  BY ReapIs
<1> HIDE DEF s
<1>2. r.thread \in Table
  BY ThreadsOf DEF Table
<1>3. ASSUME NEW u \in Thread, T[u].joining, Going(s.thread[u]) PROVE s.thread[u].joining
  <2>1. CASE u \in D
    <3>1. s.thread[u] = ReapedDead(r.thread[u], D) /\ r.thread[u] \in ThreadRecord
      BY <1>1, <1>2, <2>1 DEF IsReaped, Table
    <3>2. Held(r.thread[u])
      BY <1>3, <3>1, DeletedTyped DEF ReapedDead, Going
    <3>3. /\ s.thread[u].joining = r.thread[u].joining /\ s.thread[u].live = r.thread[u].live
          /\ s.thread[u].ended = r.thread[u].ended
      BY <3>1, <3>2 DEF ReapedDead, ThreadRecord
    <3> QED
      BY <1>3, <3>3 DEF StillJoins, Going
  <2>2. CASE u \notin D
    <3>1. s.thread[u] = ReapedOther(r.thread, u, D)
      BY <1>1, <2>2 DEF IsReaped
    <3>2. IsLeft(r.thread, u, D, s.thread[u])
      BY <1>2, <3>1, ReapedOtherIs
    <3>3. /\ s.thread[u].joining = r.thread[u].joining /\ s.thread[u].live = r.thread[u].live
          /\ s.thread[u].ended = r.thread[u].ended
      BY <3>2 DEF IsLeft
    <3> QED
      BY <1>3, <3>3 DEF StillJoins, Going
  <2> QED
    BY <2>1, <2>2
<1>4. s \in State
  BY <1>1 DEF IsReaped
<1> QED
  BY <1>3, <1>4 DEF StillJoins, s

(* %delay, %wait, %event and %wait/fork wake nobody up. *)
LEMMA DelayWaits ==
    ASSUME TypeOK, Delay
    PROVE  Waited(thread, thread')
<1>1. stack # <<>> /\ self \in Thread
  BY StatementIs DEF Delay
<1>2. Now \in State /\ Now.thread = thread /\ thread \in Table /\ thread[self] \in ThreadRecord
  BY <1>1, NowTyped DEF TypeOK, Table
<1>3. CASE Pause(Schedule(Now, <<self>>, FALSE))
  <2> DEFINE s == Schedule(Now, <<self>>, FALSE)
  <2>1. IsScheduled(Now, <<self>>, FALSE, s)
    BY <1>1, <1>2, OneList, ScheduleIs, Zenon
  <2>2. Pause(s)
    BY <1>3
  <2> HIDE DEF s
  <2>3. s \in State /\ s.thread = [t \in Thread |-> [thread[t] EXCEPT !.scheduled = @ \/ Contains(<<self>>, t)]]
    BY <1>2, <2>1 DEF IsScheduled
  <2>4. \A u \in Thread : s.thread[u].joining = thread[u].joining
    BY <1>2, <2>3 DEF Table, ThreadRecord
  <2>5. StillJoins(thread, s.thread)
    BY <2>4 DEF StillJoins
  <2> QED
    BY <1>1, <2>2, <2>3, <2>5, EndsWaited
<1>4. CASE Pause([Now EXCEPT !.thread[self].scheduled = TRUE])
  <2> DEFINE x == [Now.thread[self] EXCEPT !.scheduled = TRUE]
             s == [Now EXCEPT !.thread = [Now.thread EXCEPT ![self] = x]]
  <2>1. x \in ThreadRecord /\ x.joining = thread[self].joining
    BY <1>2 DEF ThreadRecord
  <2>2. s = [Now EXCEPT !.thread[self].scheduled = TRUE]
    OBVIOUS
  <2> HIDE DEF x
  <2>3. IsSet(Now, self, x, s)
    BY <1>1, <1>2, <2>1, SetIs, Zenon
  <2>4. s \in State /\ s.thread = [thread EXCEPT ![self] = x]
    BY <1>2, <2>3 DEF IsSet
  <2>5. Pause(s)
    BY <1>4, <2>2
  <2> HIDE DEF s
  <2>6. StillJoins(thread, s.thread)
    BY <1>1, <1>2, <2>1, <2>4, SetJoins
  <2> QED
    BY <1>1, <2>4, <2>5, <2>6, EndsWaited
<1> QED
  BY <1>3, <1>4 DEF Delay

(* %wait *)
LEMMA WaitWaits ==
    ASSUME TypeOK, NEW e \in Events, Wait(e)
    PROVE  Waited(thread, thread')
<1> DEFINE x == [Now.thread[self] EXCEPT !.onEvent = TRUE]
           q == [Now EXCEPT !.thread = [Now.thread EXCEPT ![self] = x]]
           holds == ~thread[self].onEvent
           s == Check(q, "of_WAIT", holds)
<1>1. /\ Statement("wait")
      /\ Pause(Check([Now EXCEPT !.thread[self].onEvent = TRUE], "of_WAIT", ~thread[self].onEvent))
  BY DEF Wait
<1>2. stack # <<>> /\ self \in Thread
  BY <1>1, StatementIs
<1>3. Now \in State /\ Now.thread = thread /\ thread \in Table /\ thread[self] \in ThreadRecord
  BY <1>2, NowTyped DEF TypeOK, Table
<1>4. x \in ThreadRecord /\ x.joining = thread[self].joining
  BY <1>3 DEF ThreadRecord
<1>5. q = [Now EXCEPT !.thread[self].onEvent = TRUE]
  OBVIOUS
<1> HIDE DEF x
<1>6. IsSet(Now, self, x, q)
  BY <1>2, <1>3, <1>4, SetIs, Zenon
<1>7. Pause(s)
  BY <1>1, <1>5
<1>8. q \in State /\ q.thread = [thread EXCEPT ![self] = x]
  BY <1>3, <1>6 DEF IsSet
<1> HIDE DEF q
<1>9. holds \in BOOLEAN /\ "of_WAIT" \in Asserting
  BY <1>3 DEF ThreadRecord, Asserting
<1>10. s \in State /\ s.thread = q.thread
  <2> HIDE DEF holds
  <2> QED
    BY <1>8, <1>9, CheckIs
<1> HIDE DEF s
<1>11. StillJoins(thread, s.thread)
  BY <1>2, <1>3, <1>4, <1>8, <1>10, SetJoins
<1> QED
  BY <1>2, <1>7, <1>10, <1>11, EndsWaited

(* %event *)
LEMMA EventWaits ==
    ASSUME TypeOK, NEW e \in Events, Event(e)
    PROVE  Waited(thread, thread')
<1> DEFINE list == waiters[e]
           s == RunWaiting(Now, list)
<1>1. Statement("event") /\ Continue(s)
  BY DEF Event
<1>2. stack # <<>> /\ self \in Thread
  BY <1>1, StatementIs
<1>3. list \in Seq(Thread) /\ Now \in State /\ Now.thread = thread /\ thread \in Table
  BY NowTyped DEF TypeOK, Table
<1> HIDE DEF list
<1>4. s \in State /\ StillJoins(thread, s.thread)
  <2>1. CASE list = <<>>
    BY <1>3, <2>1 DEF RunWaiting, StillJoins
  <2>2. CASE list # <<>>
    <3>1. list \in List
      BY <1>3, <2>2 DEF List
    <3>2. IsWokenUp(Now, list, Woken(Now, list))
      BY <1>3, <3>1, WokenIs, Zenon
    <3>3. s = Woken(Now, list)
      BY <2>2 DEF RunWaiting
    <3> HIDE DEF s
    <3>4. /\ s \in State
          /\ \A u \in Thread : s.thread[u] =
                [thread[u] EXCEPT !.onEvent = @ /\ ~Contains(list, u), !.scheduled = @ \/ Contains(list, u)]
      BY <1>3, <3>2, <3>3 DEF IsWokenUp
    <3>5. ASSUME NEW u \in Thread PROVE s.thread[u].joining = thread[u].joining
      <4>1. thread[u] \in ThreadRecord
        BY <1>3 DEF Table
      <4> QED
        BY <3>4, <4>1 DEF ThreadRecord
    <3> QED
      BY <3>4, <3>5 DEF StillJoins
  <2> QED
    BY <2>1, <2>2
<1> HIDE DEF s
<1> QED
  BY <1>1, <1>2, <1>4, EndsWaited

(* %wait/fork *)
LEMMA WaitForkWaits ==
    ASSUME TypeOK, WaitFork
    PROVE  Waited(thread, thread')
<1> DEFINE holds == ~thread[self].joining /\ ~thread[self].waiting /\ thread[self].children = {}
           r == Check(Now, "of_WAIT_FORK", holds)
           x == [r.thread[self] EXCEPT !.waiting = TRUE]
           s == [r EXCEPT !.thread = [r.thread EXCEPT ![self] = x]]
<1>1. /\ Statement("wait_fork")
      /\ Continue(r) \/ Pause([r EXCEPT !.thread[self].waiting = TRUE])
  BY DEF WaitFork
<1>2. stack # <<>> /\ self \in Thread
  BY <1>1, StatementIs
<1>3. r \in State /\ r.thread = thread
  <2>1. Now \in State /\ thread[self] \in ThreadRecord /\ Now.thread = thread
    BY <1>2, NowTyped, ThreadsOf
  <2>2. holds \in BOOLEAN /\ "of_WAIT_FORK" \in Asserting
    BY <2>1 DEF ThreadRecord, Asserting
  <2> HIDE DEF holds
  <2> QED
    BY <2>1, <2>2, CheckIs
<1>4. s = [r EXCEPT !.thread[self].waiting = TRUE]
  OBVIOUS
<1> HIDE DEF r
<1>5. thread \in Table /\ thread[self] \in ThreadRecord
  BY <1>2 DEF TypeOK, Table
<1>6. x \in ThreadRecord /\ x.joining = thread[self].joining
  BY <1>3, <1>5 DEF ThreadRecord
<1> HIDE DEF x
<1>7. IsSet(r, self, x, s)
  BY <1>2, <1>3, <1>6, SetIs, Zenon
<1>8. s \in State /\ s.thread = [thread EXCEPT ![self] = x]
  BY <1>3, <1>7 DEF IsSet
<1>9. Continue(r) \/ Pause(s)
  BY <1>1, <1>4
<1> HIDE DEF s
<1>10. StillJoins(thread, s.thread) /\ StillJoins(thread, r.thread)
  <2>1. StillJoins(thread, s.thread)
    BY <1>2, <1>5, <1>6, <1>8, SetJoins
  <2>2. StillJoins(thread, r.thread)
    BY <1>3 DEF StillJoins
  <2> QED
    BY <2>1, <2>2
<1> QED
  BY <1>2, <1>3, <1>8, <1>9, <1>10, EndsWaited

(* of_FORK changes the forking thread only, and makes new ones. *)
LEMMA ForkedJoins ==
    ASSUME TypeOK, IInv, NEW kind, Statement(kind), NEW n \in 1..2, NEW cs \in New(n),
           NEW scope \in Scope, NEW pc \in Seq(Opcodes)
    PROVE  Forked(Now, cs, scope, pc) \in State /\ StillJoins(thread, Forked(Now, cs, scope, pc).thread)
<1> DEFINE s == Forked(Now, cs, scope, pc)
<1>1. /\ self \in Thread /\ Ready(thread[self]) /\ Now \in State /\ Now.thread = thread
  BY StatementBegins
<1>2. n \in Nat /\ cs \in [1..n -> Thread] /\ \A t \in ToSet(cs) : thread[t] = Deleted
  BY NewThreads
<1>3. IsForked(Now, cs, scope, pc, s)
  BY <1>1, <1>2, ForkedIs, Zenon
<1> HIDE DEF s
<1>4. Forks(Now.thread, s.thread, ToSet(cs), scope, pc)
  <2>1. Ready(Now.thread[self]) /\ \A t \in ToSet(cs) : Now.thread[t] = Deleted
    BY <1>1, <1>2
  <2> QED
    BY <1>1, <1>2, <1>3, <2>1, ForkedThreads
<1>5. StillJoins(thread, s.thread)
  <2>1. ~Deleted.joining
    BY DEF Deleted, NewThread
  <2> QED
    BY <1>1, <1>2, <1>4, <2>1 DEF StillJoins, Forks, Ready
<1>6. s \in State
  BY <1>3 DEF IsForked
<1> QED
  BY <1>5, <1>6 DEF s

(* fork ... join, join_any and join_none wake nobody up. *)
LEMMA ForkWaits ==
    ASSUME TypeOK, IInv, NEW n \in 1..2, Fork(n)
    PROVE  Waited(thread, thread')
<1>1. n \in Nat
  OBVIOUS
<1>2. PICK cs \in New(n), scope \in ForkScopes(n) :
          \/ /\ JoinStatement("join")
             /\ Continue(Forked(Now, cs, scope, [i \in 1..n |-> "join"]))
          \/ /\ JoinStatement("join_any")
             /\ Continue(Forked(Now, cs, scope, IF n = 1 THEN <<"join">> ELSE <<"join", "detach">>))
          \/ /\ Statement("join_none")
             /\ Continue(Forked(Now, cs, scope, <<"detach">>))
  BY DEF Fork
<1>3. PICK kind \in {"join", "join_any", "join_none"}, pc \in Seq(Opcodes) : Statement(kind) /\ Continue(Forked(Now, cs, scope, pc))
  <2>1. (IF n = 1 THEN <<"join">> ELSE <<"join", "detach">>) \in Seq(Opcodes)
    BY AfterFork
  <2>2. JoinStatement("join") => Statement("join")
    BY DEF JoinStatement
  <2>3. JoinStatement("join_any") => Statement("join_any")
    BY DEF JoinStatement
  <2>4. [i \in 1..n |-> "join"] \in Seq(Opcodes) /\ <<"detach">> \in Seq(Opcodes)
    BY <1>1, AfterFork
  <2>5. CASE Statement("join") /\ Continue(Forked(Now, cs, scope, [i \in 1..n |-> "join"]))
    BY <2>4, <2>5, Zenon
  <2>6. CASE /\ Statement("join_any")
             /\ Continue(Forked(Now, cs, scope, IF n = 1 THEN <<"join">> ELSE <<"join", "detach">>))
    BY <2>1, <2>6, Zenon
  <2>7. CASE Statement("join_none") /\ Continue(Forked(Now, cs, scope, <<"detach">>))
    BY <2>4, <2>7, Zenon
  <2> QED
    BY <1>2, <2>2, <2>3, <2>5, <2>6, <2>7, Zenon
<1> DEFINE s == Forked(Now, cs, scope, pc)
<1>4. scope \in Scope
  <2>1. thread[self].scope \in Scope
    BY <1>3, StatementBegins DEF ThreadRecord
  <2> QED
    BY <1>2, <2>1, FunctionScopes DEF ForkScopes
<1>5. s \in State /\ StillJoins(thread, s.thread)
  BY <1>3, <1>4, ForkedJoins, Zenon
<1>6. Continue(s) /\ stack # <<>>
  BY <1>3, StatementBegins
<1> HIDE DEF s
<1> QED
  BY <1>5, <1>6, EndsWaited

(* A named block and a task call wake nobody up. *)
LEMMA BlockWaits ==
    ASSUME TypeOK, IInv, Block \/ CallTask
    PROVE  Waited(thread, thread')
<1>1. PICK kind \in {"block", "task"}, cs \in New(1), b \in Blocks \cup Tasks :
          Statement(kind) /\ Continue(Forked(Now, cs, b, <<"join">>))
  BY Zenon DEF Block, CallTask, JoinStatement
<1> DEFINE s == Forked(Now, cs, b, <<"join">>)
<1>2. b \in Scope /\ <<"join">> \in Seq(Opcodes) /\ 1 \in 1..2
  BY AfterFork DEF Scope
<1>3. s \in State /\ StillJoins(thread, s.thread)
  BY <1>1, <1>2, ForkedJoins, Zenon
<1>4. Continue(s) /\ stack # <<>>
  BY <1>1, StatementBegins
<1> HIDE DEF s
<1> QED
  BY <1>3, <1>4, EndsWaited

(* Nor does a function call. *)
LEMMA CallFunctionWaits ==
    ASSUME TypeOK, IInv, CallFunction
    PROVE  Waited(thread, thread')
<1>1. PICK cs \in New(1), f \in Functions :
          Statement("function") /\ Become(Forked(Now, cs, f, <<"join">>))
  BY DEF CallFunction, JoinStatement
<1> DEFINE s == Forked(Now, cs, f, <<"join">>)
<1>2. f \in Scope /\ <<"join">> \in Seq(Opcodes) /\ 1 \in 1..2
  BY AfterFork DEF Scope
<1>3. s \in State /\ StillJoins(thread, s.thread)
  BY <1>1, <1>2, ForkedJoins, Zenon
<1>4. thread' = s.thread
  BY <1>1 DEF Become
<1> HIDE DEF s
<1> QED
  BY <1>3, <1>4 DEF StillJoins, Waited

(* The thread that executes a %join runs. *)
LEMMA JoinWaked ==
    ASSUME TypeOK, IInv, Join
    PROVE  Waited(thread, thread')
<1> DEFINE x == thread[self]
           w == Stepped(x)
           q == [Now EXCEPT !.thread = [Now.thread EXCEPT ![self] = w]]
           over == {c \in Over(x.children) : Joinable(thread, self, c)}
           holds == ~x.joining /\ x.children # {}
           r == Check(q, "of_JOIN", holds)
           y == [r.thread[self] EXCEPT !.joining = TRUE]
           s == [r EXCEPT !.thread = [r.thread EXCEPT ![self] = y]]
<1>1. /\ Opcode("join")
      /\ IF over # {} THEN Continue(DoJoin(r, self, Min(over))) ELSE Pause(s)
  <2>1. Opcode("join")
    BY DEF Join
  <2>2. thread \in Table /\ self \in Thread /\ Now.thread = thread
    BY <2>1, OpcodeBegins
  <2>3. [Now EXCEPT !.thread[self].pc = Tail(@)] = q
    BY <2>2 DEF Stepped
  <2> HIDE DEF q
  <2>4. [r EXCEPT !.thread[self].joining = TRUE] = s
    OBVIOUS
  <2> HIDE DEF s
  <2> QED
    BY <2>1, <2>3, <2>4 DEF Join
<1>2. /\ self \in Thread /\ thread \in Table /\ x \in ThreadRecord /\ stack # <<>>
      /\ Now \in State /\ Now.thread = thread /\ ~x.joining
  BY <1>1, OpcodeBegins
<1>3. Tail(x.pc) \in Seq(Opcodes)
  BY <1>1, JoinBegins
<1>4. w \in ThreadRecord
  BY <1>2, <1>3 DEF ThreadRecord, Stepped
<1> HIDE DEF w
<1>5. IsSet(Now, self, w, q)
  BY <1>2, <1>4, SetIs, Zenon
<1>6. q \in State /\ q.thread = [thread EXCEPT ![self] = w]
  BY <1>2, <1>5 DEF IsSet
<1> HIDE DEF q
<1>7. r \in State /\ r.thread = q.thread
  <2>1. holds \in BOOLEAN /\ "of_JOIN" \in Asserting
    BY <1>2 DEF ThreadRecord, Asserting
  <2> HIDE DEF holds
  <2> QED
    BY <1>6, <2>1, CheckIs
<1> HIDE DEF r
<1>8. \A u \in Thread \ {self} : r.thread[u] = thread[u]
  BY <1>2, <1>6, <1>7 DEF Table
<1>9. r.thread \in Table /\ r.thread[self] \in ThreadRecord
  BY <1>2, <1>7, ThreadsOf DEF Table
<1>10. CASE over # {}
  <2> DEFINE c == Min(over)
  <2>1. over \in SUBSET Thread
    BY <1>2, Record DEF Over
  <2>2. c \in Thread
    BY <1>10, <2>1, MinIn
  <2> HIDE DEF c, over
  <2>3. PICK p : IsUnlisted(r, self, c, p) /\ DoJoin(r, self, c) = Reap(p, {c})
    BY <1>2, <1>7, <2>2, DoJoinIs
  <2>4. p \in State /\ p.thread = [r.thread EXCEPT ![self].taskFunc = @ \ {c}]
    BY <2>3 DEF IsUnlisted
  <2>5. StillJoins(thread, p.thread)
    <3>1. \A u \in Thread \ {self} : p.thread[u] = thread[u]
      BY <1>8, <1>9, <2>4 DEF Table
    <3> QED
      BY <1>2, <3>1 DEF StillJoins
  <2> DEFINE z == Reap(p, {c})
  <2>6. {c} \in SUBSET Thread
    BY <2>2
  <2>7. z \in State /\ StillJoins(thread, z.thread)
    BY <2>4, <2>5, <2>6, ReapJoins
  <2>8. Continue(z)
    BY <1>1, <1>10, <2>3 DEF c
  <2> HIDE DEF z
  <2> QED
    BY <1>2, <2>7, <2>8, EndsWaited
<1>11. CASE over = {}
  <2>1. y \in ThreadRecord
    BY <1>9 DEF ThreadRecord
  <2>2. Pause(s)
    BY <1>1, <1>11
  <2> HIDE DEF y, over
  <2>3. IsSet(r, self, y, s)
    BY <1>2, <1>7, <2>1, SetIs, Zenon
  <2>4. s \in State /\ s.thread = [r.thread EXCEPT ![self] = y]
    BY <2>3 DEF IsSet
  <2> HIDE DEF s
  <2>5. \A u \in Thread \ {self} : s.thread[u] = thread[u]
    BY <1>8, <1>9, <2>4 DEF Table
  <2>6. StillJoins(thread, s.thread)
    BY <1>2, <2>5 DEF StillJoins
  <2> QED
    BY <1>2, <2>2, <2>4, <2>6, EndsWaited
<1> QED
  BY <1>10, <1>11

(* %join/detach wakes nobody up. *)
LEMMA JoinDetachWaits ==
    ASSUME TypeOK, IInv, JoinDetach
    PROVE  Waited(thread, thread')
<1> DEFINE x == thread[self]
           w == Stepped(x)
           q == [Now EXCEPT !.thread = [Now.thread EXCEPT ![self] = w]]
           D == Over(x.children)
           k == x.children \ D
           holds == x.taskFunc = {} /\ \A c \in x.children : thread[c].parent = self
           r == Check(q, "of_JOIN_DETACH", holds)
           p == Reap(r, D)
           s == Detached(p, k)
<1>0. "detach" # "zombie"
  OBVIOUS
<1>1. Opcode("detach")
  BY DEF JoinDetach
<1>2. /\ self \in Thread /\ thread \in Table /\ x \in ThreadRecord /\ stack # <<>>
      /\ Now \in State /\ Now.thread = thread /\ ~x.joining
  BY <1>0, <1>1, OpcodeBegins
<1>3. Continue(s)
  <2>1. [Now EXCEPT !.thread[self].pc = Tail(@)] = q
    BY <1>2 DEF Stepped
  <2> HIDE DEF q, D
  <2> QED
    BY <2>1 DEF JoinDetach, D
<1>4. w \in ThreadRecord
  <2>1. Tail(x.pc) = <<>> /\ <<>> \in Seq(Opcodes)
    BY <1>1, DetachBegins
  <2> QED
    BY <1>2, <2>1 DEF ThreadRecord, Stepped
<1> HIDE DEF w
<1>5. IsSet(Now, self, w, q)
  BY <1>2, <1>4, SetIs, Zenon
<1>6. q \in State /\ q.thread = [thread EXCEPT ![self] = w]
  BY <1>2, <1>5 DEF IsSet
<1> HIDE DEF q
<1>7. r \in State /\ r.thread = q.thread
  <2>1. holds \in BOOLEAN /\ "of_JOIN_DETACH" \in Asserting
    BY DEF Asserting
  <2> HIDE DEF holds
  <2> QED
    BY <1>6, <2>1, CheckIs
<1> HIDE DEF r
<1>8. StillJoins(thread, r.thread)
  BY <1>2, <1>6, <1>7 DEF Table, StillJoins
<1>9. D \in SUBSET Thread /\ k \in SUBSET Thread
  BY <1>2, Record DEF Over
<1> HIDE DEF D
<1>10. p \in State /\ StillJoins(thread, p.thread)
  BY <1>7, <1>8, <1>9, ReapJoins
<1> HIDE DEF p, k
<1>11. s \in State /\ Moved(p.thread, s.thread, k)
  BY <1>2, <1>9, <1>10, MovedIs
<1> HIDE DEF s
<1>12. StillJoins(thread, s.thread)
  BY <1>10, <1>11 DEF StillJoins, Moved, MovedOne, Going
<1> QED
  BY <1>2, <1>3, <1>11, <1>12, EndsWaited

(* What %end begins with wakes nobody up. *)
LEMMA EndingJoins ==
    ASSUME TypeOK, IInv, End
    PROVE  Ended(Now) \in State /\ StillJoins(thread, Ended(Now).thread)
<1> DEFINE r == Ended(Now)
<1>1. r \in State /\ Ending(thread, r.thread) /\ self \in Thread
  BY EndBegins
<1> HIDE DEF r
<1>2. StillJoins(thread, r.thread)
  BY <1>1 DEF StillJoins, Ending, Same, Going
<1> QED
  BY <1>1, <1>2 DEF r

(* The end of a child wakes up its parent from a %join, and this child is gone. *)
LEMMA EndsJoinWaits ==
    ASSUME TypeOK, IInv, End, thread[self].parent # Nobody, thread[thread[self].parent].joining
    PROVE  LET s == EndsJoin(Ended(Now), thread[self].parent)
           IN  s \in State /\ Waited(thread, s.thread)
<1> DEFINE r == Ended(Now)
           T == thread
           T1 == r.thread
           p == thread[self].parent
<1>1. /\ self \in Thread /\ T \in Table
      /\ r \in State /\ r.failed = {} /\ r.active = active /\ Ending(T, T1)
  BY EndBegins
<1>2. /\ p \in Thread /\ p # self /\ Going(T[p]) /\ T[p] \in ThreadRecord
      /\ FieldsOf(T[p]) /\ KidsOf(T, p) /\ PlaceOf(T[p], p \in OnStack)
      /\ self \in T[p].children /\ T1[p] = T[p] /\ ~T[self].isDetached
  BY ParentOfEnding
<1>3. ~T[p].scheduled
  BY <1>2 DEF PlaceOf, Going
<1>4. StillJoins(T, T1)
  BY EndingJoins
<1> HIDE DEF r
<1>5. EndsJoin(r, p) = DoJoin(WakeJoiner(r, p), p, self)
  <2>1. ~T1[self].isDetached
    BY <1>1, <1>2 DEF Ending
  <2>2. Check(r, "of_END", ~T1[self].isDetached) = r
    BY <2>1 DEF Check
  <2>3. Joinable(T1, p, self)
    BY <1>2 DEF Joinable, KidsOf
  <2> QED
    BY <2>2, <2>3 DEF EndsJoin
<1>6. T1[self].parent = p /\ ~T1[self].isDetached
  BY <1>1, <1>2 DEF Ending
<1> HIDE DEF T1
<1>7. PICK q \in State :
          /\ DoJoin(WakeJoiner(r, p), p, self) = Reap(q, {self})
          /\ JoinTaken(T[p], q.thread[p], self)
          /\ \A u \in Thread \ {p} : q.thread[u] = T1[u]
  <2>1. r \in State /\ r.failed = {} /\ p \in Thread /\ self \in Thread /\ self # p
        /\ ~r.thread[p].scheduled /\ r.thread[self].parent = p /\ r.thread = T1
    BY <1>1, <1>2, <1>3, <1>6 DEF T1
  <2> HIDE DEF p, T, r
  <2>2. \E q \in State : WokenToReap(r, p, self, q)
    BY <2>1, WakeAndJoinIs, Zenon
  <2> QED
    BY <1>2, <2>1, <2>2 DEF WokenToReap
<1> DEFINE T0 == [T EXCEPT ![p] = [T[p] EXCEPT !.joining = FALSE]]
           s == Reap(q, {self})
<1>8. T0[p].joining = FALSE /\ \A u \in Thread \ {p} : T0[u] = T[u]
  BY <1>1, <1>2 DEF Table, ThreadRecord
<1> HIDE DEF T0
<1>9. StillJoins(T0, q.thread)
  BY <1>4, <1>7, <1>8 DEF StillJoins
<1>10. {self} \in SUBSET Thread
  BY <1>1
<1>11. s \in State /\ StillJoins(T0, s.thread)
  BY <1>9, <1>10, ReapJoins
<1>12. IsReaped(q, {self}, s)
  BY <1>10, ReapIs
<1> HIDE DEF s
<1>13. self \notin s.thread[p].children
  <2>1. s.thread[p] = ReapedOther(q.thread, p, {self})
    BY <1>2, <1>12 DEF IsReaped
  <2>2. q.thread \in Table
    BY <1>7, ThreadsOf DEF Table
  <2>3. IsLeft(q.thread, p, {self}, s.thread[p])
    BY <1>2, <2>1, <2>2, ReapedOtherIs
  <2>4. q.thread[self] = T1[self]
    BY <1>1, <1>2, <1>7
  <2>5. self \in {d \in {self} : q.thread[d].parent = p /\ ~q.thread[d].isDetached}
    BY <1>6, <2>4
  <2> QED
    BY <2>3, <2>5 DEF IsLeft
<1>14. Waited(T, s.thread)
  BY <1>2, <1>8, <1>11, <1>13 DEF Waited, StillJoins
<1> QED
  BY <1>5, <1>7, <1>11, <1>14 DEF s, r

(* The end of a detached child wakes nobody up from a %join. *)
LEMMA EndsDetachedJoins ==
    ASSUME TypeOK, IInv, End, thread[self].parent # Nobody
    PROVE  LET s == EndsDetached(Ended(Now), thread[self].parent)
           IN  s \in State /\ StillJoins(thread, s.thread)
<1> DEFINE r == Ended(Now)
           T == thread
           T1 == r.thread
           p == thread[self].parent
<1>1. /\ self \in Thread /\ T \in Table
      /\ r \in State /\ r.failed = {} /\ r.active = active /\ Ending(T, T1)
  BY EndBegins
<1>2. /\ p \in Thread /\ p # self /\ Going(T[p]) /\ T[p] \in ThreadRecord
      /\ PlaceOf(T[p], p \in OnStack) /\ T1[p] = T[p]
  BY ParentOfEnding
<1>3. T[p].waiting => ~T[p].scheduled
  BY <1>2 DEF PlaceOf, Going
<1>4. StillJoins(T, T1)
  BY EndingJoins
<1>5. T1 \in Table /\ T1[self] \in ThreadRecord /\ T1[self].ended
  BY <1>1, ThreadsOf DEF Table, Ending
<1> HIDE DEF r
<1>6. PICK q \in State :
          /\ EndsDetached(r, p) = Reap(q, {self}) /\ q.failed = {}
          /\ \A u \in Thread \ {p, self} : q.thread[u] = T1[u]
          /\ q.thread[self] = [T1[self] EXCEPT !.isDetached = FALSE, !.parent = Nobody]
          /\ ChildLeaves(T1[p], q.thread[p], self)
  BY <1>1, <1>2, <1>3, LeavingIs
<1> HIDE DEF T1
<1>7. q.thread[self].ended
  BY <1>5, <1>6 DEF ThreadRecord
<1>8. StillJoins(T, q.thread)
  BY <1>2, <1>4, <1>6, <1>7 DEF StillJoins, ChildLeaves, Going
<1>9. {self} \in SUBSET Thread
  BY <1>1
<1> DEFINE s == Reap(q, {self})
<1>10. s \in State /\ StillJoins(T, s.thread)
  BY <1>6, <1>8, <1>9, ReapJoins
<1> HIDE DEF s
<1> QED
  BY <1>6, <1>10 DEF s, r

(* %end *)
LEMMA EndWaits ==
    ASSUME TypeOK, IInv, End
    PROVE  Waited(thread, thread')
<1> DEFINE r == Ended(Now)
           p == thread[self].parent
           s == IF p = Nobody THEN Reap(r, {self})
                ELSE IF r.thread[p].joining THEN EndsJoin(r, p)
                ELSE IF r.thread[self].isDetached THEN EndsDetached(r, p)
                ELSE r
<1>1. stack # <<>> /\ Pause(s)
  BY DEF End, Running
<1>2. p # Nobody => r.thread[p] = thread[p]
  BY ParentOfEnding
<1>3. r \in State /\ StillJoins(thread, r.thread)
  BY EndingJoins
<1>4. {self} \in SUBSET Thread
  BY EndBegins
<1>5. s \in State /\ (StillJoins(thread, s.thread) \/ Waited(thread, s.thread))
  <2>1. CASE p = Nobody
    <3> HIDE DEF r
    <3>1. Reap(r, {self}) \in State /\ StillJoins(thread, Reap(r, {self}).thread)
      BY <1>3, <1>4, ReapJoins
    <3> QED
      BY <2>1, <3>1
  <2>2. CASE p # Nobody /\ thread[p].joining
    <3>1. EndsJoin(r, p) \in State /\ Waited(thread, EndsJoin(r, p).thread)
      BY <2>2, EndsJoinWaits
    <3> HIDE DEF r
    <3>2. s = EndsJoin(r, p)
      BY <1>2, <2>2
    <3> QED
      BY <3>1, <3>2
  <2>3. CASE p # Nobody /\ ~thread[p].joining
    <3>1. EndsDetached(r, p) \in State /\ StillJoins(thread, EndsDetached(r, p).thread)
      BY <2>3, EndsDetachedJoins
    <3> HIDE DEF r
    <3>2. s = EndsDetached(r, p) \/ s = r
      BY <1>2, <2>3
    <3> QED
      BY <1>3, <3>1, <3>2
  <2> QED
    BY <2>1, <2>2, <2>3
<1> HIDE DEF s
<1> QED
  BY <1>1, <1>5, EndsWaited

(* of_ZOMBIE wakes nobody up. *)
LEMMA ZombieWaits ==
    ASSUME TypeOK, IInv, Zombie
    PROVE  Waited(thread, thread')
<1> DEFINE q == [Now EXCEPT !.thread = [Now.thread EXCEPT ![self] = Deleted]]
<1>1. stack # <<>> /\ thread[self].pc # <<>>
  BY DEF Zombie, Opcode, Running
<1>2. self \in Thread /\ thread \in Table /\ Now \in State /\ Now.thread = thread
  BY <1>1, StackIs, NowTyped DEF TypeOK, Table
<1>3. IsSet(Now, self, Deleted, q)
  BY <1>2, DeletedTyped, SetIs, Zenon
<1>4. q \in State /\ q.thread = [thread EXCEPT ![self] = Deleted]
  BY <1>2, <1>3 DEF IsSet
<1>5. Pause(q) \/ Pause(Now)
  <2>1. [Now EXCEPT !.thread[self] = Deleted] = q
    OBVIOUS
  <2> HIDE DEF q
  <2> QED
    BY <2>1 DEF Zombie
<1> HIDE DEF q
<1>6. StillJoins(thread, q.thread) /\ StillJoins(thread, Now.thread)
  BY <1>2, <1>4, DeletedTyped DEF StillJoins, Table, Going
<1> QED
  BY <1>1, <1>2, <1>4, <1>5, <1>6, EndsWaited

(* Nor does the next event. *)
LEMMA RunEventWaits ==
    ASSUME TypeOK, IInv, RunEvent
    PROVE  Waited(thread, thread')
<1> DEFINE list == Head(active)
           q == [Now EXCEPT !.active = Tail(@)]
           h == Head(list)
           s == Started(q, h)
<1>1. active # <<>> /\ Become(s)
  BY DEF RunEvent
<1>2. active \in Seq(List)
  BY DEF TypeOK, List
<1>3. list \in List /\ Tail(active) \in Seq(List)
  <2> HIDE DEF list
  <2> QED
    BY <1>1, <1>2 DEF list
<1>4. h \in Thread
  <2> HIDE DEF list
  <2> QED
    BY <1>3 DEF List
<1>5. q \in State /\ q.thread = thread
  BY <1>3, NowTyped DEF State, Now, List
<1> HIDE DEF q, h
<1>6. IsStarted(q, h, s)
  BY <1>4, <1>5, StartedIs, Zenon
<1>7. thread' = s.thread
  BY <1>1 DEF Become
<1> HIDE DEF s
<1>8. thread' = [thread EXCEPT ![h] = [thread[h] EXCEPT !.scheduled = FALSE]]
  BY <1>5, <1>6, <1>7 DEF IsStarted
<1>9. \A u \in Thread : thread'[u].joining = thread[u].joining
  BY <1>4, <1>8 DEF TypeOK, ThreadRecord
<1> QED
  BY <1>9 DEF Waited

(* Who has been woken up while of_DISABLE goes through the threads of a scope *)
WaitedOn(T, T2) ==
    /\ Waited(T, T2)
    /\ \A u \in Thread : Going(T2[u]) => T2[u].children \subseteq T[u].children

(* Each turn takes off only the %join of a thread whose child it stops. *)
LEMMA StepWaited ==
    ASSUME NEW T, NEW T2, NEW T3, WaitedOn(T, T2), NEW t \in Thread, NEW B,
           Disabled(T2, T3, t, B), Fields(T3)
    PROVE  WaitedOn(T, T3)
<1>1. ASSUME NEW u \in Thread, Going(T3[u])
      PROVE  /\ Going(T2[u]) /\ T3[u].children \subseteq T2[u].children
             /\ T2[u].children \subseteq T[u].children
             /\ T2[u].joining /\ ~T3[u].joining => T2[u].children \ T3[u].children # {}
  <2>1. T3[u].pc # Null
    BY <1>1 DEF Fields, FieldsOf, Going
  <2>2. u \notin B \cup {t}
    BY <1>1, <2>1 DEF Disabled, Going
  <2> QED
    BY <1>1, <2>2 DEF Disabled, Going, WaitedOn
<1> QED
  BY <1>1 DEF WaitedOn, Waited

(* %disable wakes up no thread from a %join whose children it leaves alone. *)
LEMMA DisableWaits ==
    ASSUME TypeOK, IInv, Regular, NEW scope \in Disablable, Disable(scope)
    PROVE  Waited(thread, thread')
<1> DEFINE r == DisableScope(Now, scope)
           Q == {q \in State : Disabling(q) /\ WaitedOn(thread, q.thread)}
<1>1. /\ ~Detaching /\ scope \in Blocks /\ (Len(stack) = 2 => InFunction(scope)) /\ Disabling(Now)
  BY DisableBegins
<1>2. PICK f : ScopeLoop(f, Now, scope)
  BY <1>1, DisableScopeIs DEF Disabling
<1>3. NThreads \in Nat /\ NThreads \in 0..NThreads
  BY ThreadAssumption
<1>4. f[0] \in Q
  <2>1. f[0] = Now /\ Now.thread = thread
    BY <1>2, NowTyped DEF ScopeLoop
  <2>2. WaitedOn(thread, thread)
    BY DEF WaitedOn, Waited
  <2> QED
    BY <1>1, <2>1, <2>2 DEF Disabling
<1>5. \A i \in 1..NThreads : f[i - 1] \in Q => f[i] \in Q
  <2> SUFFICES ASSUME NEW i \in 1..NThreads, f[i - 1] \in Q PROVE f[i] \in Q
    OBVIOUS
  <2> DEFINE q == f[i - 1]
             s == ScopeStep(q, scope)
             t == Min(Inside(q, scope))
  <2>1. f[i] = s
    BY <1>2 DEF ScopeLoop
  <2>2. Disabling(q) /\ WaitedOn(thread, q.thread)
    OBVIOUS
  <2> HIDE DEF q
  <2>3. CASE Inside(q, scope) = {}
    <3>1. s = q
      BY <2>3 DEF ScopeStep
    <3> HIDE DEF s
    <3> QED
      BY <2>1, <2>2, <3>1 DEF Disabling
  <2>4. CASE Inside(q, scope) # {}
    <3>1. t \in Thread /\ Disabling(s) /\ Disabled(q.thread, s.thread, t, Offspring(q.thread, t))
      BY <1>1, <2>2, <2>4, ScopeStepKeeps
    <3> HIDE DEF s, t
    <3>2. Fields(s.thread)
      BY <3>1 DEF Disabling, Sound, Whole
    <3>3. WaitedOn(thread, s.thread)
      BY <2>2, <3>1, <3>2, StepWaited
    <3> QED
      BY <2>1, <3>1, <3>3 DEF Disabling
  <2> QED
    BY <2>3, <2>4
<1>6. r \in Q
  <2> HIDE DEF Q, r
  <2>1. f[NThreads] \in Q
    BY <1>3, <1>4, <1>5, IteratedIn
  <2> QED
    BY <1>2, <2>1 DEF ScopeLoop, r
<1>7. Alike(r.thread)
  BY DisableKeeps
<1>8. Waited(thread, r.thread)
  BY <1>6 DEF WaitedOn
<1> HIDE DEF r
<1> QED
  BY <1>7, <1>8 DEF Alike, Waited, Going

(* A step wakes up only the parents of children that are gone. *)
LEMMA StepWaits ==
    ASSUME TypeOK, IInv, Regular, [Next]_vars
    PROVE  Waited(thread, thread')
<1>1. CASE Delay
  BY <1>1, DelayWaits
<1>2. CASE \E e \in Events : Wait(e) \/ Event(e)
  BY <1>2, WaitWaits, EventWaits
<1>3. CASE \E n \in 1..2 : Fork(n)
  BY <1>3, ForkWaits
<1>4. CASE Block \/ CallTask
  BY <1>4, BlockWaits
<1>5. CASE CallFunction
  BY <1>5, CallFunctionWaits
<1>6. CASE \E s \in Disablable : Disable(s)
  BY <1>6, DisableWaits
<1>7. CASE DisableFork
  BY <1>7, DisableForkKeeps DEF Waited
<1>8. CASE WaitFork
  BY <1>8, WaitForkWaits
<1>9. CASE Join
  BY <1>9, JoinWaked
<1>10. CASE JoinDetach
  BY <1>10, JoinDetachWaits
<1>11. CASE End
  BY <1>11, EndWaits
<1>12. CASE Zombie
  BY <1>12, ZombieWaits
<1>13. CASE RunEvent
  BY <1>13, RunEventWaits
<1>14. CASE NextTime \/ Finished \/ UNCHANGED vars
  <2>1. thread' = thread
    BY <1>14 DEF NextTime, Finished, vars
  <2> QED
    BY <2>1 DEF Waited
<1> QED
  BY <1>1, <1>2, <1>3, <1>4, <1>5, <1>6, <1>7, <1>8, <1>9, <1>10, <1>11, <1>12, <1>13, <1>14
     DEF Next

(* A %join does not return before a child of the thread is over (of_JOIN,       *)
(* of_END, do_disable).                                                         *)
THEOREM JoinsWaited ==
    ASSUME Regular
    PROVE  Spec => JoinWaits
<1> DEFINE Waits == \A t \in Alive : thread[t].joining /\ thread'[t].live /\ ~thread'[t].joining
            /\ ~thread'[t].ended => thread[t].children \ thread'[t].children # {}
<1>1. TypeOK /\ IInv /\ [Next]_vars => [Waits]_vars
  BY StepWaits DEF Waited, Going, Alive, Live
<1>2. Spec => [](TypeOK /\ IInv)
  BY Invariant
<1>3. JoinWaits <=> [][Waits]_vars
  BY DEF JoinWaits
<1> HIDE DEF Waits
<1> QED
  BY <1>1, <1>2, <1>3, PTL DEF Spec
================================================================================
