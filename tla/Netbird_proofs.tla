--------------------------- MODULE Netbird_proofs ---------------------------
(* Theorems about the NetBird objects of a sandbox: for every list of       *)
(* entrypoints, every number of routes and of faults.  What they need of a  *)
(* script or a sweep is closed under concatenation and so proved piecewise. *)
EXTENDS Netbird, SequenceTheorems, WellFoundedInduction, TLAPS

-----------------------------------------------------------------------------
(* Sequences put together from sequences *)

\* Induction over the numbers, for a set of them.
LEMMA NatInduct ==
    ASSUME NEW T \in SUBSET Nat, 0 \in T, \A n \in T : n + 1 \in T PROVE T = Nat
<1> SUFFICES ASSUME Nat \ T # {} PROVE FALSE
  OBVIOUS
<1>1. PICK x \in Nat \ T : \A y \in Nat \ T : <<y, x>> \notin OpToRel(<, Nat)
  BY NatLessThanWellFounded, WFMin
<1>2. \A y \in Nat \ T : ~(y < x)
  BY <1>1 DEF OpToRel
<1>3. x # 0
  OBVIOUS
<1>4. x - 1 \in Nat /\ x - 1 < x /\ (x - 1) + 1 = x
  BY <1>3
<1>5. x - 1 \in T
  BY <1>2, <1>4
<1> QED BY <1>4, <1>5

\* The prefixes of a flattened sequence of sequences.
Flattens(ss, f) == f = [i \in 1..Len(ss) |-> IF i = 1 THEN ss[i] ELSE f[i - 1] \o ss[i]]

LEMMA PrefixesExist ==
    ASSUME NEW S, NEW ss \in Seq(Seq(S)), ss # << >> PROVE \E f : Flattens(ss, f)
<1> DEFINE L == Len(ss)
           Good(n, g) == \A i \in 1..n + 1 : g[i] = IF i = 1 THEN ss[i] ELSE g[i - 1] \o ss[i]
           T == {n \in Nat : n + 1 <= L => \E g \in [1..n + 1 -> Seq(S)] : Good(n, g)}
<1>0. L \in Nat /\ L > 0 /\ \A i \in 1..L : ss[i] \in Seq(S)
  <2>1. L \in Nat
    BY LenProperties
  <2>2. ASSUME NEW i \in 1..L PROVE ss[i] \in Seq(S)
    BY <2>2, ElementOfSeq
  <2>3. L \in Nat \ {0}
    BY EmptySeq
  <2> QED BY <2>1, <2>2, <2>3
<1>1. 0 \in T
  <2>1. [i \in 1..1 |-> ss[1]] \in [1..0 + 1 -> Seq(S)] /\ Good(0, [i \in 1..1 |-> ss[1]])
    BY <1>0
  <2> QED BY <2>1
<1>2. ASSUME NEW n \in T PROVE n + 1 \in T
  <2>1. SUFFICES ASSUME n \in Nat, (n + 1) + 1 <= L
                 PROVE  \E g \in [1..(n + 1) + 1 -> Seq(S)] : Good(n + 1, g)
    <3>1. n \in Nat /\ n + 1 \in Nat
      OBVIOUS
    <3> QED BY <3>1
  <2>2. n + 1 <= L
    BY <1>0, <2>1
  <2>3. PICK g \in [1..n + 1 -> Seq(S)] : Good(n, g)
    <3>1. \E g \in [1..n + 1 -> Seq(S)] : Good(n, g)
      <4> HIDE DEF Good
      <4> QED BY <2>2
    <3> QED BY <3>1
  <2> DEFINE h == [i \in 1..(n + 1) + 1 |-> IF i = (n + 1) + 1 THEN g[n + 1] \o ss[i] ELSE g[i]]
  <2>4. h \in [1..(n + 1) + 1 -> Seq(S)]
    <3> SUFFICES ASSUME NEW i \in 1..(n + 1) + 1
                 PROVE  (IF i = (n + 1) + 1 THEN g[n + 1] \o ss[i] ELSE g[i]) \in Seq(S)
      OBVIOUS
    <3>1. CASE i = (n + 1) + 1
      <4>1. g[n + 1] \in Seq(S) /\ ss[i] \in Seq(S)
        BY <1>0, <2>1, <2>3, <3>1
      <4>2. g[n + 1] \o ss[i] \in Seq(S)
        BY <4>1, ConcatProperties
      <4> QED BY <3>1, <4>2
    <3>2. CASE i # (n + 1) + 1
      BY <2>3, <3>2
    <3> QED BY <3>1, <3>2
  <2>5. Good(n + 1, h)
    <3> SUFFICES ASSUME NEW i \in 1..(n + 1) + 1
                 PROVE  h[i] = IF i = 1 THEN ss[i] ELSE h[i - 1] \o ss[i]
      OBVIOUS
    <3>1. CASE i = (n + 1) + 1
      <4>1. i - 1 = n + 1 /\ i # 1 /\ n + 1 \in 1..(n + 1) + 1 /\ n + 1 # (n + 1) + 1
        BY <2>1, <3>1
      <4>2. h[i] = g[n + 1] \o ss[i]
        BY <3>1
      <4>3. h[n + 1] = g[n + 1]
        BY <4>1
      <4>4. h[i - 1] = g[n + 1]
        BY <4>1, <4>3
      <4> HIDE DEF h
      <4> QED BY <4>1, <4>2, <4>4
    <3>2. CASE i # (n + 1) + 1
      <4>1. i \in 1..n + 1 /\ h[i] = g[i] /\ (i # 1 => i - 1 \in 1..n + 1 /\ h[i - 1] = g[i - 1])
        BY <3>2
      <4>2. g[i] = IF i = 1 THEN ss[i] ELSE g[i - 1] \o ss[i]
        BY <2>3, <4>1
      <4> QED BY <4>1, <4>2
    <3> QED BY <3>1, <3>2
  <2>6. \E k \in [1..(n + 1) + 1 -> Seq(S)] : Good(n + 1, k)
    <3> HIDE DEF Good, h
    <3> QED BY <2>4, <2>5
  <2> QED BY <2>6
<1>3. T = Nat
  <2> HIDE DEF T
  <2>1. T \in SUBSET Nat
    BY DEF T
  <2> QED BY <1>1, <1>2, <2>1, NatInduct
<1>4. PICK g \in [1..L -> Seq(S)] : \A i \in 1..L : g[i] = IF i = 1 THEN ss[i] ELSE g[i - 1] \o ss[i]
  <2>1. L - 1 \in Nat /\ (L - 1) + 1 = L
    BY <1>0
  <2>2. L - 1 \in T
    <3> HIDE DEF T
    <3> QED BY <1>3, <2>1
  <2>3. \E g \in [1..(L - 1) + 1 -> Seq(S)] : Good(L - 1, g)
    <3>1. (L - 1) + 1 <= L
      BY <2>1
    <3> HIDE DEF Good, L
    <3> QED BY <2>2, <3>1
  <2>4. PICK g \in [1..(L - 1) + 1 -> Seq(S)] : Good(L - 1, g)
    <3> HIDE DEF Good, L
    <3> QED BY <2>3
  <2>5. g \in [1..L -> Seq(S)]
    BY <2>1, <2>4
  <2>6. \A i \in 1..(L - 1) + 1 : g[i] = IF i = 1 THEN ss[i] ELSE g[i - 1] \o ss[i]
    BY <2>4
  <2>7. \A i \in 1..L : g[i] = IF i = 1 THEN ss[i] ELSE g[i - 1] \o ss[i]
    <3> HIDE DEF L
    <3> QED BY <2>1, <2>6, Zenon
  <2> QED BY <2>5, <2>7
<1>5. g = [i \in 1..L |-> IF i = 1 THEN ss[i] ELSE g[i - 1] \o ss[i]]
  BY <1>4
<1> QED BY <1>5 DEF Flattens

\* What a flattened sequence is: the last of its prefixes.
LEMMA Flattened ==
    ASSUME NEW S, NEW ss \in Seq(Seq(S)), ss # << >>
    PROVE  \E f : Flattens(ss, f) /\ FlattenSeq(ss) = f[Len(ss)]
<1> DEFINE f == CHOOSE g : Flattens(ss, g)
<1>1. Flattens(ss, f)
  <2>1. \E g : Flattens(ss, g)
    BY PrefixesExist
  <2> QED BY <2>1, Zenon
<1>2. FlattenSeq(ss) = f[Len(ss)]
  BY DEF FlattenSeq, Flattens
<1> QED BY <1>1, <1>2, Zenon

\* What holds of the parts and of two put together holds of all of them.
LEMMA FlattenIn ==
    ASSUME NEW S, NEW ss \in Seq(Seq(S)), NEW A \in SUBSET Seq(S),
           << >> \in A, \A s, t \in A : s \o t \in A, \A i \in 1..Len(ss) : ss[i] \in A
    PROVE  FlattenSeq(ss) \in A
<1>1. CASE ss = << >>
  BY <1>1 DEF FlattenSeq
<1>2. CASE ss # << >>
  <2> DEFINE L == Len(ss)
  <2>0. L \in Nat /\ L > 0
    <3>1. L \in Nat \ {0}
      BY <1>2, EmptySeq
    <3> QED BY <3>1
  <2>1. PICK f : Flattens(ss, f) /\ FlattenSeq(ss) = f[L]
    BY <1>2, Flattened
  <2>2. \A i \in 1..L : f[i] = IF i = 1 THEN ss[i] ELSE f[i - 1] \o ss[i]
    <3>1. f = [i \in 1..L |-> IF i = 1 THEN ss[i] ELSE f[i - 1] \o ss[i]]
      BY <2>1 DEF Flattens
    <3> SUFFICES ASSUME NEW i \in 1..L PROVE f[i] = IF i = 1 THEN ss[i] ELSE f[i - 1] \o ss[i]
      OBVIOUS
    <3>2. [j \in 1..L |-> IF j = 1 THEN ss[j] ELSE f[j - 1] \o ss[j]][i]
             = IF i = 1 THEN ss[i] ELSE f[i - 1] \o ss[i]
      OBVIOUS
    <3> QED BY <3>1, <3>2, Zenon
  <2> DEFINE T == {n \in Nat : n + 1 <= L => f[n + 1] \in A}
  <2>3. 0 \in T
    BY <2>0, <2>2
  <2>4. ASSUME NEW n \in T PROVE n + 1 \in T
    <3>1. SUFFICES ASSUME (n + 1) + 1 <= L PROVE f[(n + 1) + 1] \in A
      OBVIOUS
    <3>2. f[n + 1] \in A
      BY <2>0, <3>1
    <3>3. f[(n + 1) + 1] = f[n + 1] \o ss[(n + 1) + 1]
      <4>1. (n + 1) + 1 \in 1..L /\ (n + 1) + 1 # 1 /\ ((n + 1) + 1) - 1 = n + 1
        BY <2>0, <3>1
      <4> QED BY <2>2, <4>1
    <3>4. ss[(n + 1) + 1] \in A
      BY <2>0, <3>1
    <3> QED BY <3>2, <3>3, <3>4
  <2>5. T = Nat
    <3> HIDE DEF T
    <3>1. T \in SUBSET Nat
      BY DEF T
    <3> QED BY <2>3, <2>4, <3>1, NatInduct
  <2>6. f[L] \in A
    <3>1. L - 1 \in Nat /\ (L - 1) + 1 = L
      BY <2>0
    <3>2. L - 1 \in T
      <4> HIDE DEF T
      <4> QED BY <2>5, <3>1
    <3> QED BY <3>1, <3>2
  <2> QED BY <2>1, <2>6
<1> QED BY <1>1, <1>2

\* The same for sets of sequences, one for each number of sequences put together.
LEMMA FlattenEach ==
    ASSUME NEW S, NEW ss \in Seq(Seq(S)), ss # << >>, NEW A,
           ss[1] \in A[1],
           \A i \in 1..Len(ss) : i + 1 <= Len(ss) => \A s \in A[i] : s \o ss[i + 1] \in A[i + 1]
    PROVE  FlattenSeq(ss) \in A[Len(ss)]
<1> DEFINE L == Len(ss)
<1>0. L \in Nat /\ L > 0
  <2>1. L \in Nat \ {0}
    BY EmptySeq
  <2> QED BY <2>1
<1>1. PICK f : Flattens(ss, f) /\ FlattenSeq(ss) = f[L]
  BY Flattened
<1>2. \A i \in 1..L : f[i] = IF i = 1 THEN ss[i] ELSE f[i - 1] \o ss[i]
  <2>1. f = [i \in 1..L |-> IF i = 1 THEN ss[i] ELSE f[i - 1] \o ss[i]]
    BY <1>1 DEF Flattens
  <2> SUFFICES ASSUME NEW i \in 1..L PROVE f[i] = IF i = 1 THEN ss[i] ELSE f[i - 1] \o ss[i]
    OBVIOUS
  <2>2. [j \in 1..L |-> IF j = 1 THEN ss[j] ELSE f[j - 1] \o ss[j]][i]
           = IF i = 1 THEN ss[i] ELSE f[i - 1] \o ss[i]
    OBVIOUS
  <2> QED BY <2>1, <2>2, Zenon
<1> DEFINE T == {n \in Nat : n + 1 <= L => f[n + 1] \in A[n + 1]}
<1>3. 0 \in T
  BY <1>0, <1>2
<1>4. ASSUME NEW n \in T PROVE n + 1 \in T
  <2> DEFINE p == n + 1
             q == p + 1
  <2> SUFFICES ASSUME q <= L PROVE f[q] \in A[q]
    OBVIOUS
  <2>1. p \in 1..L /\ f[p] \in A[p] /\ q \in 1..L /\ q # 1 /\ q - 1 = p
    BY <1>0
  <2>2. f[q] = f[p] \o ss[q]
    BY <1>2, <2>1
  <2> QED BY <2>1, <2>2
<1>5. T = Nat
  <2> HIDE DEF T
  <2>1. T \in SUBSET Nat
    BY DEF T
  <2> QED BY <1>3, <1>4, <2>1, NatInduct
<1>6. f[L] \in A[L]
  <2>1. L - 1 \in Nat /\ (L - 1) + 1 = L
    BY <1>0
  <2>2. L - 1 \in T
    <3> HIDE DEF T
    <3> QED BY <1>5, <2>1
  <2> QED BY <2>1, <2>2
<1> QED BY <1>1, <1>6

\* The same for sequences that belong to sets of hosts, one for each entrypoint.
LEMMA FlattenHosts ==
    ASSUME NEW S, NEW ss \in Seq(Seq(S)), Len(ss) = Len(Entrypoints), NEW G, << >> \in G[{}],
           \A i \in 1..Len(ss) : ss[i] \in G[{Entrypoints[i]}],
           \A O, P \in SUBSET Hosts : O \cap P = {} =>
               \A s \in G[O], t \in G[P] : s \o t \in G[O \cup P]
    PROVE  FlattenSeq(ss) \in G[Hosts]
<1> DEFINE L == Len(ss)
           Firsts(k) == {Entrypoints[i] : i \in 1..k}
<1>1. /\ L \in Nat /\ \A i \in 1..L : Entrypoints[i] \in Hosts
      /\ \A i, j \in 1..L : Entrypoints[i] = Entrypoints[j] => i = j
  BY NetbirdAssumption
<1>2. Firsts(L) = Hosts
  <2>1. Hosts = {Entrypoints[i] : i \in DOMAIN Entrypoints}
    BY DEF Hosts, ToSet
  <2>2. DOMAIN Entrypoints = 1..L
    <3> HIDE DEF Hosts
    <3> QED BY NetbirdAssumption
  <2> QED BY <2>1, <2>2
<1>3. CASE ss = << >>
  <2>1. L = 0
    BY <1>3
  <2>2. Firsts(0) = {}
    OBVIOUS
  <2>3. Hosts = {}
    <3> HIDE DEF Firsts
    <3> QED BY <1>2, <2>1, <2>2
  <2> QED BY <1>3, <2>3 DEF FlattenSeq
<1>4. CASE ss # << >>
  <2> DEFINE A == [k \in 1..L |-> G[Firsts(k)]]
  <2>1. L \in Nat \ {0}
    BY <1>4, EmptySeq
  <2>2. ss[1] \in A[1]
    <3>1. Firsts(1) = {Entrypoints[1]} /\ 1 \in 1..L
      BY <2>1
    <3> HIDE DEF Firsts
    <3> QED BY <3>1
  <2>3. ASSUME NEW i \in 1..L, i + 1 <= L, NEW s \in A[i] PROVE s \o ss[i + 1] \in A[i + 1]
    <3>1. i + 1 \in 1..L
      BY <2>1, <2>3
    <3>2. Firsts(i) \cap {Entrypoints[i + 1]} = {}
      <4> SUFFICES ASSUME NEW j \in 1..i, Entrypoints[j] = Entrypoints[i + 1] PROVE FALSE
        OBVIOUS
      <4>1. j \in 1..L /\ j # i + 1
        BY <2>1, <3>1
      <4> QED BY <1>1, <3>1, <4>1
    <3>3. Firsts(i) \cup {Entrypoints[i + 1]} = Firsts(i + 1)
      <4>1. 1..i + 1 = (1..i) \cup {i + 1}
        BY <2>1
      <4> QED BY <4>1
    <3>4. Firsts(i) \in SUBSET Hosts /\ {Entrypoints[i + 1]} \in SUBSET Hosts
      BY <1>1, <2>1, <3>1
    <3>5. s \in G[Firsts(i)] /\ ss[i + 1] \in G[{Entrypoints[i + 1]}]
      <4> HIDE DEF Firsts
      <4> QED BY <2>3, <3>1
    <3> HIDE DEF Firsts
    <3>6. s \o ss[i + 1] \in G[Firsts(i + 1)]
      BY <3>2, <3>3, <3>4, <3>5
    <3> QED BY <3>1, <3>6
  <2>4. FlattenSeq(ss) \in A[L]
    <3> HIDE DEF A
    <3> QED BY <1>4, <2>2, <2>3, FlattenEach
  <2>5. A[L] = G[Hosts]
    <3>1. L \in 1..L
      BY <2>1
    <3> HIDE DEF Firsts
    <3> QED BY <1>2, <3>1
  <2> QED BY <2>4, <2>5
<1> QED BY <1>3, <1>4

-----------------------------------------------------------------------------
(* The steps of a teardown *)

\* A listing names the peers it is after, and a row is named by its group.
SweepStep == {s \in [op : {"delete", "peers", "row"}, obj : Object, checked : BOOLEAN] :
    /\ s.op = "peers" => s.obj = Peer(OwnerOf(s.obj))
    /\ s.op = "row" => s.obj = Group(OwnerOf(s.obj))}

\* Every deletion looks at the budget, and so does what follows a listing that
\* did not.
Paced(W) ==
    \A i \in 1..Len(W) :
        /\ W[i].op = "delete" => W[i].checked
        /\ W[i].op = "peers" /\ ~W[i].checked => i < Len(W) /\ W[i + 1].checked

Smooth == {W \in Seq(SweepStep) : Paced(W)}

LEMMA SmoothEmpty == << >> \in Smooth
<1>1. << >> \in Seq(SweepStep) /\ Len(<< >>) = 0
  BY EmptySeq
<1> QED BY <1>1 DEF Smooth, Paced

LEMMA SmoothCat ==
    ASSUME NEW s \in Smooth, NEW t \in Smooth PROVE s \o t \in Smooth
<1>1. s \in Seq(SweepStep) /\ t \in Seq(SweepStep) /\ Paced(s) /\ Paced(t)
  BY DEF Smooth
<1>2. /\ s \o t \in Seq(SweepStep) /\ Len(s \o t) = Len(s) + Len(t)
      /\ \A i \in 1..Len(s) + Len(t) :
            (s \o t)[i] = IF i <= Len(s) THEN s[i] ELSE t[i - Len(s)]
  BY <1>1, ConcatProperties
<1>3. Len(s) \in Nat /\ Len(t) \in Nat
  BY <1>1
<1> SUFFICES Paced(s \o t)
  BY <1>2 DEF Smooth
<1> DEFINE W == s \o t
<1> SUFFICES ASSUME NEW i \in 1..Len(W)
             PROVE  /\ W[i].op = "delete" => W[i].checked
                    /\ W[i].op = "peers" /\ ~W[i].checked => i < Len(W) /\ W[i + 1].checked
  BY DEF Paced
<1>4. CASE i <= Len(s)
  <2>1. i \in 1..Len(s) /\ W[i] = s[i]
    BY <1>2, <1>3, <1>4
  <2>2. i < Len(s) => W[i + 1] = s[i + 1] /\ i < Len(W)
    BY <1>2, <1>3, <2>1
  <2> HIDE DEF W
  <2> QED BY <1>1, <2>1, <2>2 DEF Paced
<1>5. CASE ~(i <= Len(s))
  <2>1. i - Len(s) \in 1..Len(t) /\ W[i] = t[i - Len(s)]
    BY <1>2, <1>3, <1>5
  <2>2. i - Len(s) < Len(t) => W[i + 1] = t[(i - Len(s)) + 1] /\ i < Len(W)
    BY <1>2, <1>3, <1>5, <2>1
  <2> HIDE DEF W
  <2> QED BY <1>1, <2>1, <2>2 DEF Paced
<1> QED BY <1>4, <1>5

LEMMA DoSmooth ==
    ASSUME NEW op \in {"delete", "peers", "row"}, NEW x \in Object, NEW c \in BOOLEAN,
           op = "row" \/ c, op # "peers", op = "row" => x = Group(OwnerOf(x))
    PROVE  Do(op, x, c) \in Smooth
<1>1. [op |-> op, obj |-> x, checked |-> c] \in SweepStep
  BY DEF SweepStep
<1> DEFINE W == <<[op |-> op, obj |-> x, checked |-> c]>>
<1>2. W \in Seq(SweepStep) /\ Len(W) = 1 /\ W[1] = [op |-> op, obj |-> x, checked |-> c]
  BY <1>1
<1>3. Do(op, x, c) = W
  BY DEF Do
<1>4. Paced(W)
  <2> HIDE DEF W
  <2> QED BY <1>2 DEF Paced
<1> HIDE DEF W
<1> QED BY <1>2, <1>3, <1>4 DEF Smooth

LEMMA DeleteIfSmooth ==
    ASSUME NEW ids, NEW x \in Object PROVE DeleteIf(ids, x) \in Smooth
<1>1. Do("delete", x, TRUE) \in Smooth
  BY DoSmooth
<1> QED BY <1>1, SmoothEmpty DEF DeleteIf

\* The objects of an owner.
LEMMA NamedObjects ==
    /\ \A o \in Owners : Group(o) \in Object /\ Key(o) \in Object /\ Peer(o) \in Object
    /\ \A h \in Hosts : Policy(h) \in Object /\ \A i \in 1..RouteCount[h] : Route(h, i) \in Object
    /\ Nameservers \in Object
<1>1. \A o \in Owners : Recordable(o) \cup {Peer(o)} \subseteq Object
  BY DEF Object
<1>2. \A o \in Owners : Group(o) \in Recordable(o) /\ Key(o) \in Recordable(o)
  BY DEF Recordable
<1>3. Access \in Owners /\ Nameservers \in Recordable(Access)
  BY DEF Recordable, Owners
<1>4. \A h \in Hosts : /\ h \in Owners /\ h # Access
                       /\ Policy(h) \in Recordable(h) /\ Routes(h) \subseteq Recordable(h)
  BY NetbirdAssumption DEF Recordable, Owners
<1>5. \A h \in Hosts : \A i \in 1..RouteCount[h] : Route(h, i) \in Routes(h)
  BY DEF Routes
<1> HIDE DEF Object, Recordable
<1> QED BY <1>1, <1>2, <1>3, <1>4, <1>5

LEMMA OwnObjects ==
    /\ \A o \in Owners : /\ OwnerOf(Group(o)) = o /\ Group(o)[1] = "group"
                         /\ OwnerOf(Key(o)) = o /\ Key(o)[1] = "key"
                         /\ OwnerOf(Peer(o)) = o /\ Peer(o)[1] = "peer"
    /\ \A h \in Hosts : /\ OwnerOf(Policy(h)) = h /\ Policy(h)[1] = "policy"
                        /\ \A i \in Nat : OwnerOf(Route(h, i)) = h /\ Route(h, i)[1] = "route"
    /\ OwnerOf(Nameservers) = Access /\ Nameservers[1] = "dns"
BY DEF Group, Key, Peer, Policy, Route, Nameservers, OwnerOf

LEMMA GroupAndRowSmooth ==
    ASSUME NEW ids, NEW o \in Owners PROVE GroupAndRow(ids, o) \in Smooth
<1>1. Group(o) \in Object /\ OwnerOf(Group(o)) = o
  BY NamedObjects, OwnObjects
<1>2. DeleteIf(ids, Group(o)) \in Smooth /\ Do("row", Group(o), Group(o) \notin ids) \in Smooth
  BY <1>1, DeleteIfSmooth, DoSmooth
<1> QED BY <1>2, SmoothCat DEF GroupAndRow

\* The listing of the peers may skip the look at the budget; the group does not.
LEMMA PeersSmooth ==
    ASSUME NEW ids, NEW o \in Owners PROVE Peers(ids, o) \o GroupAndRow(ids, o) \in Smooth
<1>1. Group(o) \in Object /\ Peer(o) \in Object /\ OwnerOf(Group(o)) = o /\ OwnerOf(Peer(o)) = o
  BY NamedObjects, OwnObjects
<1>2. CASE Group(o) \notin ids
  <2>1. Peers(ids, o) = << >>
    BY <1>2 DEF Peers
  <2> QED BY <2>1, SmoothEmpty, SmoothCat, GroupAndRowSmooth
<1>3. CASE Group(o) \in ids
  <2> DEFINE p == [op |-> "peers", obj |-> Peer(o), checked |-> Key(o) \notin ids]
             d == [op |-> "delete", obj |-> Group(o), checked |-> TRUE]
             r == [op |-> "row", obj |-> Group(o), checked |-> Group(o) \notin ids]
  <2>1. p \in SweepStep /\ d \in SweepStep /\ r \in SweepStep
    BY <1>1 DEF SweepStep
  <2>2. Peers(ids, o) = <<p>> /\ GroupAndRow(ids, o) = <<d>> \o <<r>>
    BY <1>3 DEF Peers, GroupAndRow, DeleteIf, Do
  <2>3. p.op = "peers" /\ d.checked /\ d.op = "delete" /\ r.op = "row"
    OBVIOUS
  <2> HIDE DEF p, d, r
  <2> DEFINE a == <<p>>
             b == <<d>>
             c == <<r>>
  <2>4. /\ a \in Seq(SweepStep) /\ Len(a) = 1 /\ a[1] = p
        /\ b \in Seq(SweepStep) /\ Len(b) = 1 /\ b[1] = d
        /\ c \in Seq(SweepStep) /\ Len(c) = 1 /\ c[1] = r
    BY <2>1
  <2> DEFINE V == b \o c
             W == a \o V
  <2>0. Peers(ids, o) \o GroupAndRow(ids, o) = W
    BY <2>2
  <2> HIDE DEF a, b, c
  <2>5. V \in Seq(SweepStep) /\ Len(V) = 2 /\ V[1] = d /\ V[2] = r
    <3>1. /\ V \in Seq(SweepStep) /\ Len(V) = Len(b) + Len(c)
          /\ \A i \in 1..Len(b) + Len(c) : V[i] = IF i <= Len(b) THEN b[i] ELSE c[i - Len(b)]
      BY <2>4, ConcatProperties
    <3> HIDE DEF V
    <3> QED BY <2>4, <3>1
  <2> HIDE DEF V
  <2>6. W \in Seq(SweepStep) /\ Len(W) = 3 /\ W[1] = p /\ W[2] = d /\ W[3] = r
    <3>1. /\ W \in Seq(SweepStep) /\ Len(W) = Len(a) + Len(V)
          /\ \A i \in 1..Len(a) + Len(V) : W[i] = IF i <= Len(a) THEN a[i] ELSE V[i - Len(a)]
      BY <2>4, <2>5, ConcatProperties
    <3> HIDE DEF W
    <3> QED BY <2>4, <2>5, <3>1
  <2> HIDE DEF W
  <2>7. Paced(W)
    BY <2>3, <2>6 DEF Paced
  <2> QED BY <2>0, <2>6, <2>7 DEF Smooth
<1> QED BY <1>2, <1>3

LEMMA PeersSteps ==
    ASSUME NEW ids, NEW o \in Owners PROVE Peers(ids, o) \in Seq(SweepStep)
<1>1. [op |-> "peers", obj |-> Peer(o), checked |-> Key(o) \notin ids] \in SweepStep
  BY NamedObjects, OwnObjects DEF SweepStep
<1>2. << >> \in Seq(SweepStep)
  BY EmptySeq
<1> QED BY <1>1, <1>2 DEF Peers, Do

LEMMA FlattenSmooth ==
    ASSUME NEW n \in Nat, NEW ss \in [1..n -> Smooth] PROVE FlattenSeq(ss) \in Smooth
<1>1. Smooth \in SUBSET Seq(SweepStep)
  BY DEF Smooth
<1>2. ss \in Seq(Seq(SweepStep)) /\ Len(ss) = n
  BY <1>1
<1> QED BY <1>1, <1>2, SmoothEmpty, SmoothCat, FlattenIn

LEMMA DestroyAccessSmooth ==
    ASSUME NEW ids PROVE DestroyAccess(ids) \in Smooth
<1>1. Nameservers \in Object /\ Access \in Owners /\ Key(Access) \in Object
  BY NamedObjects DEF Owners
<1> DEFINE a == DeleteIf(ids, Nameservers) \o DeleteIf(ids, Key(Access))
           p == Peers(ids, Access)
           g == GroupAndRow(ids, Access)
<1>2. a \in Smooth
  BY <1>1, DeleteIfSmooth, SmoothCat
<1>3. p \o g \in Smooth /\ g \in Smooth
  BY <1>1, PeersSmooth, GroupAndRowSmooth
<1>4. p \in Seq(SweepStep)
  BY <1>1, PeersSteps
<1>5. (a \o p) \o g = a \o (p \o g)
  <2>1. a \in Seq(SweepStep) /\ g \in Seq(SweepStep)
    BY <1>2, <1>3 DEF Smooth
  <2> HIDE DEF a, p, g
  <2> QED BY <1>4, <2>1, ConcatAssociative, SMTT(20)
<1>6. a \o (p \o g) \in Smooth
  BY <1>2, <1>3, SmoothCat
<1>7. DestroyAccess(ids) = (a \o p) \o g
  BY DEF DestroyAccess
<1> HIDE DEF a, p, g
<1> QED BY <1>5, <1>6, <1>7

LEMMA DestroyEntrypointSmooth ==
    ASSUME NEW h \in Hosts, NEW ids PROVE DestroyEntrypoint(h, ids) \in Smooth
<1>1. h \in Owners /\ Policy(h) \in Object /\ Key(h) \in Object /\ RouteCount[h] \in Nat
  BY NamedObjects, NetbirdAssumption DEF Owners
<1> DEFINE d(i) == DeleteIf(ids, Route(h, i))
           ss == [i \in 1..RouteCount[h] |-> DeleteIf(ids, Route(h, i))]
           r == FlattenSeq(ss)
           a == (DeleteIf(ids, Policy(h)) \o r) \o DeleteIf(ids, Key(h))
           p == Peers(ids, h)
           g == GroupAndRow(ids, h)
<1>2. r \in Smooth
  <2>1. \A i \in 1..RouteCount[h] : ss[i] \in Smooth
    <3>1. \A i \in 1..RouteCount[h] : Route(h, i) \in Object
      BY NamedObjects
    <3>2. \A i \in 1..RouteCount[h] : DeleteIf(ids, Route(h, i)) \in Smooth
      BY <3>1, DeleteIfSmooth
    <3> QED BY <3>2
  <2>2. ss \in [1..RouteCount[h] -> Smooth]
    <3>1. ss = [i \in 1..RouteCount[h] |-> ss[i]]
      OBVIOUS
    <3> HIDE DEF ss
    <3> QED BY <2>1, <3>1
  <2> HIDE DEF ss
  <2> QED BY <1>1, <2>2, FlattenSmooth
<1>3. a \in Smooth
  BY <1>1, <1>2, DeleteIfSmooth, SmoothCat
<1>4. p \o g \in Smooth /\ g \in Smooth
  BY <1>1, PeersSmooth, GroupAndRowSmooth
<1>5. p \in Seq(SweepStep)
  BY <1>1, PeersSteps
<1>6. (a \o p) \o g = a \o (p \o g)
  <2>1. a \in Seq(SweepStep) /\ g \in Seq(SweepStep)
    BY <1>3, <1>4 DEF Smooth
  <2> HIDE DEF a, p, g
  <2> QED BY <1>5, <2>1, ConcatAssociative
<1>7. a \o (p \o g) \in Smooth
  BY <1>3, <1>4, SmoothCat
<1>8. DestroyEntrypoint(h, ids) = (a \o p) \o g
  BY DEF DestroyEntrypoint
<1> HIDE DEF a, p, g
<1> QED BY <1>6, <1>7, <1>8

LEMMA SweepSmooth == ASSUME NEW copies PROVE Sweep(copies) \in Smooth
<1>1. Len(Entrypoints) \in Nat /\ \A i \in 1..Len(Entrypoints) : Entrypoints[i] \in Hosts
  BY NetbirdAssumption
<1> DEFINE ss == [i \in 1..Len(Entrypoints) |->
                    IF Entrypoints[i] \in Copied(copies)
                    THEN DestroyEntrypoint(Entrypoints[i], copies[Entrypoints[i]]) ELSE << >>]
           acc == IF Access \in Copied(copies) THEN DestroyAccess(copies[Access]) ELSE << >>
<1>2. FlattenSeq(ss) \in Smooth
  <2>1. ss \in [1..Len(Entrypoints) -> Smooth]
    <3> SUFFICES ASSUME NEW i \in 1..Len(Entrypoints)
                 PROVE  (IF Entrypoints[i] \in Copied(copies)
                         THEN DestroyEntrypoint(Entrypoints[i], copies[Entrypoints[i]])
                         ELSE << >>) \in Smooth
      OBVIOUS
    <3> QED BY <1>1, DestroyEntrypointSmooth, SmoothEmpty
  <2> HIDE DEF ss
  <2> QED BY <1>1, <2>1, FlattenSmooth
<1>3. acc \in Smooth
  BY DestroyAccessSmooth, SmoothEmpty
<1>4. Sweep(copies) = FlattenSeq(ss) \o acc
  BY DEF Sweep
<1> HIDE DEF ss, acc
<1> QED BY <1>2, <1>3, <1>4, SmoothCat

LEMMA SmoothTail ==
    ASSUME NEW W \in Smooth, W # << >>
    PROVE  /\ Head(W) \in SweepStep /\ Tail(W) \in Smooth
           /\ Head(W).op = "delete" => Head(W).checked
           /\ Head(W).op = "peers" /\ ~Head(W).checked
                => Tail(W) # << >> /\ Head(Tail(W)).checked
<1>1. W \in Seq(SweepStep) /\ Paced(W) /\ Len(W) \in Nat \ {0}
  BY EmptySeq DEF Smooth
<1> DEFINE V == Tail(W)
<1>2. /\ Head(W) \in SweepStep /\ Head(W) = W[1]
      /\ V \in Seq(SweepStep) /\ Len(V) = Len(W) - 1 /\ \A i \in 1..Len(V) : V[i] = W[i + 1]
  BY <1>1, HeadTailProperties
<1> HIDE DEF V
<1>3. Paced(V)
  <2> SUFFICES ASSUME NEW i \in 1..Len(V)
               PROVE  /\ V[i].op = "delete" => V[i].checked
                      /\ V[i].op = "peers" /\ ~V[i].checked => i < Len(V) /\ V[i + 1].checked
    BY DEF Paced
  <2>1. i + 1 \in 1..Len(W) /\ V[i] = W[i + 1]
    BY <1>1, <1>2
  <2>2. i + 1 < Len(W) => i < Len(V) /\ V[i + 1] = W[(i + 1) + 1]
    BY <1>1, <1>2, <2>1
  <2> QED BY <1>1, <2>1, <2>2 DEF Paced
<1>4. 1 \in 1..Len(W)
  BY <1>1
<1>5. 1 < Len(W) => V # << >> /\ Head(V) = W[2]
  <2> SUFFICES ASSUME 1 < Len(W) PROVE V # << >> /\ Head(V) = W[2]
    OBVIOUS
  <2>1. Len(V) # 0 /\ 1 \in 1..Len(V) /\ V[1] = W[1 + 1]
    BY <1>1, <1>2
  <2>2. V # << >>
    BY <2>1, EmptySeq
  <2> QED BY <1>2, <2>1, <2>2
<1>6. V \in Smooth
  BY <1>2, <1>3 DEF Smooth
<1>7. W[1].op = "delete" => W[1].checked
  BY <1>1, <1>4 DEF Paced
<1>8. W[1].op = "peers" /\ ~W[1].checked => 1 < Len(W) /\ W[1 + 1].checked
  BY <1>1, <1>4 DEF Paced
<1> QED BY <1>2, <1>5, <1>6, <1>7, <1>8 DEF V

\* A deletion put before the rest.
LEMMA DeleteFirst ==
    ASSUME NEW ids, NEW x \in Object, NEW W \in Smooth
    PROVE  /\ DeleteIf(ids, x) \o W \in Smooth
           /\ W # << >> /\ Head(W).checked
                => DeleteIf(ids, x) \o W = << >> \/ Head(DeleteIf(ids, x) \o W).checked
<1>1. DeleteIf(ids, x) \o W \in Smooth
  BY DeleteIfSmooth, SmoothCat
<1>2. W \in Seq(SweepStep)
  BY DEF Smooth
<1>3. CASE x \notin ids
  <2>1. DeleteIf(ids, x) \o W = W
    BY <1>2, <1>3, ConcatEmptySeq DEF DeleteIf
  <2> QED BY <1>1, <2>1
<1>4. CASE x \in ids
  <2> DEFINE d == [op |-> "delete", obj |-> x, checked |-> TRUE]
             V == <<d>> \o W
  <2>1. DeleteIf(ids, x) \o W = V
    BY <1>4 DEF DeleteIf, Do
  <2>2. <<d>> \in Seq(SweepStep) /\ Len(<<d>>) = 1 /\ <<d>>[1] = d
    BY DEF SweepStep
  <2>3. /\ V \in Seq(SweepStep) /\ Len(V) = Len(<<d>>) + Len(W)
        /\ \A i \in 1..Len(<<d>>) + Len(W) :
              V[i] = IF i <= Len(<<d>>) THEN <<d>>[i] ELSE W[i - Len(<<d>>)]
    BY <1>2, <2>2, ConcatProperties
  <2>4. Len(V) \in Nat /\ Len(V) # 0 /\ V[1] = d
    <3> HIDE DEF V
    <3>1. Len(W) \in Nat
      BY <1>2
    <3>2. Len(V) = 1 + Len(W) /\ 1 \in 1..1 + Len(W)
      BY <2>2, <2>3, <3>1
    <3>3. V[1] = <<d>>[1]
      BY <2>2, <2>3, <3>2
    <3> QED BY <2>2, <3>1, <3>2, <3>3
  <2>5. Head(V) = d
    <3> HIDE DEF V
    <3>1. V # << >>
      BY <2>4, EmptySeq
    <3> QED BY <2>3, <2>4, <3>1
  <2>6. d.checked
    OBVIOUS
  <2> HIDE DEF d, V
  <2> QED BY <1>1, <2>1, <2>5, <2>6
<1> QED BY <1>3, <1>4

-----------------------------------------------------------------------------
(* The time budget *)

\* The steps left are paced, an end guard has no deadline, a request that is in
\* time has started no late call, and after the one it may start it looks.
OverrunInv ==
    /\ work \in Smooth /\ expired \in BOOLEAN /\ late \in {0, 1}
    /\ sweeper = "teardown" /\ ~expired => late = 0
    /\ sweeper = "guard" => ~expired
    /\ sweeper = "none" => work = << >>
    /\ expired /\ late = 1 /\ work # << >> => Head(work).checked

LEMMA OverrunStep == OverrunInv /\ [Next]_vars => OverrunInv'
<1> SUFFICES ASSUME OverrunInv, [Next]_vars PROVE OverrunInv'
  OBVIOUS
<1> USE SmoothEmpty DEF OverrunInv
<1>1. CASE UNCHANGED vars
  BY <1>1 DEF vars
<1>2. CASE JobStart
  BY <1>2 DEF JobStart, sweepVars
<1>3. CASE GetOrCreateRow
  BY <1>3 DEF GetOrCreateRow, sweepVars
<1>4. CASE Create
  BY <1>4 DEF Create, sweepVars
<1>5. CASE Save
  BY <1>5 DEF Save, sweepVars
<1>6. CASE EndGuard
  <2>1. CASE UNCHANGED sweepVars
    BY <2>1 DEF sweepVars
  <2>2. CASE sweeper' = "guard" /\ work' = Sweep(held) /\ expired' = FALSE /\ late' = late
    <3>1. work' \in Smooth
      BY <2>2, SweepSmooth
    <3> QED BY <2>2, <3>1
  <2> QED BY <1>6, <2>1, <2>2 DEF EndGuard
<1>7. CASE JobCrash
  BY <1>7 DEF JobCrash
<1>8. CASE UserStage
  BY <1>8 DEF UserStage, sweepVars
<1>9. ASSUME NEW o \in Owners, Register(o) PROVE OverrunInv'
  BY <1>9 DEF Register, sweepVars
<1>10. CASE TeardownStart
  BY <1>10, SweepSmooth DEF TeardownStart
<1>11. CASE GiveUp
  BY <1>11 DEF GiveUp
<1>12. CASE Delete
  <2>1. work # << >> /\ Head(work).op = "delete" /\ ~(Head(work).checked /\ expired)
    BY <1>12 DEF Delete, Due, Next1
  <2>2. ~expired /\ Tail(work) \in Smooth
    BY <2>1, SmoothTail
  <2>3. /\ late' = late /\ work' = Tail(work) /\ sweeper' = sweeper
        /\ expired' = expired \/ (sweeper = "teardown" /\ expired' = TRUE)
    BY <1>12, <2>2 DEF Delete, Counted, Answers, Fails, Fault
  <2>4. sweeper' # "none"
    BY <2>1, <2>3
  <2>5. CASE expired' = expired
    BY <2>2, <2>3, <2>4, <2>5
  <2>6. CASE sweeper = "teardown" /\ expired' = TRUE
    <3>1. late' = 0 /\ work' \in Smooth /\ sweeper' = "teardown"
      BY <2>2, <2>3, <2>6
    <3> QED BY <2>6, <3>1
  <2> QED BY <2>3, <2>5, <2>6
<1>13. CASE ListPeers
  <2>1. work # << >> /\ Head(work).op = "peers" /\ ~(Head(work).checked /\ expired)
    BY <1>13 DEF ListPeers, Due, Next1
  <2>2. /\ Head(work) \in SweepStep /\ Tail(work) \in Smooth
        /\ expired => Tail(work) # << >> /\ Head(Tail(work)).checked
    BY <2>1, SmoothTail
  <2> DEFINE V == DeleteIf(cloud, Head(work).obj) \o Tail(work)
  <2>3. V \in Smooth /\ (expired => V = << >> \/ Head(V).checked)
    <3>1. Head(work).obj \in Object
      BY <2>2 DEF SweepStep
    <3> QED BY <2>2, <3>1, DeleteFirst
  <2>4. /\ late' = IF expired THEN late + 1 ELSE late
        /\ work' \in {V, Tail(work)} /\ sweeper' = sweeper
        /\ expired' = expired \/ (sweeper = "teardown" /\ expired' = TRUE)
    BY <1>13 DEF ListPeers, Counted, Answers, Fails, Fault, Next1
  <2>5. expired => late = 0
    BY <2>1
  <2> HIDE DEF V
  <2>6. work' \in Smooth /\ sweeper' # "none" /\ (expired => work' = << >> \/ Head(work').checked)
    BY <2>1, <2>2, <2>3, <2>4
  <2>7. CASE expired
    <3>1. late' = 1 /\ late' \in {0, 1}
      BY <2>4, <2>5, <2>7
    <3>2. sweeper' # "guard" /\ expired' = TRUE
      BY <2>4, <2>7
    <3> QED BY <2>6, <2>7, <3>1, <3>2
  <2>8. CASE ~expired /\ expired' = expired
    BY <2>4, <2>6, <2>8
  <2>9. CASE ~expired /\ sweeper = "teardown" /\ expired' = TRUE
    <3>1. late' = 0 /\ sweeper' = "teardown"
      BY <2>4, <2>9
    <3> QED BY <2>6, <2>9, <3>1
  <2> QED BY <2>4, <2>7, <2>8, <2>9
<1>14. CASE DeleteRow
  <2>1. work # << >> /\ Head(work).op = "row" /\ ~(Head(work).checked /\ expired)
    BY <1>14 DEF DeleteRow, Due, Next1
  <2>2. Tail(work) \in Smooth
    BY <2>1, SmoothTail
  <2>3. UNCHANGED <<sweeper, expired, late>> /\ work' = Tail(work)
    BY <1>14 DEF DeleteRow
  <2> QED BY <2>1, <2>2, <2>3
<1>15. CASE DeleteSandbox
  BY <1>15 DEF DeleteSandbox
<1>16. CASE GuardEnd
  BY <1>16 DEF GuardEnd
<1>17. CASE TeardownCrash
  BY <1>17 DEF TeardownCrash
<1> QED
  BY <1>1, <1>2, <1>3, <1>4, <1>5, <1>6, <1>7, <1>8, <1>9, <1>10, <1>11, <1>12, <1>13,
     <1>14, <1>15, <1>16, <1>17 DEF Next, Provision, Teardown

\* After its deadline a request starts at most one more call.
THEOREM OverrunTheorem == Spec => []OverrunBounded
<1>1. Init => OverrunInv
  BY SmoothEmpty DEF Init, OverrunInv
<1>2. OverrunInv => OverrunBounded
  BY DEF OverrunInv, OverrunBounded
<1> QED BY <1>1, <1>2, OverrunStep, PTL DEF Spec

-----------------------------------------------------------------------------
(* The steps of the job *)

Kind == {"group", "key", "route", "policy", "dns"}
Steps == [part : Owners \cup {"dns"}, op : {"row", "post", "save"}, obj : Kind \X Owners \X Nat]

\* The part of a step, and the row its object is recorded in.
Fits(s) ==
    /\ s.part = OwnerOf(s.obj) \/ (s.part = "dns" /\ OwnerOf(s.obj) = Access /\ s.op # "row")
    /\ s.op = "post" => s.obj \in Recordable(OwnerOf(s.obj))
    /\ s.op = "post" /\ s.obj[1] = "route" => s.part \in Hosts /\ s.obj \in Routes(s.part)
JobStep == {s \in Steps : Fits(s)}

\* The steps at which ids of routes may be waiting to be saved.
MayHold(s) == s.op = "save" \/ (s.op = "post" /\ s.obj[1] = "route")

\* A route is followed by the next one, or by the save of them all.
Unbroken(W) ==
    \A n \in 1..Len(W) : W[n].op = "post" /\ W[n].obj[1] = "route" =>
        n < Len(W) /\ W[n + 1].part = W[n].part /\ MayHold(W[n + 1])

\* Pieces of one part; and whole parts, each of which begins with its row.
InPart(p) == {W \in Seq(JobStep) : Unbroken(W) /\ \A n \in 1..Len(W) : W[n].part = p}
Parts == {W \in Seq(JobStep) :
    /\ Unbroken(W)
    /\ \A n \in 1..Len(W) :
          W[n].op = "row" \/ W[n].part = "dns" \/ (n > 1 /\ W[n].part = W[n - 1].part)}

LEMMA PiecesEmpty == << >> \in Parts /\ \A p : << >> \in InPart(p)
<1>1. << >> \in Seq(JobStep) /\ Len(<< >>) = 0
  BY EmptySeq
<1> QED BY <1>1 DEF Parts, InPart, Unbroken

LEMMA UnbrokenCat ==
    ASSUME NEW s \in Seq(JobStep), NEW t \in Seq(JobStep), Unbroken(s), Unbroken(t)
    PROVE  /\ s \o t \in Seq(JobStep) /\ Unbroken(s \o t)
           /\ Len(s \o t) = Len(s) + Len(t) /\ Len(s) \in Nat /\ Len(t) \in Nat
           /\ \A i \in 1..Len(s) + Len(t) :
                 (s \o t)[i] = IF i <= Len(s) THEN s[i] ELSE t[i - Len(s)]
<1>2. /\ s \o t \in Seq(JobStep) /\ Len(s \o t) = Len(s) + Len(t)
      /\ \A i \in 1..Len(s) + Len(t) :
            (s \o t)[i] = IF i <= Len(s) THEN s[i] ELSE t[i - Len(s)]
  BY ConcatProperties
<1>3. Len(s) \in Nat /\ Len(t) \in Nat
  OBVIOUS
<1> DEFINE W == s \o t
<1>6. Unbroken(W)
  <2> SUFFICES ASSUME NEW n \in 1..Len(W), W[n].op = "post", W[n].obj[1] = "route"
               PROVE  n < Len(W) /\ W[n + 1].part = W[n].part /\ MayHold(W[n + 1])
    BY DEF Unbroken
  <2>1. CASE n <= Len(s)
    <3>1. n \in 1..Len(s) /\ W[n] = s[n]
      BY <1>2, <1>3, <2>1
    <3>2. n < Len(s) => W[n + 1] = s[n + 1] /\ n < Len(W)
      BY <1>2, <1>3, <3>1
    <3> HIDE DEF W
    <3> QED BY <3>1, <3>2 DEF Unbroken
  <2>2. CASE ~(n <= Len(s))
    <3>1. n - Len(s) \in 1..Len(t) /\ W[n] = t[n - Len(s)]
      BY <1>2, <1>3, <2>2
    <3>2. ASSUME n - Len(s) < Len(t) PROVE W[n + 1] = t[(n - Len(s)) + 1] /\ n < Len(W)
      <4>1. /\ n + 1 \in 1..Len(s) + Len(t) /\ ~(n + 1 <= Len(s)) /\ n < Len(W)
            /\ (n + 1) - Len(s) = (n - Len(s)) + 1
        BY <1>2, <1>3, <2>2, <3>1, <3>2
      <4> QED BY <1>2, <1>3, <4>1
    <3> HIDE DEF W
    <3> QED BY <3>1, <3>2 DEF Unbroken
  <2> QED BY <2>1, <2>2
<1> QED BY <1>2, <1>3, <1>6

LEMMA InPartCat ==
    ASSUME NEW p, NEW s \in InPart(p), NEW t \in InPart(p) PROVE s \o t \in InPart(p)
<1>1. /\ s \in Seq(JobStep) /\ Unbroken(s) /\ \A n \in 1..Len(s) : s[n].part = p
      /\ t \in Seq(JobStep) /\ Unbroken(t) /\ \A n \in 1..Len(t) : t[n].part = p
  BY DEF InPart
<1> DEFINE W == s \o t
<1>2. /\ W \in Seq(JobStep) /\ Unbroken(W)
      /\ Len(W) = Len(s) + Len(t) /\ Len(s) \in Nat /\ Len(t) \in Nat
      /\ \A i \in 1..Len(s) + Len(t) : W[i] = IF i <= Len(s) THEN s[i] ELSE t[i - Len(s)]
  BY <1>1, UnbrokenCat
<1> HIDE DEF W
<1>3. ASSUME NEW n \in 1..Len(W) PROVE W[n].part = p
  <2>1. CASE n <= Len(s)
    BY <1>1, <1>2, <2>1
  <2>2. CASE ~(n <= Len(s))
    <3>1. n - Len(s) \in 1..Len(t) /\ W[n] = t[n - Len(s)]
      BY <1>2, <2>2
    <3> QED BY <1>1, <3>1
  <2> QED BY <2>1, <2>2
<1> QED BY <1>2, <1>3 DEF InPart, W

LEMMA PartsCat ==
    ASSUME NEW s \in Parts, NEW t \in Parts PROVE s \o t \in Parts
<1> DEFINE Led(V, n) ==
      V[n].op = "row" \/ V[n].part = "dns" \/ (n > 1 /\ V[n].part = V[n - 1].part)
<1>1. /\ s \in Seq(JobStep) /\ Unbroken(s) /\ \A n \in 1..Len(s) : Led(s, n)
      /\ t \in Seq(JobStep) /\ Unbroken(t) /\ \A n \in 1..Len(t) : Led(t, n)
  BY DEF Parts
<1> DEFINE W == s \o t
<1>2. /\ W \in Seq(JobStep) /\ Unbroken(W)
      /\ Len(W) = Len(s) + Len(t) /\ Len(s) \in Nat /\ Len(t) \in Nat
      /\ \A i \in 1..Len(s) + Len(t) : W[i] = IF i <= Len(s) THEN s[i] ELSE t[i - Len(s)]
  BY <1>1, UnbrokenCat
<1> HIDE DEF W
<1>3. ASSUME NEW n \in 1..Len(W) PROVE Led(W, n)
  <2>1. CASE n <= Len(s)
    <3>1. n \in 1..Len(s) /\ W[n] = s[n] /\ (n > 1 => W[n - 1] = s[n - 1])
      BY <1>2, <2>1
    <3> QED BY <1>1, <3>1
  <2>2. CASE ~(n <= Len(s))
    <3>1. n - Len(s) \in 1..Len(t) /\ W[n] = t[n - Len(s)] /\ n > Len(s)
      BY <1>2, <2>2
    <3>2. ASSUME n - Len(s) > 1 PROVE W[n - 1] = t[(n - Len(s)) - 1] /\ n > 1
      <4>1. /\ n - 1 \in 1..Len(s) + Len(t) /\ ~(n - 1 <= Len(s)) /\ n > 1
            /\ (n - 1) - Len(s) = (n - Len(s)) - 1
        BY <1>2, <3>1, <3>2
      <4> QED BY <1>2, <4>1
    <3> QED BY <1>1, <3>1, <3>2
  <2> QED BY <2>1, <2>2
<1> QED BY <1>2, <1>3 DEF Parts, W

\* The steps of the script have their part and their row.
LEMMA StepsFit ==
    /\ \A o \in Owners : /\ Step(o, "row", Group(o)) \in JobStep
                         /\ \A x \in {Group(o), Key(o)} :
                               x[1] # "route" /\ \A op \in {"post", "save"} : Step(o, op, x) \in JobStep
    /\ \A op \in {"post", "save"} : Step("dns", op, Nameservers) \in JobStep
    /\ \A h \in Hosts : /\ \A op \in {"post", "save"} : Step(h, op, Policy(h)) \in JobStep
                        /\ \A i \in 1..RouteCount[h] : Step(h, "post", Route(h, i)) \in JobStep
                        /\ Step(h, "save", Route(h, 1)) \in JobStep
<1>1. ASSUME NEW o \in Owners
      PROVE  /\ Group(o) \in Kind \X Owners \X Nat /\ OwnerOf(Group(o)) = o /\ Group(o)[1] = "group"
             /\ Key(o) \in Kind \X Owners \X Nat /\ OwnerOf(Key(o)) = o /\ Key(o)[1] = "key"
             /\ {Group(o), Key(o)} \subseteq Recordable(o)
  <2>1. {Group(o), Key(o)} \subseteq Recordable(o)
    BY DEF Recordable
  <2> QED BY <2>1 DEF Group, Key, Kind, OwnerOf
<1>2. /\ Nameservers \in Kind \X Owners \X Nat /\ OwnerOf(Nameservers) = Access
      /\ Nameservers[1] = "dns" /\ Nameservers \in Recordable(Access)
  <2>1. Nameservers \in Recordable(Access)
    BY DEF Recordable
  <2> QED BY <2>1 DEF Nameservers, Kind, OwnerOf, Owners
<1>3. ASSUME NEW h \in Hosts
      PROVE  /\ Policy(h) \in Kind \X Owners \X Nat /\ OwnerOf(Policy(h)) = h
             /\ Policy(h)[1] = "policy" /\ Policy(h) \in Recordable(h)
  <2>1. Policy(h) \in Recordable(h)
    BY NetbirdAssumption DEF Recordable
  <2> QED BY <2>1 DEF Policy, Kind, OwnerOf, Owners
<1>4. ASSUME NEW h \in Hosts, NEW i \in Nat
      PROVE  Route(h, i) \in Kind \X Owners \X Nat /\ OwnerOf(Route(h, i)) = h /\ Route(h, i)[1] = "route"
  BY DEF Route, Kind, OwnerOf, Owners
<1>5. ASSUME NEW h \in Hosts, NEW i \in 1..RouteCount[h]
      PROVE  Route(h, i) \in Routes(h) /\ Route(h, i) \in Recordable(h)
  BY NetbirdAssumption DEF Recordable, Routes
<1> HIDE DEF Kind, Group, Key, Policy, Nameservers, Route, OwnerOf, Recordable, Routes
<1>6. ASSUME NEW o \in Owners, NEW op \in {"row", "post", "save"}, NEW x \in Kind \X Owners \X Nat,
             OwnerOf(x) = o, op = "post" => x \in Recordable(o),
             op = "post" /\ x[1] = "route" => o \in Hosts /\ x \in Routes(o)
      PROVE  Step(o, op, x) \in JobStep
  BY <1>6 DEF Step, JobStep, Steps, Fits
<1>7. ASSUME NEW o \in Owners PROVE Step(o, "row", Group(o)) \in JobStep
  BY <1>1, <1>6
<1>8. ASSUME NEW o \in Owners, NEW x \in {Group(o), Key(o)}
      PROVE  x[1] # "route" /\ \A op \in {"post", "save"} : Step(o, op, x) \in JobStep
  BY <1>1, <1>6, <1>8
<1>9. ASSUME NEW op \in {"post", "save"} PROVE Step("dns", op, Nameservers) \in JobStep
  BY <1>2, <1>9 DEF Step, JobStep, Steps, Fits
<1>10. ASSUME NEW h \in Hosts
       PROVE  /\ \A op \in {"post", "save"} : Step(h, op, Policy(h)) \in JobStep
              /\ \A i \in 1..RouteCount[h] : Step(h, "post", Route(h, i)) \in JobStep
              /\ Step(h, "save", Route(h, 1)) \in JobStep
  <2>1. h \in Owners /\ RouteCount[h] \in Nat
    BY NetbirdAssumption DEF Owners
  <2>2. \A i \in 1..RouteCount[h] : Step(h, "post", Route(h, i)) \in JobStep
    BY <1>4, <1>5, <1>6, <2>1
  <2>3. Step(h, "save", Route(h, 1)) \in JobStep
    BY <1>4, <1>6, <2>1
  <2>4. \A op \in {"post", "save"} : Step(h, op, Policy(h)) \in JobStep
    BY <1>3, <1>6, <2>1
  <2> QED BY <2>2, <2>3, <2>4
<1> QED BY <1>7, <1>8, <1>9, <1>10

LEMMA MakeAndSaveIn ==
    ASSUME NEW p, NEW x, Step(p, "post", x) \in JobStep, Step(p, "save", x) \in JobStep,
           x[1] # "route"
    PROVE  MakeAndSave(p, x) \in InPart(p)
<1> DEFINE a == Step(p, "post", x)
           b == Step(p, "save", x)
           W == <<a, b>>
<1>1. a.part = p /\ b.part = p /\ a.obj[1] # "route" /\ b.op = "save"
  BY DEF Step
<1> HIDE DEF a, b
<1>2. W \in Seq(JobStep) /\ Len(W) = 2 /\ W[1] = a /\ W[2] = b
  BY DEF a, b
<1> HIDE DEF W
<1>3. Unbroken(W) /\ \A n \in 1..Len(W) : W[n].part = p
  BY <1>1, <1>2 DEF Unbroken
<1> QED BY <1>2, <1>3 DEF InPart, MakeAndSave, W, a, b

LEMMA RoutesIn ==
    ASSUME NEW h \in Hosts
    PROVE  /\ [i \in 1..RouteCount[h] |-> Step(h, "post", Route(h, i))] \in Seq(JobStep)
           /\ <<Step(h, "save", Route(h, 1))>> \in Seq(JobStep)
           /\ [i \in 1..RouteCount[h] |-> Step(h, "post", Route(h, i))]
                 \o <<Step(h, "save", Route(h, 1))>> \in InPart(h)
<1> DEFINE n == RouteCount[h]
           R == [i \in 1..n |-> Step(h, "post", Route(h, i))]
           b == Step(h, "save", Route(h, 1))
           S == <<b>>
           W == R \o S
<1>1. n \in Nat
  BY NetbirdAssumption
<1>2. \A i \in 1..n : /\ R[i] \in JobStep /\ R[i].part = h
                      /\ R[i].op = "post" /\ R[i].obj[1] = "route"
  <2>1. \A i \in 1..n : Step(h, "post", Route(h, i)) \in JobStep
    BY StepsFit
  <2> QED BY <2>1 DEF Step, Route
<1>3. R \in Seq(JobStep) /\ Len(R) = n
  <2>1. \A i \in 1..n : Step(h, "post", Route(h, i)) \in JobStep
    BY StepsFit
  <2>2. R \in [1..n -> JobStep]
    BY <2>1
  <2> HIDE DEF R, n
  <2> QED BY <1>1, <2>2
<1>4. b \in JobStep /\ b.part = h /\ b.op = "save"
  <2>1. b \in JobStep
    BY StepsFit
  <2> QED BY <2>1 DEF Step
<1> HIDE DEF b, R, n
<1>5. S \in Seq(JobStep) /\ Len(S) = 1 /\ S[1] = b
  BY <1>4
<1> HIDE DEF S
<1>6. /\ W \in Seq(JobStep) /\ Len(W) = Len(R) + Len(S)
      /\ \A i \in 1..Len(R) + Len(S) : W[i] = IF i <= Len(R) THEN R[i] ELSE S[i - Len(R)]
  BY <1>3, <1>5, ConcatProperties
<1> HIDE DEF W
<1>7. Len(W) = n + 1 /\ W[n + 1] = b /\ \A i \in 1..n : W[i] = R[i]
  BY <1>1, <1>3, <1>5, <1>6
<1>8. \A i \in 1..Len(W) : W[i].part = h /\ MayHold(W[i])
  BY <1>1, <1>2, <1>4, <1>7 DEF MayHold
<1>9. Unbroken(W)
  BY <1>1, <1>4, <1>7, <1>8 DEF Unbroken
<1>10. W \in InPart(h)
  BY <1>6, <1>8, <1>9 DEF InPart
<1> QED BY <1>3, <1>5, <1>10 DEF W, R, S, b, n

\* A part so far: its row, and pieces after it.
Led(o) == {W \in InPart(o) : Len(W) > 0 /\ W[1] = Step(o, "row", Group(o))}

LEMMA LedCat ==
    ASSUME NEW o, NEW s \in Led(o), NEW t \in InPart(o) PROVE s \o t \in Led(o)
<1>1. s \in InPart(o) /\ s \in Seq(JobStep) /\ t \in Seq(JobStep) /\ Len(s) > 0
  BY DEF Led, InPart
<1>2. s \o t \in InPart(o)
  BY <1>1, InPartCat
<1>3. Len(s \o t) > 0 /\ (s \o t)[1] = s[1]
  BY <1>1
<1> QED BY <1>2, <1>3 DEF Led

LEMMA RowLed == ASSUME NEW o \in Owners PROVE <<Step(o, "row", Group(o))>> \in Led(o)
<1> DEFINE r == Step(o, "row", Group(o))
           A == <<r>>
<1>1. r \in JobStep /\ r.part = o /\ r.op = "row"
  BY StepsFit DEF Step
<1> HIDE DEF r
<1>2. A \in Seq(JobStep) /\ Len(A) = 1 /\ A[1] = r
  BY <1>1
<1> HIDE DEF A
<1>3. Unbroken(A) /\ \A n \in 1..Len(A) : A[n].part = o
  BY <1>1, <1>2 DEF Unbroken
<1> QED BY <1>2, <1>3 DEF Led, InPart, A, r

LEMMA LedParts == ASSUME NEW o, NEW W \in Led(o) PROVE W \in Parts
<1>1. /\ W \in Seq(JobStep) /\ Unbroken(W) /\ \A n \in 1..Len(W) : W[n].part = o
      /\ W[1].op = "row"
  BY DEF Led, InPart, Step
<1>2. \A n \in 1..Len(W) : W[n].op = "row" \/ (n > 1 /\ W[n].part = W[n - 1].part)
  BY <1>1
<1> QED BY <1>1, <1>2 DEF Parts

\* Whatever was put before the routes, their save still follows them.
LEMMA RoutesLed ==
    ASSUME NEW h \in Hosts, NEW B \in Led(h)
    PROVE  (B \o [i \in 1..RouteCount[h] |-> Step(h, "post", Route(h, i))])
              \o <<Step(h, "save", Route(h, 1))>> \in Led(h)
<1> DEFINE R == [i \in 1..RouteCount[h] |-> Step(h, "post", Route(h, i))]
           S == <<Step(h, "save", Route(h, 1))>>
<1>1. R \in Seq(JobStep) /\ S \in Seq(JobStep) /\ R \o S \in InPart(h)
  BY RoutesIn
<1>2. B \in Seq(JobStep)
  BY DEF Led, InPart
<1> HIDE DEF R, S
<1>3. (B \o R) \o S = B \o (R \o S)
  BY <1>1, <1>2, ConcatAssociative
<1>4. B \o (R \o S) \in Led(h)
  BY <1>1, LedCat
<1>5. (B \o R) \o S \in Led(h)
  BY <1>3, <1>4, Zenon
<1> QED BY <1>5 DEF R, S

LEMMA EntrypointParts == ASSUME NEW h \in Hosts PROVE ProvisionEntrypoint(h) \in Parts
<1>1. h \in Owners /\ Policy(h)[1] # "route"
  BY DEF Owners, Policy
<1> DEFINE A == <<Step(h, "row", Group(h))>>
           G == MakeAndSave(h, Group(h))
           K == MakeAndSave(h, Key(h))
           R == [i \in 1..RouteCount[h] |-> Step(h, "post", Route(h, i))]
           S == <<Step(h, "save", Route(h, 1))>>
           P == MakeAndSave(h, Policy(h))
<1>2. A \in Led(h) /\ G \in InPart(h) /\ K \in InPart(h) /\ P \in InPart(h)
  BY <1>1, RowLed, StepsFit, MakeAndSaveIn
<1>3. A \o G \in Led(h)
  BY <1>2, LedCat
<1>4. (A \o G) \o K \in Led(h)
  BY <1>2, <1>3, LedCat
<1>5. (((A \o G) \o K) \o R) \o S \in Led(h)
  BY <1>4, RoutesLed
<1>6. ((((A \o G) \o K) \o R) \o S) \o P \in Led(h)
  <2> HIDE DEF A, G, K, R, S, P
  <2> QED BY <1>2, <1>5, LedCat
<1>7. ((((A \o G) \o K) \o R) \o S) \o P = ProvisionEntrypoint(h)
  BY DEF ProvisionEntrypoint
<1> HIDE DEF A, G, K, R, S, P
<1> QED BY <1>6, <1>7, LedParts

LEMMA AccessParts == ProvisionAccess \in Parts /\ ProvisionAccess \in Led(Access)
<1>1. Access \in Owners
  BY DEF Owners
<1> DEFINE A == <<Step(Access, "row", Group(Access))>>
           G == MakeAndSave(Access, Group(Access))
           K == MakeAndSave(Access, Key(Access))
<1>2. A \in Led(Access) /\ G \in InPart(Access) /\ K \in InPart(Access)
  BY <1>1, RowLed, StepsFit, MakeAndSaveIn
<1>3. A \o G \in Led(Access)
  BY <1>2, LedCat
<1>4. (A \o G) \o K \in Led(Access)
  BY <1>2, <1>3, LedCat
<1>5. (A \o G) \o K = ProvisionAccess
  BY DEF ProvisionAccess
<1> HIDE DEF A, G, K
<1> QED BY <1>4, <1>5, LedParts

LEMMA DnsParts == ProvisionDns \in Parts
<1>1. CASE Dns
  <2>1. Nameservers[1] # "route"
    BY DEF Nameservers
  <2>2. MakeAndSave("dns", Nameservers) \in InPart("dns")
    BY <2>1, StepsFit, MakeAndSaveIn
  <2>3. InPart("dns") \subseteq Parts
    BY DEF InPart, Parts
  <2> QED BY <1>1, <2>2, <2>3 DEF ProvisionDns
<1>2. CASE ~Dns
  BY <1>2, PiecesEmpty DEF ProvisionDns
<1> QED BY <1>1, <1>2

\* The script is made of whole parts, and begins with the access row.
LEMMA ScriptParts ==
    Script \in Parts /\ Len(Script) \in Nat \ {0} /\ Script[1] = Step(Access, "row", Group(Access))
<1> DEFINE X == ProvisionAccess
           ss == [i \in 1..Len(Entrypoints) |-> ProvisionEntrypoint(Entrypoints[i])]
           Y == FlattenSeq(ss)
           D == ProvisionDns
<1>1. Y \in Parts
  <2>1. Len(Entrypoints) \in Nat /\ \A i \in 1..Len(Entrypoints) : Entrypoints[i] \in Hosts
    BY NetbirdAssumption
  <2>2. ss \in [1..Len(Entrypoints) -> Parts]
    BY <2>1, EntrypointParts
  <2>3. Parts \in SUBSET Seq(JobStep)
    BY DEF Parts
  <2> HIDE DEF ss
  <2>4. ss \in Seq(Seq(JobStep)) /\ Len(ss) = Len(Entrypoints)
    BY <2>1, <2>2, <2>3
  <2> QED BY <2>2, <2>3, <2>4, PiecesEmpty, PartsCat, FlattenIn
<1>2. Script = (X \o D) \o Y
  BY DEF Script
<1> HIDE DEF X, D, Y, ss
<1>3. X \in Parts /\ Len(X) > 0 /\ X[1] = Step(Access, "row", Group(Access)) /\ D \in Parts
  BY AccessParts, DnsParts DEF X, D, Led
<1>4. X \o D \in Parts /\ (X \o D) \o Y \in Parts
  BY <1>1, <1>3, PartsCat
<1>5. X \in Seq(JobStep) /\ D \in Seq(JobStep) /\ Y \in Seq(JobStep) /\ X \o D \in Seq(JobStep)
  BY <1>1, <1>3, <1>4 DEF Parts
<1>6. Len(X \o D) = Len(X) + Len(D) /\ (X \o D)[1] = X[1]
  BY <1>3, <1>5
<1>7. Len(X \o D) \in Nat /\ Len(X \o D) > 0
  BY <1>3, <1>5, <1>6
<1>8. Len((X \o D) \o Y) = Len(X \o D) + Len(Y) /\ ((X \o D) \o Y)[1] = (X \o D)[1]
  BY <1>5, <1>7
<1>9. Len(Script) \in Nat \ {0}
  BY <1>2, <1>5, <1>7, <1>8
<1> QED BY <1>2, <1>3, <1>4, <1>6, <1>8, <1>9

\* What is used of the script below.
LEMMA ScriptFacts ==
    /\ Len(Script) \in Nat \ {0} /\ Script[1] = Step(Access, "row", Group(Access))
    /\ \A n \in 1..Len(Script) :
          /\ Script[n] \in JobStep
          /\ \/ Script[n].op = "row" \/ Script[n].part = "dns"
             \/ n > 1 /\ Script[n].part = Script[n - 1].part
          /\ Script[n].op = "post" /\ Script[n].obj[1] = "route" =>
                n < Len(Script) /\ Script[n + 1].part = Script[n].part /\ MayHold(Script[n + 1])
<1>1. Script \in Seq(JobStep) /\ Unbroken(Script)
  BY ScriptParts DEF Parts
<1>2. \A n \in 1..Len(Script) : Script[n] \in JobStep
  <2> HIDE DEF Script
  <2> QED BY <1>1
<1> QED BY <1>1, <1>2, ScriptParts DEF Unbroken, Parts

-----------------------------------------------------------------------------
(* Types *)

\* A copy for every owner, which names what may be recorded there.
Copies(copies) ==
    /\ copies = [o \in Owners |-> copies[o]]
    /\ \A o \in Owners : copies[o] = NoRow \/ copies[o] \subseteq Recordable(o)

\* A job that is at work has a copy of the row it fills, and the routes whose
\* ids it has not saved belong to the part it is in.
JobOK ==
    /\ at \in 1..Len(Script) + 1
    /\ job = "queued" => at = 1
    /\ made # {} => Working /\ Now.part \in Hosts /\ made \subseteq Routes(Now.part) /\ MayHold(Now)
    /\ Working /\ at > 1 => held[Access] # NoRow
    /\ Working /\ Now.op # "row" => held[OwnerOf(Now.obj)] # NoRow

ObjectsOK == {cloud, excused, known} \subseteq SUBSET Object /\ keys \subseteq Owners

PlainOK ==
    /\ sandbox \in BOOLEAN /\ user \in {"deferred", "ran", "cancelled"}
    /\ job \in {"queued", "running", "sweeping", "finished", "failed"}
    /\ sweeper \in {"none", "teardown", "guard"} /\ faults \in 0..MaxFaults
    /\ {expired, overlap, crashed} \subseteq BOOLEAN

TypeInv == PlainOK /\ ObjectsOK /\ Copies(rows) /\ Copies(held) /\ JobOK /\ OverrunInv

LEMMA TypeInvTypes == TypeInv => TypeOK
<1> SUFFICES ASSUME TypeInv PROVE TypeOK
  OBVIOUS
<1>1. made \subseteq UNION {Routes(h) : h \in Hosts}
  BY DEF TypeInv, JobOK
<1>2. late \in Nat
  BY DEF TypeInv, OverrunInv
<1> QED BY <1>1, <1>2 DEF TypeInv, TypeOK, PlainOK, ObjectsOK, Copies, JobOK

-----------------------------------------------------------------------------
(* Facts about types *)

LEMMA Recorded ==
    /\ \A o \in Owners : Recordable(o) \subseteq Object
    /\ Access \in Owners /\ Hosts \subseteq Owners /\ Access \notin Hosts
    /\ \A h \in Hosts : Routes(h) \subseteq Recordable(h)
    /\ \A ids \in SUBSET Object : ids # NoRow
<1>1. \A o \in Owners : Recordable(o) \subseteq Object
  BY DEF Object
<1>2. \A h \in Hosts : h # Access /\ Routes(h) \subseteq Recordable(h)
  BY NetbirdAssumption DEF Recordable
<1> QED BY <1>1, <1>2, RowAssumption, NetbirdAssumption DEF Owners

LEMMA NamedIn == ASSUME NEW copies, Copies(copies) PROVE Named(copies) \subseteq Object
<1>1. \A o \in Copied(copies) : o \in Owners /\ copies[o] \subseteq Object
  BY Recorded DEF Copies, Copied
<1> HIDE DEF Copied
<1> QED BY <1>1 DEF Named

LEMMA NoCopies == Copies([o \in Owners |-> NoRow])
BY DEF Copies

\* A set of numbers below some number has a least one.
LEMMA LeastNumber ==
    ASSUME NEW S \in SUBSET Nat, S # {} PROVE \E m \in S : \A n \in S : m <= n
<1>1. PICK m \in S : \A n \in S : <<n, m>> \notin OpToRel(<, Nat)
  BY NatLessThanWellFounded, WFMin
<1>2. \A n \in S : ~(n < m)
  BY <1>1 DEF OpToRel
<1> QED BY <1>2

\* A failed step is followed by another part, for which there is a copy of the
\* access row, or by the end guard.
LEMMA AfterFailureFacts ==
    ASSUME at \in 1..Len(Script), NEW n, n = AfterFailure
    PROVE  /\ n \in 2..Len(Script) + 1 /\ at < n
           /\ n <= Len(Script) => /\ held[Access] # NoRow
                                  /\ Script[n].op = "row" \/ OwnerOf(Script[n].obj) = Access
<1> DEFINE L == Len(Script)
           P(m) == /\ m <= L => Script[m].part # Script[at].part
                   /\ \A k \in at + 1..m - 1 : Script[k].part = Script[at].part
<1>1. L \in Nat \ {0}
  BY ScriptFacts
<1>2. CASE held[Access] = NoRow \/ Group(Access) \notin Named(held)
  BY <1>1, <1>2 DEF AfterFailure
<1>3. CASE ~(held[Access] = NoRow \/ Group(Access) \notin Named(held))
  <2>1. \E m \in at + 1..L + 1 : P(m)
    <3> DEFINE S == {m \in at + 1..L + 1 : m <= L => Script[m].part # Script[at].part}
    <3>1. S \in SUBSET Nat /\ L + 1 \in S
      BY <1>1
    <3>2. PICK m \in S : \A k \in S : m <= k
      <4> HIDE DEF S
      <4> QED BY <3>1, LeastNumber
    <3>3. \A k \in at + 1..m - 1 : Script[k].part = Script[at].part
      <4> SUFFICES ASSUME NEW k \in at + 1..m - 1 PROVE Script[k].part = Script[at].part
        OBVIOUS
      <4>1. k < m /\ k \in at + 1..L + 1
        BY <1>1
      <4>2. k \notin S
        BY <1>1, <3>2, <4>1
      <4> QED BY <4>1, <4>2
    <3> QED BY <3>2, <3>3
  <2>2. n = CHOOSE m \in at + 1..L + 1 : P(m)
    BY <1>3 DEF AfterFailure
  <2>3. n \in at + 1..L + 1 /\ P(n)
    <3> HIDE DEF P, L
    <3> QED BY <2>1, <2>2
  <2>4. n \in 2..L + 1 /\ at < n
    BY <1>1, <2>3
  <2>5. ASSUME n <= L PROVE Script[n].op = "row" \/ OwnerOf(Script[n].obj) = Access
    <3>1. n \in 1..L /\ n - 1 \in at..L /\ n # 1
      BY <1>1, <2>3, <2>5
    <3>2. Script[n - 1].part = Script[at].part
      <4>1. n - 1 = at \/ n - 1 \in at + 1..n - 1
        BY <1>1, <2>3
      <4> QED BY <2>3, <4>1
    <3>3. Script[n].part # Script[n - 1].part
      BY <2>3, <2>5, <3>2
    <3>4. Script[n].op = "row" \/ Script[n].part = "dns"
      BY <3>1, <3>3, ScriptFacts
    <3>5. Fits(Script[n])
      BY <3>1, ScriptFacts DEF JobStep
    <3>6. OwnerOf(Script[n].obj) \in Owners
      BY <3>1, ScriptFacts DEF JobStep, Steps, OwnerOf
    <3>7. "dns" \notin Owners
      BY NetbirdAssumption DEF Owners, Access
    <3> QED BY <3>4, <3>5, <3>6, <3>7 DEF Fits
  <2> QED BY <1>3, <2>4, <2>5
<1> QED BY <1>2, <1>3

LEMMA NowFacts ==
    ASSUME TypeInv, Working
    PROVE  /\ at \in 1..Len(Script) /\ Now \in JobStep /\ OwnerOf(Now.obj) \in Owners
           /\ at = 1 => Now.op = "row" /\ OwnerOf(Now.obj) = Access
           /\ Now.op # "row" => held[OwnerOf(Now.obj)] # NoRow
           /\ Now.op = "post" => Now.obj \in Recordable(OwnerOf(Now.obj))
           /\ Now.part \in Hosts => OwnerOf(Now.obj) = Now.part
           /\ Now.op = "post" /\ Now.obj[1] = "route" =>
                Now.part \in Hosts /\ Now.obj \in Routes(Now.part)
<1>1. at \in 1..Len(Script)
  BY ScriptFacts DEF TypeInv, JobOK, Working
<1>2. Now \in Steps /\ Fits(Now) /\ Now \in JobStep
  BY <1>1, ScriptFacts DEF Now, JobStep
<1>3. OwnerOf(Now.obj) \in Owners
  BY <1>2 DEF Steps, OwnerOf
<1>4. at = 1 => Now = Step(Access, "row", Group(Access))
  BY ScriptFacts DEF Now
<1>5. at = 1 => Now.op = "row" /\ OwnerOf(Now.obj) = Access
  BY <1>4 DEF Step, Group, OwnerOf
<1>6. Now.part \in Hosts => OwnerOf(Now.obj) = Now.part
  BY <1>2, NetbirdAssumption DEF Fits
<1> QED BY <1>1, <1>2, <1>3, <1>5, <1>6 DEF TypeInv, JobOK, Fits

\* The job goes one step on.
LEMMA Advance ==
    ASSUME TypeInv, Working, at' = at + 1, job' = job,
           \A o \in Owners : held[o] # NoRow => held'[o] # NoRow,
           Now.op = "row" => held'[OwnerOf(Now.obj)] # NoRow,
           \/ made' = {}
           \/ Now.op = "post" /\ Now.obj[1] = "route" /\ made' \subseteq Routes(Now.part)
    PROVE  JobOK'
<1> DEFINE L == Len(Script)
           o == OwnerOf(Now.obj)
           q == OwnerOf(Script[at + 1].obj)
<1>1. /\ L \in Nat \ {0} /\ at \in 1..L /\ o \in Owners /\ Fits(Now)
      /\ at = 1 => Now.op = "row" /\ o = Access
  BY NowFacts, ScriptFacts DEF JobStep
<1>2. held'[o] # NoRow
  BY <1>1, NowFacts
<1>3. held'[Access] # NoRow
  <2>1. CASE at = 1
    BY <1>1, <1>2, <2>1
  <2>2. CASE at # 1
    <3>1. held[Access] # NoRow
      BY <1>1, <2>2 DEF TypeInv, JobOK
    <3> QED BY <3>1, Recorded
  <2> QED BY <2>1, <2>2
<1>4. ASSUME at + 1 <= L, Script[at + 1].op # "row" PROVE held'[q] # NoRow
  <2>1. at + 1 \in 1..L /\ (at + 1) - 1 = at /\ at + 1 > 1
    BY <1>1, <1>4
  <2>2. /\ Script[at + 1] \in JobStep
        /\ Script[at + 1].part = "dns" \/ Script[at + 1].part = Script[at].part
    BY <1>4, <2>1, ScriptFacts
  <2>3. Fits(Script[at + 1]) /\ q \in Owners /\ "dns" \notin Owners
    BY <2>2, NetbirdAssumption DEF JobStep, Steps, OwnerOf, Owners, Access
  <2>4. q = Access \/ q = o
    <3>1. Script[at + 1].part = q \/ (Script[at + 1].part = "dns" /\ q = Access)
      BY <2>3 DEF Fits
    <3>2. Now.part = o \/ (Now.part = "dns" /\ o = Access)
      BY <1>1 DEF Fits
    <3>3. Script[at].part = Now.part
      BY DEF Now
    <3> DEFINE a == Script[at + 1].part
               b == Now.part
    <3>4. q \in Owners /\ "dns" \notin Owners /\ (a = "dns" \/ a = b)
      BY <2>2, <2>3, <3>3
    <3>5. (a = q \/ (a = "dns" /\ q = Access)) /\ (b = o \/ (b = "dns" /\ o = Access))
      BY <3>1, <3>2
    <3> HIDE DEF q, o, a, b
    <3> QED BY <3>4, <3>5
  <2> QED BY <1>2, <1>3, <2>4
<1>5. ASSUME made' # {}
      PROVE  /\ at + 1 <= L /\ Script[at + 1].part \in Hosts
             /\ made' \subseteq Routes(Script[at + 1].part) /\ MayHold(Script[at + 1])
  <2>1. Now.op = "post" /\ Now.obj[1] = "route" /\ made' \subseteq Routes(Now.part)
    BY <1>5
  <2>2. at < L /\ Script[at + 1].part = Now.part /\ MayHold(Script[at + 1])
    BY <1>1, <2>1, ScriptFacts DEF Now
  <2>3. Now.part \in Hosts
    BY <2>1, NowFacts
  <2> QED BY <1>1, <2>1, <2>2, <2>3
<1>6. at' \in 1..L + 1 /\ job' = "running" /\ at' = at + 1
  BY <1>1 DEF Working
<1> QED BY <1>3, <1>4, <1>5, <1>6 DEF JobOK, Working, Now

\* A step of the job raises.
LEMMA RaiseOK ==
    ASSUME TypeInv, Working, NEW lost \in SUBSET Object, Raise(lost), job' = job
    PROVE  Copies(held') /\ JobOK' /\ excused' \subseteq Object
<1> DEFINE h == Now.part
<1>1. at \in 1..Len(Script) /\ Copies(held) /\ Copies(rows) /\ excused \subseteq Object
  BY NowFacts DEF TypeInv, ObjectsOK
<1>2. made \subseteq Object
  <2>1. CASE made = {}
    BY <2>1
  <2>2. CASE made # {}
    <3>1. Now.part \in Hosts /\ made \subseteq Routes(Now.part)
      BY <2>2 DEF TypeInv, JobOK
    <3> QED BY <3>1, Recorded
  <2> QED BY <2>1, <2>2
<1>3. /\ at' \in 2..Len(Script) + 1
      /\ at' <= Len(Script) => /\ held[Access] # NoRow
                               /\ Script[at'].op = "row" \/ OwnerOf(Script[at'].obj) = Access
  BY <1>1, AfterFailureFacts DEF Raise
<1>4. made' = {}
  BY DEF Raise
<1>5. /\ Copies(held') /\ held'[Access] = held[Access] /\ excused' \subseteq Object
  <2>1. CASE h \in Hosts
    <3>1. /\ held' = [held EXCEPT ![h] = rows[h]]
          /\ excused' = excused \cup lost \cup made \cup
                (IF held[h] = NoRow THEN {}
                 ELSE IF rows[h] = NoRow THEN held[h] ELSE held[h] \ rows[h])
      BY <2>1 DEF Raise
    <3>2. h \in Owners /\ h # Access /\ Access \in Owners
      BY <2>1, Recorded
    <3>3. rows[h] = NoRow \/ rows[h] \subseteq Recordable(h)
      BY <1>1, <3>2 DEF Copies
    <3>4. Copies(held') /\ held'[Access] = held[Access]
      BY <1>1, <3>1, <3>2, <3>3 DEF Copies
    <3>5. held[h] = NoRow \/ held[h] \subseteq Object
      BY <1>1, <3>2, Recorded DEF Copies
    <3>6. (IF held[h] = NoRow THEN {}
           ELSE IF rows[h] = NoRow THEN held[h] ELSE held[h] \ rows[h]) \subseteq Object
      BY <3>5
    <3> QED BY <1>1, <1>2, <3>1, <3>4, <3>6
  <2>2. CASE h \notin Hosts
    BY <1>1, <2>2 DEF Raise
  <2> QED BY <2>1, <2>2
<1>6. job' = "running" /\ Len(Script) \in Nat
  BY ScriptFacts DEF Working
<1>7. JobOK'
  BY <1>3, <1>4, <1>5, <1>6 DEF JobOK, Working, Now
<1> QED BY <1>5, <1>7

-----------------------------------------------------------------------------
(* Every step keeps the types *)

\* A step that leaves the job alone.
LEMMA JobAlone == ASSUME TypeInv, UNCHANGED provVars PROVE JobOK' /\ Copies(held')
BY DEF TypeInv, provVars, JobOK, Working, Now, Copies

\* The job is forgotten.
LEMMA Forgotten ==
    ASSUME Forget, job' \in {"finished", "failed"} PROVE JobOK' /\ Copies(held')
<1>1. held' = [o \in Owners |-> NoRow] /\ made' = {} /\ at' = 1 /\ job' # "running"
  BY DEF Forget
<1>2. Len(Script) \in Nat \ {0}
  BY ScriptFacts
<1>3. Copies(held')
  BY <1>1, NoCopies
<1>4. JobOK'
  BY <1>1, <1>2 DEF JobOK, Working
<1> QED BY <1>3, <1>4

LEMMA Faulted == ASSUME PlainOK, Fault PROVE faults' \in 0..MaxFaults
BY NetbirdAssumption DEF PlainOK, Fault

LEMMA TypeJobStart == ASSUME TypeInv, JobStart PROVE PlainOK' /\ ObjectsOK' /\ Copies(rows') /\ Copies(held') /\ JobOK'
<1>1. /\ job = "queued" /\ job' \in {"running", "finished"}
      /\ UNCHANGED <<sandbox, rows, cloud, at, held, made, user, keys>>
      /\ UNCHANGED <<sweeper, known, expired, overlap, crashed, excused>>
      /\ UNCHANGED faults \/ Fault
  BY DEF JobStart, sweepVars
<1>2. PlainOK'
  <2>1. faults' \in 0..MaxFaults
    BY <1>1, Faulted DEF TypeInv, PlainOK
  <2> QED BY <1>1, <2>1 DEF TypeInv, PlainOK
<1>3. Copies(rows') /\ Copies(held') /\ ObjectsOK'
  BY <1>1 DEF TypeInv, ObjectsOK
<1>4. JobOK'
  <2>1. at' = 1 /\ made' = {} /\ Len(Script) \in Nat \ {0}
    BY <1>1, ScriptFacts DEF TypeInv, JobOK, Working
  <2>2. Script[1].op = "row"
    BY ScriptFacts DEF Step
  <2> QED BY <1>1, <2>1, <2>2 DEF JobOK, Working, Now
<1> QED BY <1>2, <1>3, <1>4

LEMMA TypeRow == ASSUME TypeInv, GetOrCreateRow PROVE PlainOK' /\ ObjectsOK' /\ Copies(rows') /\ Copies(held') /\ JobOK'
<1> DEFINE o == OwnerOf(Now.obj)
<1>1. /\ Working /\ Now.op = "row" /\ job' = job
      /\ UNCHANGED <<sandbox, cloud, user, keys, sweepVars, overlap, faults, crashed>>
  BY DEF GetOrCreateRow
<1>2. o \in Owners /\ Copies(rows) /\ Copies(held)
  BY <1>1, NowFacts DEF TypeInv
<1>3. PlainOK'
  BY <1>1 DEF TypeInv, PlainOK, sweepVars
<1>4. cloud' = cloud /\ known' = known /\ keys' = keys
  BY <1>1 DEF sweepVars
<1>5. CASE /\ rows' = [rows EXCEPT ![o] = IF @ = NoRow THEN {} ELSE @]
           /\ held' = [held EXCEPT ![o] = rows'[o]]
           /\ at' = at + 1 /\ UNCHANGED <<made, excused>>
  <2> DEFINE ids == IF rows[o] = NoRow THEN {} ELSE rows[o]
  <2>1. ids \subseteq Recordable(o) /\ ids # NoRow
    <3>1. {} # NoRow
      BY Recorded
    <3> QED BY <1>2, <3>1 DEF Copies
  <2>2. rows' = [rows EXCEPT ![o] = ids]
    BY <1>5
  <2> HIDE DEF ids, o
  <2>3. Copies(rows') /\ rows'[o] = ids
    BY <1>2, <2>1, <2>2 DEF Copies
  <2>4. held' = [held EXCEPT ![o] = ids]
    BY <1>5, <2>3
  <2>5. Copies(held') /\ held'[o] = ids /\ \A p \in Owners : p # o => held'[p] = held[p]
    BY <1>2, <2>1, <2>4 DEF Copies
  <2>6. made' = {}
    BY <1>1, <1>5 DEF TypeInv, JobOK, MayHold
  <2>7. JobOK'
    <3>1. \A p \in Owners : held[p] # NoRow => held'[p] # NoRow
      BY <2>1, <2>5
    <3>2. held'[OwnerOf(Now.obj)] # NoRow
      BY <2>1, <2>5 DEF o
    <3> QED BY <1>1, <1>5, <2>6, <3>1, <3>2, Advance
  <2>8. ObjectsOK'
    BY <1>4, <1>5 DEF TypeInv, ObjectsOK
  <2> QED BY <1>3, <2>3, <2>5, <2>7, <2>8
<1>6. CASE Raise({}) /\ UNCHANGED rows
  <2>1. Copies(held') /\ JobOK' /\ excused' \subseteq Object
    BY <1>1, <1>6, RaiseOK
  <2>2. ObjectsOK'
    BY <1>4, <2>1 DEF TypeInv, ObjectsOK
  <2> QED BY <1>2, <1>3, <1>6, <2>1, <2>2
<1> QED BY <1>5, <1>6 DEF GetOrCreateRow

LEMMA TypeCreate == ASSUME TypeInv, Create PROVE PlainOK' /\ ObjectsOK' /\ Copies(rows') /\ Copies(held') /\ JobOK'
<1> DEFINE x == Now.obj
           o == OwnerOf(Now.obj)
<1>1. /\ Working /\ Now.op = "post" /\ job' = job
      /\ UNCHANGED <<sandbox, rows, user, keys, sweepVars, overlap, crashed>>
      /\ UNCHANGED faults \/ Fault
  BY DEF Create
<1>2. /\ o \in Owners /\ Copies(rows) /\ Copies(held) /\ x \in Recordable(o) /\ x \in Object
      /\ held[o] # NoRow
      /\ x[1] = "route" => Now.part \in Hosts /\ x \in Routes(Now.part)
  BY <1>1, NowFacts, Recorded DEF TypeInv
<1>3. PlainOK'
  <2>1. faults' \in 0..MaxFaults
    BY <1>1, Faulted DEF TypeInv, PlainOK
  <2> QED BY <1>1, <2>1 DEF TypeInv, PlainOK, sweepVars
<1>4. known' = known /\ keys' = keys /\ rows' = rows /\ cloud \subseteq Object
      /\ excused \subseteq Object
  BY <1>1 DEF sweepVars, TypeInv, ObjectsOK
<1>5. cloud' = cloud \/ cloud' = cloud \cup {x}
  BY DEF Create
<1>6. CASE /\ IF x[1] = "route"
              THEN made' = made \cup {x} /\ UNCHANGED held
              ELSE held' = [held EXCEPT ![o] = @ \cup {x}] /\ UNCHANGED made
           /\ at' = at + 1 /\ UNCHANGED excused
  <2>1. ObjectsOK'
    BY <1>2, <1>4, <1>5, <1>6 DEF TypeInv, ObjectsOK
  <2>2. CASE x[1] = "route"
    <3>1. made' \subseteq Routes(Now.part)
      BY <1>2, <1>6, <2>2 DEF TypeInv, JobOK
    <3>2. JobOK'
      BY <1>1, <1>6, <2>2, <3>1, Advance
    <3> QED BY <1>2, <1>3, <1>4, <1>6, <2>1, <2>2, <3>2
  <2>3. CASE x[1] # "route"
    <3> DEFINE ids == held[o] \cup {x}
    <3>1. ids \subseteq Recordable(o) /\ ids \subseteq Object
      BY <1>2, Recorded DEF Copies
    <3>2. ids # NoRow
      BY <3>1, Recorded
    <3>3. held' = [held EXCEPT ![o] = ids] /\ made' = made
      BY <1>6, <2>3
    <3> HIDE DEF ids, o
    <3>4. Copies(held') /\ held'[o] = ids /\ \A p \in Owners : p # o => held'[p] = held[p]
      BY <1>2, <3>1, <3>3 DEF Copies
    <3>5. \A p \in Owners : held[p] # NoRow => held'[p] # NoRow
      BY <3>2, <3>4
    <3>6. made' = {}
      BY <1>1, <2>3, <3>3 DEF TypeInv, JobOK, MayHold
    <3>7. JobOK'
      BY <1>1, <1>6, <3>5, <3>6, Advance
    <3> QED BY <1>2, <1>3, <1>4, <2>1, <3>4, <3>7
  <2> QED BY <2>2, <2>3
<1>7. ASSUME NEW lost \in SUBSET Object, Raise(lost)
      PROVE  PlainOK' /\ ObjectsOK' /\ Copies(rows') /\ Copies(held') /\ JobOK'
  <2>1. Copies(held') /\ JobOK' /\ excused' \subseteq Object
    BY <1>1, <1>7, RaiseOK
  <2>2. ObjectsOK'
    BY <1>2, <1>4, <1>5, <2>1 DEF TypeInv, ObjectsOK
  <2> QED BY <1>2, <1>3, <1>4, <2>1, <2>2
<1>8. {} \in SUBSET Object /\ {x} \in SUBSET Object
  BY <1>2
<1> QED BY <1>6, <1>7, <1>8 DEF Create

LEMMA TypeSave == ASSUME TypeInv, Save PROVE PlainOK' /\ ObjectsOK' /\ Copies(rows') /\ Copies(held') /\ JobOK'
<1> DEFINE o == OwnerOf(Now.obj)
           ids == held[o] \cup made
<1>1. /\ Working /\ Now.op = "save" /\ job' = job
      /\ UNCHANGED <<sandbox, cloud, user, sweepVars, overlap, faults, crashed>>
  BY DEF Save
<1>2. o \in Owners /\ Copies(rows) /\ Copies(held) /\ held[o] # NoRow
  BY <1>1, NowFacts DEF TypeInv
<1>3. PlainOK'
  BY <1>1 DEF TypeInv, PlainOK, sweepVars
<1>4. cloud' = cloud /\ known' = known
  BY <1>1 DEF sweepVars
<1>5. CASE /\ rows' = [rows EXCEPT ![o] = ids] /\ keys' = keys \cup Shown(ids)
           /\ held' = [held EXCEPT ![o] = ids]
           /\ at' = at + 1 /\ made' = {} /\ UNCHANGED excused
  <2>1. made \subseteq Recordable(o)
    <3>1. CASE made = {}
      BY <3>1
    <3>2. CASE made # {}
      <4>1. Now.part \in Hosts /\ made \subseteq Routes(Now.part)
        BY <3>2 DEF TypeInv, JobOK
      <4>2. Now.part = o
        BY <1>1, <4>1, NowFacts
      <4> QED BY <4>1, <4>2, Recorded
    <3> QED BY <3>1, <3>2
  <2>2. ids \subseteq Recordable(o) /\ ids \subseteq Object
    BY <1>2, <2>1, Recorded DEF Copies
  <2>3. ids # NoRow
    BY <2>2, Recorded
  <2>4. Shown(ids) \subseteq Owners
    BY Recorded DEF Shown
  <2> HIDE DEF ids, o
  <2>5. Copies(rows') /\ Copies(held') /\ held'[o] = ids
    BY <1>2, <1>5, <2>2 DEF Copies
  <2>6. \A p \in Owners : held[p] # NoRow => held'[p] # NoRow
    BY <1>2, <1>5, <2>3 DEF Copies
  <2>7. JobOK'
    BY <1>1, <1>5, <2>6, Advance
  <2>8. ObjectsOK'
    BY <1>4, <1>5, <2>4 DEF TypeInv, ObjectsOK
  <2> QED BY <1>3, <2>5, <2>7, <2>8
<1>6. CASE Raise({}) /\ UNCHANGED <<rows, keys>>
  <2>1. Copies(held') /\ JobOK' /\ excused' \subseteq Object
    BY <1>1, <1>6, RaiseOK
  <2>2. ObjectsOK'
    BY <1>4, <1>6, <2>1 DEF TypeInv, ObjectsOK
  <2> QED BY <1>2, <1>3, <1>6, <2>1, <2>2
<1> QED BY <1>5, <1>6 DEF Save

LEMMA RecordedByOwner == \A o \in Owners : \A x \in Recordable(o) \cup {Peer(o)} : OwnerOf(x) = o
<1>1. Access \notin Hosts
  BY NetbirdAssumption
<1> QED BY <1>1 DEF Recordable, Peer, Group, Key, Nameservers, Routes, Route, Policy,
               OwnerOf, Owners

LEMMA ObjectOwner == \A x \in Object : OwnerOf(x) \in Owners
<1>1. \A o \in Owners : \A x \in Recordable(o) \cup {Peer(o)} : OwnerOf(x) = o
  BY RecordedByOwner
<1>2. \A x \in Object : \E o \in Owners : x \in Recordable(o) \cup {Peer(o)}
  BY DEF Object
<1> HIDE DEF Object, Recordable, Peer, OwnerOf
<1> QED BY <1>1, <1>2

LEMMA TypeEndGuard == ASSUME TypeInv, EndGuard PROVE PlainOK' /\ ObjectsOK' /\ Copies(rows') /\ Copies(held') /\ JobOK'
<1>1. /\ job = "running" /\ at > Len(Script)
      /\ UNCHANGED <<sandbox, rows, cloud, user, keys, overlap, crashed>>
      /\ UNCHANGED faults \/ Fault
  BY DEF EndGuard
<1>2. /\ Copies(rows) /\ Copies(held) /\ Named(held) \subseteq Object
      /\ cloud \subseteq Object /\ excused \subseteq Object /\ known \subseteq Object
  BY NamedIn DEF TypeInv, ObjectsOK
<1>3. faults' \in 0..MaxFaults
  BY <1>1, Faulted DEF TypeInv, PlainOK
<1>4. Unseen(Named(held) \ Named(rows)) \subseteq Object
  BY <1>2 DEF Unseen
<1>5. CASE /\ job' = "finished" /\ Forget /\ UNCHANGED sweepVars
           /\ \/ excused' = excused \cup Unseen(Named(held) \ Named(rows))
              \/ excused' = excused \cup cloud
  <2>1. JobOK' /\ Copies(held')
    BY <1>5, Forgotten
  <2>2. UNCHANGED <<sweeper, known, expired>>
    BY <1>5 DEF sweepVars
  <2>3. ObjectsOK'
    BY <1>1, <1>2, <1>4, <1>5, <2>2 DEF ObjectsOK, TypeInv
  <2>4. PlainOK'
    BY <1>1, <1>3, <1>5, <2>2 DEF PlainOK, TypeInv
  <2> QED BY <1>1, <1>2, <2>1, <2>3, <2>4
<1>6. CASE /\ job' = "sweeping" /\ sweeper' = "guard" /\ known' = Named(held) /\ expired' = FALSE
           /\ UNCHANGED <<at, held, made, faults, excused>>
  <2>1. JobOK'
    <3>1. made = {}
      BY <1>1, ScriptFacts DEF TypeInv, JobOK, Working
    <3> QED BY <1>6, <3>1 DEF TypeInv, JobOK, Working
  <2>2. ObjectsOK'
    BY <1>1, <1>2, <1>6 DEF ObjectsOK, TypeInv
  <2>3. PlainOK'
    BY <1>1, <1>3, <1>6 DEF PlainOK, TypeInv
  <2> QED BY <1>1, <1>2, <1>6, <2>1, <2>2, <2>3
<1> QED BY <1>5, <1>6 DEF EndGuard

LEMMA TypeJobCrash == ASSUME TypeInv, JobCrash PROVE PlainOK' /\ ObjectsOK' /\ Copies(rows') /\ Copies(held') /\ JobOK'
<1>1. /\ Fault /\ job' = "failed" /\ crashed' = TRUE /\ Forget
      /\ excused' = excused \cup ((cloud \cap (Named(held) \cup made)) \ Named(rows))
      /\ sweeper' = IF sweeper = "guard" THEN "none" ELSE sweeper
      /\ UNCHANGED <<sandbox, rows, cloud, user, keys, known, expired, late, overlap>>
  BY DEF JobCrash
<1>2. JobOK' /\ Copies(held')
  BY <1>1, Forgotten
<1>3. ObjectsOK'
  BY <1>1 DEF TypeInv, ObjectsOK
<1>4. faults' \in 0..MaxFaults
  BY <1>1, Faulted DEF TypeInv
<1>5. PlainOK'
  BY <1>1, <1>4 DEF TypeInv, PlainOK
<1> QED BY <1>1, <1>2, <1>3, <1>5 DEF TypeInv

LEMMA TypeUserStage == ASSUME TypeInv, UserStage PROVE PlainOK' /\ ObjectsOK' /\ Copies(rows') /\ Copies(held') /\ JobOK'
<1>1. /\ user' = "ran" /\ keys' = keys \cup {h \in Hosts : rows[h] # NoRow /\ Key(h) \in Named(rows)}
      /\ UNCHANGED <<sandbox, rows, cloud, provVars, sweepVars, overlap, faults, crashed, excused>>
  BY DEF UserStage
<1>2. JobOK' /\ Copies(held')
  BY <1>1, JobAlone
<1>3. PlainOK' /\ ObjectsOK'
  BY <1>1, Recorded DEF TypeInv, PlainOK, ObjectsOK, provVars, sweepVars
<1> QED BY <1>1, <1>2, <1>3 DEF TypeInv

LEMMA TypeRegister ==
    ASSUME TypeInv, NEW o \in Owners, Register(o)
    PROVE  PlainOK' /\ ObjectsOK' /\ Copies(rows') /\ Copies(held') /\ JobOK'
<1>1. /\ cloud' = cloud \cup {Peer(o)}
      /\ UNCHANGED <<sandbox, rows, provVars, user, keys, sweepVars, overlap, faults, crashed, excused>>
  BY DEF Register
<1>2. JobOK' /\ Copies(held')
  BY <1>1, JobAlone
<1>3. Peer(o) \in Object
  BY NamedObjects
<1>4. PlainOK' /\ ObjectsOK'
  BY <1>1, <1>3 DEF TypeInv, PlainOK, ObjectsOK, provVars, sweepVars
<1> QED BY <1>1, <1>2, <1>4 DEF TypeInv

LEMMA TypeTeardownStart == ASSUME TypeInv, TeardownStart PROVE PlainOK' /\ ObjectsOK' /\ Copies(rows') /\ Copies(held') /\ JobOK'
<1>1. /\ overlap' = (overlap \/ ~Ended)
      /\ user' = IF user = "deferred" THEN "cancelled" ELSE user
      /\ sweeper' = "teardown" /\ expired' = FALSE
      /\ \/ known' = Named(rows) /\ UNCHANGED <<faults, excused>>
         \/ Fault /\ known' = {} /\ excused' = excused \cup Named(rows)
      /\ UNCHANGED <<sandbox, rows, cloud, provVars, keys, crashed>>
  BY DEF TeardownStart
<1>2. JobOK' /\ Copies(held')
  BY <1>1, JobAlone
<1>3. Named(rows) \subseteq Object /\ faults' \in 0..MaxFaults
  BY <1>1, NamedIn, Faulted DEF TypeInv, PlainOK
<1>4. ObjectsOK'
  BY <1>1, <1>3 DEF TypeInv, ObjectsOK
<1>5. overlap' \in BOOLEAN
  BY <1>1, Zenon
<1>6. PlainOK'
  BY <1>1, <1>3, <1>5 DEF TypeInv, PlainOK, provVars
<1> QED BY <1>1, <1>2, <1>4, <1>6 DEF TypeInv

LEMMA TypeGiveUp == ASSUME TypeInv, GiveUp PROVE PlainOK' /\ ObjectsOK' /\ Copies(rows') /\ Copies(held') /\ JobOK'
<1>1. /\ excused' = excused \cup
            {x \in cloud : \E i \in 1..Len(work) : OwnerOf(work[i].obj) = OwnerOf(x)}
      /\ UNCHANGED <<sandbox, rows, cloud, provVars, user, keys, sweeper, known,
                     expired, late, overlap, faults, crashed>>
  BY DEF GiveUp
<1>2. JobOK' /\ Copies(held')
  BY <1>1, JobAlone
<1>3. PlainOK' /\ ObjectsOK'
  BY <1>1 DEF TypeInv, PlainOK, ObjectsOK, provVars
<1> QED BY <1>1, <1>2, <1>3 DEF TypeInv

\* What a step of a teardown is about.
LEMMA HeadObject ==
    ASSUME TypeInv, work # << >>
    PROVE  Next1.obj \in Object /\ OwnerOf(Next1.obj) \in Owners
<1>1. Head(work) \in SweepStep
  BY SmoothTail DEF TypeInv, OverrunInv
<1>2. Next1.obj \in Object
  BY <1>1 DEF SweepStep, Next1
<1> QED BY <1>2, ObjectOwner

LEMMA Answered ==
    ASSUME TypeInv, Answers \/ Fails PROVE expired' \in BOOLEAN /\ faults' \in 0..MaxFaults
<1>1. UNCHANGED faults \/ Fault
  BY DEF Answers, Fails
<1>2. faults' \in 0..MaxFaults
  BY <1>1, Faulted DEF TypeInv, PlainOK
<1>3. expired' = expired \/ expired' = TRUE
  BY DEF Answers, Fails
<1> QED BY <1>2, <1>3 DEF TypeInv, PlainOK

LEMMA TypeDelete == ASSUME TypeInv, Delete PROVE PlainOK' /\ ObjectsOK' /\ Copies(rows') /\ Copies(held') /\ JobOK'
<1> DEFINE x == Next1.obj
<1>1. /\ work # << >> /\ (Answers \/ Fails)
      /\ cloud' \subseteq cloud
      /\ excused' \subseteq excused \cup {x} \cup {Peer(OwnerOf(x))} \cup Users(x)
      /\ UNCHANGED <<sandbox, rows, provVars, user, keys, sweeper, known, overlap, crashed>>
  BY DEF Delete, Due
<1>2. JobOK' /\ Copies(held')
  BY <1>1, JobAlone
<1>3. x \in Object /\ Peer(OwnerOf(x)) \in Object /\ Users(x) \subseteq Object
  BY <1>1, HeadObject, NamedObjects DEF TypeInv, ObjectsOK, Users
<1>4. expired' \in BOOLEAN /\ faults' \in 0..MaxFaults
  BY <1>1, Answered
<1>5. ObjectsOK'
  BY <1>1, <1>3 DEF TypeInv, ObjectsOK
<1>6. PlainOK'
  BY <1>1, <1>4 DEF TypeInv, PlainOK, provVars
<1> QED BY <1>1, <1>2, <1>5, <1>6 DEF TypeInv

LEMMA TypeListPeers == ASSUME TypeInv, ListPeers PROVE PlainOK' /\ ObjectsOK' /\ Copies(rows') /\ Copies(held') /\ JobOK'
<1> DEFINE x == Next1.obj
<1>1. /\ work # << >> /\ (Answers \/ Fails) /\ excused' \subseteq excused \cup {x}
      /\ UNCHANGED <<sandbox, rows, cloud, provVars, user, keys, sweeper, known, overlap, crashed>>
  BY DEF ListPeers, Due
<1>2. JobOK' /\ Copies(held')
  BY <1>1, JobAlone
<1>3. x \in Object
  BY <1>1, HeadObject
<1>4. expired' \in BOOLEAN /\ faults' \in 0..MaxFaults
  BY <1>1, Answered DEF Fails
<1>5. ObjectsOK'
  BY <1>1, <1>3 DEF TypeInv, ObjectsOK
<1>6. PlainOK'
  BY <1>1, <1>4 DEF TypeInv, PlainOK, provVars
<1> QED BY <1>1, <1>2, <1>5, <1>6 DEF TypeInv

LEMMA TypeDeleteRow == ASSUME TypeInv, DeleteRow PROVE PlainOK' /\ ObjectsOK' /\ Copies(rows') /\ Copies(held') /\ JobOK'
<1> DEFINE o == OwnerOf(Next1.obj)
<1>1. /\ work # << >> /\ rows' = [rows EXCEPT ![o] = NoRow]
      /\ excused' = IF Ended /\ rows[o] # NoRow THEN excused \cup Unseen(rows[o]) ELSE excused
      /\ UNCHANGED <<sandbox, cloud, provVars, user, keys, sweeper, known, expired, late,
                     overlap, faults, crashed>>
  BY DEF DeleteRow, Due
<1>2. JobOK' /\ Copies(held')
  BY <1>1, JobAlone
<1>3. o \in Owners
  BY <1>1, HeadObject
<1> HIDE DEF o
<1>4. Copies(rows')
  BY <1>1, <1>3 DEF TypeInv, Copies
<1>5. rows[o] # NoRow => Unseen(rows[o]) \subseteq Object
  BY <1>3, Recorded DEF TypeInv, Copies, Unseen
<1>6. PlainOK' /\ ObjectsOK'
  BY <1>1, <1>5 DEF TypeInv, PlainOK, ObjectsOK, provVars
<1> QED BY <1>2, <1>4, <1>6

LEMMA TypeDeleteSandbox == ASSUME TypeInv, DeleteSandbox PROVE PlainOK' /\ ObjectsOK' /\ Copies(rows') /\ Copies(held') /\ JobOK'
<1>1. /\ sandbox' = FALSE /\ sweeper' = "none" /\ rows' = [o \in Owners |-> NoRow]
      /\ excused' = IF Ended THEN excused \cup Unseen(Named(rows)) ELSE excused
      /\ UNCHANGED <<cloud, provVars, user, keys, work, known, expired, late, overlap, faults, crashed>>
  BY DEF DeleteSandbox
<1>2. JobOK' /\ Copies(held')
  BY <1>1, JobAlone
<1>3. Unseen(Named(rows)) \subseteq Object
  BY NamedIn DEF TypeInv, Unseen
<1>4. Copies(rows')
  BY <1>1, NoCopies
<1>5. PlainOK' /\ ObjectsOK'
  BY <1>1, <1>3 DEF TypeInv, PlainOK, ObjectsOK, provVars
<1> QED BY <1>2, <1>4, <1>5

LEMMA TypeGuardEnd == ASSUME TypeInv, GuardEnd PROVE PlainOK' /\ ObjectsOK' /\ Copies(rows') /\ Copies(held') /\ JobOK'
<1>1. /\ sweeper' = "none" /\ job' = "finished" /\ Forget
      /\ UNCHANGED <<sandbox, rows, cloud, user, keys, work, known, expired, late,
                     overlap, faults, crashed, excused>>
  BY DEF GuardEnd
<1>2. JobOK' /\ Copies(held')
  BY <1>1, Forgotten
<1>3. PlainOK' /\ ObjectsOK'
  BY <1>1 DEF TypeInv, PlainOK, ObjectsOK
<1> QED BY <1>1, <1>2, <1>3 DEF TypeInv

LEMMA TypeTeardownCrash == ASSUME TypeInv, TeardownCrash PROVE PlainOK' /\ ObjectsOK' /\ Copies(rows') /\ Copies(held') /\ JobOK'
<1>1. /\ Fault /\ sweeper' = "none" /\ crashed' = TRUE
      /\ UNCHANGED <<sandbox, rows, cloud, provVars, user, keys, known, expired,
                     late, overlap, excused>>
  BY DEF TeardownCrash
<1>2. JobOK' /\ Copies(held')
  BY <1>1, JobAlone
<1>3. faults' \in 0..MaxFaults
  BY <1>1, Faulted DEF TypeInv
<1>4. PlainOK' /\ ObjectsOK'
  BY <1>1, <1>3 DEF TypeInv, PlainOK, ObjectsOK, provVars
<1> QED BY <1>1, <1>2, <1>4 DEF TypeInv

LEMMA TypeStep == TypeInv /\ [Next]_vars => TypeInv'
<1> SUFFICES ASSUME TypeInv, [Next]_vars PROVE TypeInv'
  OBVIOUS
<1>1. OverrunInv'
  BY OverrunStep DEF TypeInv
<1>2. CASE UNCHANGED vars
  <2>1. JobOK' /\ Copies(held')
    BY <1>2, JobAlone DEF vars, provVars
  <2>2. PlainOK' /\ ObjectsOK' /\ Copies(rows')
    BY <1>2 DEF vars, TypeInv, PlainOK, ObjectsOK
  <2> QED BY <1>1, <2>1, <2>2 DEF TypeInv
<1>3. CASE Next
  <2>1. PlainOK' /\ ObjectsOK' /\ Copies(rows') /\ Copies(held') /\ JobOK'
    BY <1>3, TypeJobStart, TypeRow, TypeCreate, TypeSave, TypeEndGuard, TypeJobCrash,
       TypeUserStage, TypeRegister, TypeTeardownStart, TypeGiveUp, TypeDelete,
       TypeListPeers, TypeDeleteRow, TypeDeleteSandbox, TypeGuardEnd, TypeTeardownCrash
       DEF Next, Provision, Teardown
  <2> QED BY <1>1, <2>1 DEF TypeInv
<1> QED BY <1>2, <1>3

LEMMA TypeInit == Init => TypeInv
<1> SUFFICES ASSUME Init PROVE TypeInv
  OBVIOUS
<1>1. Copies(rows) /\ Copies(held)
  BY NoCopies DEF Init
<1>2. OverrunInv
  BY SmoothEmpty DEF Init, OverrunInv
<1>3. JobOK
  BY ScriptFacts DEF Init, JobOK, Working
<1>4. faults \in 0..MaxFaults
  <2>1. faults = 0 /\ MaxFaults \in Nat
    BY NetbirdAssumption DEF Init
  <2> QED BY <2>1
<1>5. PlainOK /\ ObjectsOK
  BY <1>4 DEF Init, PlainOK, ObjectsOK
<1> QED BY <1>1, <1>2, <1>3, <1>5 DEF TypeInv

\* Every variable keeps its type; a job at work always has the row it fills.
THEOREM TypeCorrect == Spec => []TypeOK
BY TypeInit, TypeStep, TypeInvTypes, PTL DEF Spec

-----------------------------------------------------------------------------
(* The order of the steps *)

\* What the payload of a creation names was made before, in the same piece or
\* by the part of the access row; what is saved alone was made just before.
Grounded(W) ==
    \A n \in 1..Len(W) : W[n].op = "post" =>
        \A g \in Refs(W[n].obj) :
            g = Group(Access) \/ \E m \in 1..n - 1 : W[m].op = "post" /\ W[m].obj = g
Paired(W) ==
    \A n \in 1..Len(W) : W[n].op = "save" /\ W[n].obj[1] # "route" =>
        n > 1 /\ W[n - 1].op = "post" /\ W[n - 1].obj = W[n].obj
Ordered == {W \in Seq(JobStep) : Grounded(W) /\ Paired(W)}

\* Some step of W does op to x.
Occurs(W, op, x) == \E n \in 1..Len(W) : W[n].op = op /\ W[n].obj = x

LEMMA OrderedEmpty == << >> \in Ordered
<1>1. << >> \in Seq(JobStep) /\ Len(<< >>) = 0
  BY EmptySeq
<1> QED BY <1>1 DEF Ordered, Grounded, Paired

\* Where the steps of two sequences are when they are put together.
LEMMA Places ==
    ASSUME NEW S, NEW s \in Seq(S), NEW t \in Seq(S), NEW W, W = s \o t
    PROVE  /\ W \in Seq(S) /\ Len(W) = Len(s) + Len(t) /\ Len(s) \in Nat /\ Len(t) \in Nat
           /\ \A n \in 1..Len(s) : n \in 1..Len(W) /\ W[n] = s[n]
           /\ \A n \in 1..Len(t) : Len(s) + n \in 1..Len(W) /\ W[Len(s) + n] = t[n]
           /\ \A n \in 1..Len(W) : n \notin 1..Len(s) => n - Len(s) \in 1..Len(t) /\ W[n] = t[n - Len(s)]
<1>1. /\ W \in Seq(S) /\ Len(W) = Len(s) + Len(t)
      /\ \A i \in 1..Len(s) + Len(t) : W[i] = IF i <= Len(s) THEN s[i] ELSE t[i - Len(s)]
  BY ConcatProperties
<1>2. Len(s) \in Nat /\ Len(t) \in Nat
  OBVIOUS
<1>3. ASSUME NEW n \in 1..Len(t) PROVE Len(s) + n \in 1..Len(W) /\ W[Len(s) + n] = t[n]
  <2>1. Len(s) + n \in 1..Len(s) + Len(t) /\ ~(Len(s) + n <= Len(s)) /\ (Len(s) + n) - Len(s) = n
    BY <1>2
  <2> QED BY <1>1, <2>1
<1>4. ASSUME NEW n \in 1..Len(W), n \notin 1..Len(s)
      PROVE  n - Len(s) \in 1..Len(t) /\ W[n] = t[n - Len(s)]
  BY <1>1, <1>2, <1>4
<1> QED BY <1>1, <1>2, <1>3, <1>4

LEMMA OccursCat ==
    ASSUME NEW S, NEW s \in Seq(S), NEW t \in Seq(S), NEW op, NEW x,
           Occurs(s, op, x) \/ Occurs(t, op, x)
    PROVE  Occurs(s \o t, op, x)
<1> DEFINE W == s \o t
<1>1. /\ \A n \in 1..Len(s) : n \in 1..Len(W) /\ W[n] = s[n]
      /\ \A n \in 1..Len(t) : Len(s) + n \in 1..Len(W) /\ W[Len(s) + n] = t[n]
  BY Places
<1> HIDE DEF W
<1>2. Occurs(W, op, x)
  BY <1>1 DEF Occurs
<1> QED BY <1>2 DEF W

LEMMA PairedCat ==
    ASSUME NEW s \in Seq(JobStep), NEW t \in Seq(JobStep), Paired(s), Paired(t)
    PROVE  Paired(s \o t)
<1> DEFINE W == s \o t
<1>1. /\ Len(W) = Len(s) + Len(t) /\ Len(s) \in Nat /\ Len(t) \in Nat
      /\ \A n \in 1..Len(s) : n \in 1..Len(W) /\ W[n] = s[n]
      /\ \A n \in 1..Len(t) : Len(s) + n \in 1..Len(W) /\ W[Len(s) + n] = t[n]
      /\ \A n \in 1..Len(W) : n \notin 1..Len(s) => n - Len(s) \in 1..Len(t) /\ W[n] = t[n - Len(s)]
  BY Places
<1> HIDE DEF W
<1>2. ASSUME NEW n \in 1..Len(W), W[n].op = "save", W[n].obj[1] # "route"
      PROVE  n > 1 /\ W[n - 1].op = "post" /\ W[n - 1].obj = W[n].obj
  <2>1. CASE n \in 1..Len(s)
    <3>1. W[n] = s[n] /\ n > 1 /\ s[n - 1].op = "post" /\ s[n - 1].obj = s[n].obj
      BY <1>1, <1>2, <2>1 DEF Paired
    <3>2. n - 1 \in 1..Len(s)
      BY <2>1, <3>1
    <3> QED BY <1>1, <3>1, <3>2
  <2>2. CASE n \notin 1..Len(s)
    <3> DEFINE k == n - Len(s)
    <3>1. k \in 1..Len(t) /\ W[n] = t[k]
      BY <1>1, <2>2
    <3>2. k > 1 /\ t[k - 1].op = "post" /\ t[k - 1].obj = t[k].obj
      BY <1>2, <3>1 DEF Paired
    <3>3. k - 1 \in 1..Len(t) /\ Len(s) + (k - 1) = n - 1 /\ n > 1
      BY <1>1, <3>1, <3>2
    <3>4. W[n - 1] = t[k - 1]
      BY <1>1, <3>3
    <3> QED BY <3>1, <3>2, <3>3, <3>4
  <2> QED BY <2>1, <2>2
<1>3. Paired(W)
  BY <1>2 DEF Paired
<1> QED BY <1>3 DEF W

\* What comes second may name what was made first.
LEMMA GroundedCat ==
    ASSUME NEW s \in Seq(JobStep), NEW t \in Seq(JobStep), Grounded(s),
           \A n \in 1..Len(t) : t[n].op = "post" =>
              \A g \in Refs(t[n].obj) :
                 \/ g = Group(Access) \/ Occurs(s, "post", g)
                 \/ \E m \in 1..n - 1 : t[m].op = "post" /\ t[m].obj = g
    PROVE  Grounded(s \o t)
<1> DEFINE W == s \o t
<1>1. /\ Len(W) = Len(s) + Len(t) /\ Len(s) \in Nat /\ Len(t) \in Nat
      /\ \A n \in 1..Len(s) : n \in 1..Len(W) /\ W[n] = s[n]
      /\ \A n \in 1..Len(t) : Len(s) + n \in 1..Len(W) /\ W[Len(s) + n] = t[n]
      /\ \A n \in 1..Len(W) : n \notin 1..Len(s) => n - Len(s) \in 1..Len(t) /\ W[n] = t[n - Len(s)]
  BY Places
<1> HIDE DEF W
<1>2. ASSUME NEW n \in 1..Len(W), W[n].op = "post", NEW g \in Refs(W[n].obj), g # Group(Access)
      PROVE  \E m \in 1..n - 1 : W[m].op = "post" /\ W[m].obj = g
  <2>1. CASE n \in 1..Len(s)
    <3>1. PICK m \in 1..n - 1 : s[m].op = "post" /\ s[m].obj = g
      BY <1>1, <1>2, <2>1 DEF Grounded
    <3>2. m \in 1..Len(s)
      BY <2>1, <3>1
    <3> QED BY <1>1, <3>1, <3>2
  <2>2. CASE n \notin 1..Len(s)
    <3> DEFINE k == n - Len(s)
    <3>1. k \in 1..Len(t) /\ W[n] = t[k] /\ n > Len(s) /\ n \in Nat
      BY <1>1, <2>2
    <3>2. Occurs(s, "post", g) \/ \E m \in 1..k - 1 : t[m].op = "post" /\ t[m].obj = g
      <4> HIDE DEF k
      <4> QED BY <1>2, <3>1
    <3>3. CASE Occurs(s, "post", g)
      <4>1. PICK m \in 1..Len(s) : s[m].op = "post" /\ s[m].obj = g
        BY <3>3 DEF Occurs
      <4>2. m \in 1..n - 1 /\ W[m] = s[m]
        BY <1>1, <3>1, <4>1
      <4> QED BY <4>1, <4>2
    <3>4. ASSUME NEW m \in 1..k - 1, t[m].op = "post", t[m].obj = g
          PROVE  \E i \in 1..n - 1 : W[i].op = "post" /\ W[i].obj = g
      <4>1. m \in 1..Len(t) /\ Len(s) + m \in 1..n - 1
        BY <1>1, <3>1, <3>4
      <4>2. W[Len(s) + m] = t[m]
        BY <1>1, <4>1
      <4> QED BY <3>4, <4>1, <4>2
    <3> QED BY <3>2, <3>3, <3>4
  <2> QED BY <2>1, <2>2
<1>3. Grounded(W)
  BY <1>2 DEF Grounded
<1> QED BY <1>3 DEF W

LEMMA OrderedCat ==
    ASSUME NEW s \in Ordered, NEW t \in Ordered PROVE s \o t \in Ordered
<1>1. s \in Seq(JobStep) /\ t \in Seq(JobStep) /\ Grounded(s) /\ Paired(s) /\ Grounded(t) /\ Paired(t)
  BY DEF Ordered
<1>2. s \o t \in Seq(JobStep)
  BY <1>1, ConcatProperties
<1>3. Paired(s \o t)
  BY <1>1, PairedCat
<1>4. \A n \in 1..Len(t) : t[n].op = "post" =>
          \A g \in Refs(t[n].obj) :
             g = Group(Access) \/ \E m \in 1..n - 1 : t[m].op = "post" /\ t[m].obj = g
  BY <1>1 DEF Grounded
<1>5. Grounded(s \o t)
  <2>1. \A n \in 1..Len(t) : t[n].op = "post" =>
          \A g \in Refs(t[n].obj) :
             \/ g = Group(Access) \/ Occurs(s, "post", g)
             \/ \E m \in 1..n - 1 : t[m].op = "post" /\ t[m].obj = g
    BY <1>4
  <2> QED BY <1>1, <2>1, GroundedCat
<1> QED BY <1>2, <1>3, <1>5 DEF Ordered

\* Pieces that name nothing but the group of their part and the access group,
\* and parts in which that group was made.
Pieces(o) == {V \in Seq(JobStep) :
    /\ Paired(V)
    /\ \A n \in 1..Len(V) : V[n].op = "post" => Refs(V[n].obj) \subseteq {Group(Access), Group(o)}}
Based(o) == {W \in Ordered : Occurs(W, "post", Group(o))}

LEMMA BasedCat ==
    ASSUME NEW o, NEW s \in Based(o), NEW t \in Pieces(o) PROVE s \o t \in Based(o)
<1>1. /\ s \in Seq(JobStep) /\ t \in Seq(JobStep) /\ Grounded(s) /\ Paired(s) /\ Paired(t)
      /\ Occurs(s, "post", Group(o))
  BY DEF Based, Ordered, Pieces
<1>2. s \o t \in Seq(JobStep)
  BY <1>1, ConcatProperties
<1>3. Paired(s \o t)
  BY <1>1, PairedCat
<1>4. \A n \in 1..Len(t) : t[n].op = "post" =>
          \A g \in Refs(t[n].obj) :
             \/ g = Group(Access) \/ Occurs(s, "post", g)
             \/ \E m \in 1..n - 1 : t[m].op = "post" /\ t[m].obj = g
  BY <1>1 DEF Pieces
<1>5. Grounded(s \o t)
  BY <1>1, <1>4, GroundedCat
<1>6. Occurs(s \o t, "post", Group(o))
  BY <1>1, OccursCat
<1> QED BY <1>2, <1>3, <1>5, <1>6 DEF Based, Ordered

LEMMA PayloadFacts ==
    /\ \A o \in Owners : Refs(Group(o)) = {} /\ Refs(Key(o)) = {Group(o)}
    /\ \A h \in Hosts : /\ Refs(Policy(h)) = {Group(h), Group(Access)}
                        /\ \A i \in Nat : Refs(Route(h, i)) = {Group(h), Group(Access)}
    /\ Refs(Nameservers) = {Group(Access)}
<1>1. ASSUME NEW o \in Owners PROVE Refs(Group(o)) = {} /\ Refs(Key(o)) = {Group(o)}
  <2>1. Group(o)[1] = "group" /\ Key(o)[1] = "key" /\ OwnerOf(Key(o)) = o
    BY DEF Group, Key, OwnerOf
  <2> HIDE DEF Group, Key, OwnerOf
  <2> QED BY <2>1 DEF Refs
<1>2. ASSUME NEW h \in Hosts
      PROVE  /\ Refs(Policy(h)) = {Group(h), Group(Access)}
             /\ \A i \in Nat : Refs(Route(h, i)) = {Group(h), Group(Access)}
  <2>1. /\ Policy(h)[1] = "policy" /\ OwnerOf(Policy(h)) = h
        /\ \A i \in Nat : Route(h, i)[1] = "route" /\ OwnerOf(Route(h, i)) = h
    BY DEF Policy, Route, OwnerOf
  <2> HIDE DEF Group, Policy, Route, OwnerOf
  <2> QED BY <2>1 DEF Refs
<1>3. Refs(Nameservers) = {Group(Access)}
  <2>1. Nameservers[1] = "dns"
    BY DEF Nameservers
  <2> QED BY <2>1 DEF Refs
<1> QED BY <1>1, <1>2, <1>3

LEMMA MakeAndSaveOrder ==
    ASSUME NEW p, NEW x, Step(p, "post", x) \in JobStep, Step(p, "save", x) \in JobStep
    PROVE  /\ MakeAndSave(p, x) \in Seq(JobStep) /\ Paired(MakeAndSave(p, x))
           /\ Len(MakeAndSave(p, x)) = 2 /\ MakeAndSave(p, x)[1] = Step(p, "post", x)
           /\ MakeAndSave(p, x)[2] = Step(p, "save", x)
           /\ Occurs(MakeAndSave(p, x), "post", x) /\ Occurs(MakeAndSave(p, x), "save", x)
           /\ \A n \in 1..Len(MakeAndSave(p, x)) : MakeAndSave(p, x)[n].obj = x
<1> DEFINE a == Step(p, "post", x)
           b == Step(p, "save", x)
           W == <<a, b>>
<1>1. a.op = "post" /\ b.op = "save" /\ a.obj = x /\ b.obj = x
  BY DEF Step
<1>2. MakeAndSave(p, x) = W
  BY DEF MakeAndSave
<1> HIDE DEF a, b
<1>3. W \in Seq(JobStep) /\ Len(W) = 2 /\ W[1] = a /\ W[2] = b
  BY DEF a, b
<1> HIDE DEF W
<1>4. Paired(W) /\ \A n \in 1..Len(W) : W[n].obj = x
  BY <1>1, <1>3 DEF Paired
<1>5. Occurs(W, "post", x) /\ Occurs(W, "save", x)
  <2>1. 1 \in 1..Len(W) /\ 2 \in 1..Len(W)
    BY <1>3
  <2> QED BY <1>1, <1>3, <2>1 DEF Occurs
<1> QED BY <1>2, <1>3, <1>4, <1>5 DEF a, b

LEMMA RowOrdered ==
    ASSUME NEW o \in Owners
    PROVE  <<Step(o, "row", Group(o))>> \in Ordered /\ Len(<<Step(o, "row", Group(o))>>) = 1
<1> DEFINE r == Step(o, "row", Group(o))
           A == <<r>>
<1>1. r \in JobStep /\ r.op = "row"
  BY StepsFit DEF Step
<1> HIDE DEF r
<1>2. A \in Seq(JobStep) /\ Len(A) = 1 /\ A[1] = r
  BY <1>1
<1> HIDE DEF A
<1>3. Grounded(A) /\ Paired(A)
  BY <1>1, <1>2 DEF Grounded, Paired
<1> QED BY <1>2, <1>3 DEF Ordered, A, r

\* The group of a part is made right after its row.
LEMMA GroupBased ==
    ASSUME NEW o \in Owners
    PROVE  /\ <<Step(o, "row", Group(o))>> \o MakeAndSave(o, Group(o)) \in Based(o)
           /\ Len(<<Step(o, "row", Group(o))>> \o MakeAndSave(o, Group(o))) = 3
           /\ (<<Step(o, "row", Group(o))>> \o MakeAndSave(o, Group(o)))[2] = Step(o, "post", Group(o))
<1> DEFINE A == <<Step(o, "row", Group(o))>>
           M == MakeAndSave(o, Group(o))
           W == A \o M
<1>1. A \in Ordered /\ A \in Seq(JobStep) /\ Len(A) = 1
  BY RowOrdered DEF Ordered
<1>2. /\ M \in Seq(JobStep) /\ Paired(M) /\ Occurs(M, "post", Group(o)) /\ Len(M) = 2
      /\ \A n \in 1..Len(M) : M[n].obj = Group(o)
      /\ M[1] = Step(o, "post", Group(o))
  BY StepsFit, MakeAndSaveOrder
<1>3. Refs(Group(o)) = {}
  BY PayloadFacts
<1> HIDE DEF A, M
<1>4. Grounded(M)
  BY <1>2, <1>3 DEF Grounded
<1>5. W \in Ordered
  BY <1>1, <1>2, <1>4, OrderedCat DEF Ordered
<1>6. Occurs(W, "post", Group(o))
  BY <1>1, <1>2, OccursCat
<1>7. Len(W) = 3 /\ W[2] = M[1]
  <2>1. /\ Len(W) = Len(A) + Len(M)
        /\ \A n \in 1..Len(M) : W[Len(A) + n] = M[n]
    <3>1. A \in Seq(JobStep) /\ M \in Seq(JobStep)
      BY <1>1, <1>2
    <3> QED BY <3>1, Places
  <2>2. 1 \in 1..Len(M)
    <3> HIDE DEF W
    <3> QED BY <1>2
  <2>3. W[Len(A) + 1] = M[1]
    <3> HIDE DEF W
    <3> QED BY <2>1, <2>2
  <2> HIDE DEF W
  <2> QED BY <1>1, <1>2, <2>1, <2>3
<1>8. M[1] = Step(o, "post", Group(o))
  BY <1>2
<1> HIDE DEF W
<1> QED BY <1>5, <1>6, <1>7, <1>8 DEF Based, W, A, M

LEMMA PiecesOf ==
    ASSUME NEW h \in Hosts
    PROVE  /\ MakeAndSave(h, Key(h)) \in Pieces(h) /\ MakeAndSave(h, Policy(h)) \in Pieces(h)
           /\ [i \in 1..RouteCount[h] |-> Step(h, "post", Route(h, i))] \in Pieces(h)
           /\ <<Step(h, "save", Route(h, 1))>> \in Pieces(h)
           /\ Occurs(MakeAndSave(h, Key(h)), "save", Key(h))
<1>1. h \in Owners /\ RouteCount[h] \in Nat
  BY NetbirdAssumption DEF Owners
<1>2. /\ Refs(Key(h)) = {Group(h)} /\ Refs(Policy(h)) = {Group(h), Group(Access)}
      /\ \A i \in Nat : Refs(Route(h, i)) = {Group(h), Group(Access)}
  BY <1>1, PayloadFacts
<1>3. MakeAndSave(h, Key(h)) \in Pieces(h) /\ Occurs(MakeAndSave(h, Key(h)), "save", Key(h))
  <2> DEFINE M == MakeAndSave(h, Key(h))
  <2>1. /\ M \in Seq(JobStep) /\ Paired(M) /\ Occurs(M, "save", Key(h))
        /\ \A n \in 1..Len(M) : M[n].obj = Key(h)
    BY <1>1, StepsFit, MakeAndSaveOrder
  <2> HIDE DEF M
  <2>2. M \in Pieces(h)
    BY <1>2, <2>1 DEF Pieces
  <2> QED BY <2>1, <2>2 DEF M
<1>4. MakeAndSave(h, Policy(h)) \in Pieces(h)
  <2> DEFINE M == MakeAndSave(h, Policy(h))
  <2>1. /\ M \in Seq(JobStep) /\ Paired(M)
        /\ \A n \in 1..Len(M) : M[n].obj = Policy(h)
    BY <1>1, StepsFit, MakeAndSaveOrder
  <2> HIDE DEF M
  <2>2. M \in Pieces(h)
    BY <1>2, <2>1 DEF Pieces
  <2> QED BY <2>2 DEF M
<1>5. [i \in 1..RouteCount[h] |-> Step(h, "post", Route(h, i))] \in Pieces(h)
  <2> DEFINE R == [i \in 1..RouteCount[h] |-> Step(h, "post", Route(h, i))]
  <2>1. R \in Seq(JobStep) /\ Len(R) = RouteCount[h]
    <3>1. R \in Seq(JobStep)
      BY RoutesIn
    <3>2. Len(R) = RouteCount[h]
      <4> DEFINE n == RouteCount[h]
      <4>1. n \in Nat
        BY <1>1
      <4>2. R = [i \in 1..n |-> Step(h, "post", Route(h, i))]
        OBVIOUS
      <4> HIDE DEF R, n
      <4>3. Len(R) = n
        BY <4>1, <4>2
      <4> QED BY <4>3 DEF n
    <3> QED BY <3>1, <3>2
  <2>2. ASSUME NEW n \in 1..RouteCount[h] PROVE R[n].op = "post" /\ R[n].obj = Route(h, n)
    <3>1. R[n] = Step(h, "post", Route(h, n))
      OBVIOUS
    <3> HIDE DEF R
    <3> QED BY <3>1 DEF Step
  <2> HIDE DEF R
  <2>3. Paired(R)
    BY <2>1, <2>2 DEF Paired
  <2>4. \A n \in 1..Len(R) : Refs(R[n].obj) \subseteq {Group(Access), Group(h)}
    BY <1>1, <1>2, <2>1, <2>2
  <2> QED BY <2>1, <2>3, <2>4 DEF Pieces, R
<1>6. <<Step(h, "save", Route(h, 1))>> \in Pieces(h)
  <2> DEFINE b == Step(h, "save", Route(h, 1))
             S == <<b>>
  <2>1. b \in JobStep /\ b.op = "save" /\ b.obj[1] = "route"
    <3>1. b \in JobStep
      BY StepsFit
    <3> QED BY <3>1 DEF Step, Route
  <2> HIDE DEF b
  <2>2. S \in Seq(JobStep) /\ Len(S) = 1 /\ S[1] = b
    BY <2>1
  <2> HIDE DEF S
  <2>3. Paired(S) /\ \A n \in 1..Len(S) : S[n].op # "post"
    BY <2>1, <2>2 DEF Paired
  <2> QED BY <2>2, <2>3 DEF Pieces, S, b
<1> QED BY <1>3, <1>4, <1>5, <1>6

LEMMA KeyPiece ==
    ASSUME NEW o \in Owners
    PROVE  /\ MakeAndSave(o, Key(o)) \in Pieces(o)
           /\ Occurs(MakeAndSave(o, Key(o)), "save", Key(o))
<1> DEFINE M == MakeAndSave(o, Key(o))
<1>1. /\ M \in Seq(JobStep) /\ Paired(M) /\ Occurs(M, "save", Key(o))
      /\ \A n \in 1..Len(M) : M[n].obj = Key(o)
  BY StepsFit, MakeAndSaveOrder
<1>2. Refs(Key(o)) = {Group(o)}
  BY PayloadFacts
<1> HIDE DEF M
<1>3. M \in Pieces(o)
  BY <1>1, <1>2 DEF Pieces
<1> QED BY <1>1, <1>3 DEF M

\* What was made stays made when a piece is added.
LEMMA BasedKeeps ==
    ASSUME NEW o, NEW s \in Based(o), NEW t \in Pieces(o), NEW op, NEW x, Occurs(s, op, x)
    PROVE  Occurs(s \o t, op, x)
<1>1. s \in Seq(JobStep) /\ t \in Seq(JobStep)
  BY DEF Based, Ordered, Pieces
<1> QED BY <1>1, OccursCat

\* The part of an entrypoint is in order and saves its key.
LEMMA EntrypointOrdered ==
    ASSUME NEW h \in Hosts
    PROVE  /\ ProvisionEntrypoint(h) \in Ordered
           /\ Occurs(ProvisionEntrypoint(h), "save", Key(h))
<1> DEFINE A == <<Step(h, "row", Group(h))>> \o MakeAndSave(h, Group(h))
           K == MakeAndSave(h, Key(h))
           R == [i \in 1..RouteCount[h] |-> Step(h, "post", Route(h, i))]
           S == <<Step(h, "save", Route(h, 1))>>
           P == MakeAndSave(h, Policy(h))
<1>1. ProvisionEntrypoint(h) = A \o K \o R \o S \o P
  BY DEF ProvisionEntrypoint
<1>2. h \in Owners
  BY DEF Owners
<1>3. A \in Based(h)
  BY <1>2, GroupBased
<1>4. K \in Pieces(h) /\ Occurs(K, "save", Key(h))
  BY <1>2, KeyPiece
<1>5. R \in Pieces(h) /\ S \in Pieces(h) /\ P \in Pieces(h)
  BY PiecesOf
<1> HIDE DEF A, K, R, S, P
<1>6. A \o K \in Based(h) /\ Occurs(A \o K, "save", Key(h))
  <2>1. A \in Seq(JobStep) /\ K \in Seq(JobStep)
    BY <1>3, <1>4 DEF Based, Ordered, Pieces
  <2>2. Occurs(A \o K, "save", Key(h))
    BY <1>4, <2>1, OccursCat
  <2>3. A \o K \in Based(h)
    BY <1>3, <1>4, BasedCat
  <2> QED BY <2>2, <2>3
<1>7. (A \o K) \o R \in Based(h) /\ Occurs((A \o K) \o R, "save", Key(h))
  BY <1>5, <1>6, BasedCat, BasedKeeps
<1>8. ((A \o K) \o R) \o S \in Based(h) /\ Occurs(((A \o K) \o R) \o S, "save", Key(h))
  BY <1>5, <1>7, BasedCat, BasedKeeps
<1>9. (((A \o K) \o R) \o S) \o P \in Based(h) /\ Occurs((((A \o K) \o R) \o S) \o P, "save", Key(h))
  BY <1>5, <1>8, BasedCat, BasedKeeps
<1> QED BY <1>1, <1>9 DEF Based

\* The access part is in order, and its group is made in its second step.
LEMMA AccessOrdered ==
    /\ ProvisionAccess \in Ordered /\ Len(ProvisionAccess) > 2
    /\ ProvisionAccess[2] = Step(Access, "post", Group(Access))
<1> DEFINE A == <<Step(Access, "row", Group(Access))>> \o MakeAndSave(Access, Group(Access))
           K == MakeAndSave(Access, Key(Access))
           W == A \o K
<1>1. ProvisionAccess = W
  BY DEF ProvisionAccess
<1>2. Access \in Owners
  BY DEF Owners
<1>3. A \in Based(Access) /\ Len(A) = 3 /\ A[2] = Step(Access, "post", Group(Access))
  BY <1>2, GroupBased
<1>4. K \in Pieces(Access)
  BY <1>2, KeyPiece
<1> HIDE DEF A, K
<1>5. W \in Based(Access)
  BY <1>3, <1>4, BasedCat
<1>6. A \in Seq(JobStep) /\ K \in Seq(JobStep)
  BY <1>3, <1>4 DEF Based, Ordered, Pieces
<1>7. /\ Len(W) = Len(A) + Len(K) /\ Len(K) \in Nat
      /\ \A n \in 1..Len(A) : W[n] = A[n]
  BY <1>6, Places
<1> HIDE DEF W
<1>8. Len(W) > 2 /\ W[2] = A[2]
  <2>1. 2 \in 1..Len(A)
    BY <1>3
  <2> QED BY <1>3, <1>7, <2>1
<1> QED BY <1>1, <1>3, <1>5, <1>8 DEF Based

LEMMA DnsOrdered == ProvisionDns \in Ordered
<1>1. CASE Dns
  <2> DEFINE M == MakeAndSave("dns", Nameservers)
  <2>1. /\ M \in Seq(JobStep) /\ Paired(M)
        /\ \A n \in 1..Len(M) : M[n].obj = Nameservers
    BY StepsFit, MakeAndSaveOrder
  <2>2. Refs(Nameservers) = {Group(Access)}
    BY PayloadFacts
  <2> HIDE DEF M
  <2>3. M \in Ordered
    BY <2>1, <2>2 DEF Ordered, Grounded
  <2> QED BY <1>1, <2>3 DEF ProvisionDns, M
<1>2. CASE ~Dns
  BY <1>2, OrderedEmpty DEF ProvisionDns
<1> QED BY <1>1, <1>2

\* A step of one of the sequences that are put together is a step of the whole.
LEMMA FlattenOccurs ==
    ASSUME NEW S, NEW ss \in Seq(Seq(S)), NEW k \in 1..Len(ss), NEW op, NEW x,
           Occurs(ss[k], op, x)
    PROVE  Occurs(FlattenSeq(ss), op, x)
<1> DEFINE L == Len(ss)
<1>0. L \in Nat /\ k \in 1..L /\ ss # << >>
  BY EmptySeq
<1>1. PICK f : Flattens(ss, f) /\ FlattenSeq(ss) = f[L]
  BY <1>0, Flattened
<1>2. \A i \in 1..L : f[i] = IF i = 1 THEN ss[i] ELSE f[i - 1] \o ss[i]
  <2>1. f = [i \in 1..L |-> IF i = 1 THEN ss[i] ELSE f[i - 1] \o ss[i]]
    BY <1>1 DEF Flattens
  <2> SUFFICES ASSUME NEW i \in 1..L PROVE f[i] = IF i = 1 THEN ss[i] ELSE f[i - 1] \o ss[i]
    OBVIOUS
  <2>2. [j \in 1..L |-> IF j = 1 THEN ss[j] ELSE f[j - 1] \o ss[j]][i]
           = IF i = 1 THEN ss[i] ELSE f[i - 1] \o ss[i]
    OBVIOUS
  <2> QED BY <2>1, <2>2, Zenon
<1>3. \A i \in 1..L : ss[i] \in Seq(S)
  OBVIOUS
<1> HIDE DEF L
<1> DEFINE Has(n) == f[n] \in Seq(S) /\ (k <= n => Occurs(f[n], op, x))
           T == {n \in Nat : n + 1 <= L => Has(n + 1)}
<1>4. 0 \in T
  <2>1. 1 <= L => f[1] = ss[1] /\ ss[1] \in Seq(S)
    BY <1>0, <1>2, <1>3
  <2>2. k <= 1 => k = 1
    BY <1>0
  <2> QED BY <2>1, <2>2
<1>5. ASSUME NEW n \in T PROVE n + 1 \in T
  <2>1. SUFFICES ASSUME (n + 1) + 1 <= L PROVE Has((n + 1) + 1)
    OBVIOUS
  <2>2. n \in Nat /\ Has(n + 1)
    BY <1>0, <2>1
  <2> DEFINE p == n + 1
             q == p + 1
  <2>3. q \in 1..L /\ f[q] = f[p] \o ss[q] /\ ss[q] \in Seq(S)
    <3>1. q \in 1..L /\ q # 1 /\ q - 1 = p
      BY <1>0, <2>1, <2>2
    <3> QED BY <1>2, <1>3, <3>1
  <2>4. k <= q => k <= p \/ k = q
    BY <1>0, <2>2
  <2>5. f[p] \in Seq(S) /\ (k <= p => Occurs(f[p], op, x))
    BY <2>2
  <2> HIDE DEF p, q
  <2>6. f[q] \in Seq(S)
    BY <2>3, <2>5, ConcatProperties
  <2>7. ASSUME k <= q PROVE Occurs(f[q], op, x)
    <3>1. Occurs(f[p], op, x) \/ Occurs(ss[q], op, x)
      BY <2>4, <2>5, <2>7
    <3> QED BY <2>3, <2>5, <3>1, OccursCat
  <2> QED BY <2>6, <2>7 DEF p, q
<1>6. T = Nat
  <2> HIDE DEF T
  <2>1. T \in SUBSET Nat
    BY DEF T
  <2> QED BY <1>4, <1>5, <2>1, NatInduct
<1>7. Has(L)
  <2>1. L - 1 \in Nat /\ (L - 1) + 1 = L
    BY <1>0
  <2>2. L - 1 \in T
    <3> HIDE DEF T
    <3> QED BY <1>6, <2>1
  <2>3. Has((L - 1) + 1)
    <3> HIDE DEF Has
    <3> QED BY <2>1, <2>2
  <2> QED BY <2>1, <2>3
<1> QED BY <1>0, <1>1, <1>7

\* What the payload of a step names was made before; what is saved was made
\* just before; and the key of every entrypoint is saved.
LEMMA ScriptOrdered ==
    /\ \A n \in 1..Len(Script) : Script[n].op = "post" =>
          \A g \in Refs(Script[n].obj) :
             \E m \in 1..n - 1 : Script[m].op = "post" /\ Script[m].obj = g
    /\ Paired(Script)
    /\ \A h \in Hosts : Occurs(Script, "save", Key(h))
<1> DEFINE ss == [i \in 1..Len(Entrypoints) |-> ProvisionEntrypoint(Entrypoints[i])]
           F == FlattenSeq(ss)
           Q == ProvisionAccess \o ProvisionDns
<1>1. Script = Q \o F
  BY DEF Script
<1>2. Len(Entrypoints) \in Nat /\ \A i \in 1..Len(Entrypoints) : Entrypoints[i] \in Hosts
  BY NetbirdAssumption
<1>3. /\ Ordered \in SUBSET Seq(JobStep) /\ << >> \in Ordered
      /\ \A s, t \in Ordered : s \o t \in Ordered
  <2>1. Ordered \in SUBSET Seq(JobStep)
    BY DEF Ordered
  <2> QED BY <2>1, OrderedEmpty, OrderedCat
<1>4. /\ Len(ss) = Len(Entrypoints) /\ ss \in Seq(Seq(JobStep))
      /\ \A i \in 1..Len(ss) : ss[i] \in Ordered
  <2>1. \A i \in 1..Len(Entrypoints) : ProvisionEntrypoint(Entrypoints[i]) \in Ordered
    BY <1>2, EntrypointOrdered
  <2> HIDE DEF Script
  <2>2. ss \in [1..Len(Entrypoints) -> Ordered]
    BY <2>1
  <2>3. ss \in [1..Len(Entrypoints) -> Seq(JobStep)]
    BY <1>3, <2>2
  <2>4. \A i \in 1..Len(Entrypoints) : ss[i] \in Ordered
    BY <2>1
  <2> HIDE DEF ss
  <2> QED BY <1>2, <2>2, <2>3, <2>4
<1>5. ASSUME NEW h \in Hosts PROVE \E i \in 1..Len(ss) : ss[i] = ProvisionEntrypoint(h)
  <2>1. PICK i \in 1..Len(Entrypoints) : Entrypoints[i] = h
    <3>1. Hosts = {Entrypoints[i] : i \in DOMAIN Entrypoints}
      BY DEF Hosts, ToSet
    <3>2. DOMAIN Entrypoints = 1..Len(Entrypoints)
      <4> HIDE DEF ss, Hosts
      <4> QED BY NetbirdAssumption
    <3>3. h \in {Entrypoints[i] : i \in DOMAIN Entrypoints}
      BY <3>1
    <3> HIDE DEF ss, Hosts
    <3> QED BY <3>2, <3>3
  <2>2. ss[i] = ProvisionEntrypoint(h)
    BY <2>1
  <2> HIDE DEF ss
  <2> QED BY <1>4, <2>1, <2>2
<1> HIDE DEF ss
<1>6. F \in Ordered
  BY <1>3, <1>4, FlattenIn
<1>7. \A h \in Hosts : Occurs(F, "save", Key(h))
  <2> TAKE h \in Hosts
  <2>1. PICK i \in 1..Len(ss) : ss[i] = ProvisionEntrypoint(h)
    BY <1>5
  <2>2. Occurs(ss[i], "save", Key(h))
    BY <2>1, EntrypointOrdered
  <2> QED BY <1>4, <2>2, FlattenOccurs
<1> HIDE DEF F
<1>8. Q \in Ordered
  BY <1>3, AccessOrdered, DnsOrdered
<1>9. Q[2] = Step(Access, "post", Group(Access)) /\ Len(Q) > 2 /\ Len(Q) \in Nat
  <2>1. ProvisionAccess \in Seq(JobStep) /\ ProvisionDns \in Seq(JobStep)
    BY AccessOrdered, DnsOrdered DEF Ordered
  <2> DEFINE a == ProvisionAccess
             d == ProvisionDns
             W == a \o d
  <2>2. a \in Seq(JobStep) /\ d \in Seq(JobStep) /\ Len(a) > 2 /\ a[2] = Step(Access, "post", Group(Access))
    BY <2>1, AccessOrdered
  <2> HIDE DEF a, d
  <2>3. /\ Len(W) = Len(a) + Len(d) /\ Len(a) \in Nat /\ Len(d) \in Nat
        /\ \A n \in 1..Len(a) : W[n] = a[n]
    BY <2>2, Places
  <2> HIDE DEF W
  <2>4. 2 \in 1..Len(a)
    BY <2>2, <2>3
  <2>5. W[2] = Step(Access, "post", Group(Access)) /\ Len(W) > 2 /\ Len(W) \in Nat
    BY <2>2, <2>3, <2>4
  <2> QED BY <2>5 DEF W, a, d
<1> HIDE DEF Q
<1>10. Script \in Ordered /\ Script[2] = Step(Access, "post", Group(Access))
  <2>1. Q \in Seq(JobStep) /\ F \in Seq(JobStep)
    BY <1>6, <1>8 DEF Ordered
  <2>2. \A n \in 1..Len(Q) : Script[n] = Q[n]
    BY <1>1, <2>1, Places
  <2>3. 2 \in 1..Len(Q)
    BY <1>9
  <2>4. Q \o F \in Ordered
    BY <1>3, <1>6, <1>8
  <2> QED BY <1>1, <1>9, <2>2, <2>3, <2>4
<1>11. \A h \in Hosts : Occurs(Script, "save", Key(h))
  <2>1. Q \in Seq(JobStep) /\ F \in Seq(JobStep)
    BY <1>6, <1>8 DEF Ordered
  <2> QED BY <1>1, <1>7, <2>1, OccursCat
<1>12. ASSUME NEW n \in 1..Len(Script), Script[n].op = "post", NEW g \in Refs(Script[n].obj)
       PROVE  \E m \in 1..n - 1 : Script[m].op = "post" /\ Script[m].obj = g
  <2> DEFINE a == Step(Access, "post", Group(Access))
             r == Step(Access, "row", Group(Access))
  <2>1. Script[1] = r /\ Script[2] = a /\ r.op = "row" /\ a.op = "post" /\ a.obj = Group(Access)
    BY <1>10, ScriptFacts DEF Step
  <2>2. Refs(Group(Access)) = {}
    BY PayloadFacts DEF Owners
  <2> HIDE DEF a, r
  <2>3. n # 1 /\ n # 2
    BY <1>12, <2>1, <2>2
  <2>4. n \in Nat /\ 2 \in 1..n - 1
    BY <1>12, <2>3, ScriptFacts
  <2>5. g = Group(Access) \/ \E m \in 1..n - 1 : Script[m].op = "post" /\ Script[m].obj = g
    BY <1>10, <1>12 DEF Ordered, Grounded
  <2> QED BY <2>1, <2>4, <2>5
<1>13. Paired(Script)
  BY <1>10 DEF Ordered
<1> QED BY <1>11, <1>12, <1>13

-----------------------------------------------------------------------------
(* The keys are recorded when the user stage runs *)

\* What an undisturbed job has done so far: what its steps made is there, its
\* copies cover the rows, and what was made is saved from the copy at once.
MadeSoFar ==
    \A n \in 1..at - 1 : Script[n].op = "post" => Script[n].obj \in cloud
SavedSoFar ==
    \A n \in 1..at - 1 : Script[n].op = "save" /\ Script[n].obj[1] # "route" =>
        rows[OwnerOf(Script[n].obj)] # NoRow /\ Script[n].obj \in rows[OwnerOf(Script[n].obj)]
CopiesCover ==
    \A o \in Owners : rows[o] # NoRow => held[o] # NoRow /\ rows[o] \subseteq held[o]
ReadyToSave ==
    Working /\ Now.op = "save" /\ Now.obj[1] # "route" => Now.obj \in held[OwnerOf(Now.obj)]
KeysSaved == \A h \in Hosts : rows[h] # NoRow /\ Key(h) \in rows[h]

\* While the user stage waits and nothing has failed, nobody tears down and the
\* job is on its way to the end of its script.
Undisturbed ==
    /\ sandbox /\ sweeper = "none" /\ work = << >>
    /\ job \in {"queued", "running", "finished"}
    /\ job = "queued" => \A o \in Owners : rows[o] = NoRow
    /\ job = "running" => MadeSoFar /\ SavedSoFar /\ CopiesCover /\ ReadyToSave
    /\ job = "finished" => KeysSaved
Waits == user = "deferred" /\ faults = 0
KeysInv == (Waits => Undisturbed) /\ KeysReachAnsible

\* One step further: what was made is still there, and the next step saves
\* nothing but what this one made.
LEMMA Onward ==
    ASSUME TypeInv, Working, MadeSoFar, at' = at + 1, job' = job,
           cloud \subseteq cloud', Now.op = "post" => Now.obj \in cloud',
           Now.op = "post" /\ Now.obj[1] # "route" => Now.obj \in held'[OwnerOf(Now.obj)]
    PROVE  MadeSoFar' /\ ReadyToSave'
<1>1. at \in 1..Len(Script) /\ Len(Script) \in Nat
  BY NowFacts, ScriptFacts
<1>2. MadeSoFar'
  <2>1. ASSUME NEW n \in 1..at' - 1, Script[n].op = "post" PROVE Script[n].obj \in cloud'
    <3>1. CASE n = at
      BY <2>1, <3>1 DEF Now
    <3>2. CASE n # at
      <4>1. n \in 1..at - 1
        BY <1>1, <2>1, <3>2
      <4> QED BY <2>1, <4>1 DEF MadeSoFar
    <3> QED BY <3>1, <3>2
  <2> QED BY <2>1 DEF MadeSoFar
<1>3. ASSUME at + 1 <= Len(Script), Script[at + 1].op = "save", Script[at + 1].obj[1] # "route"
      PROVE  Script[at + 1].obj \in held'[OwnerOf(Script[at + 1].obj)]
  <2>1. at + 1 \in 1..Len(Script) /\ (at + 1) - 1 = at
    BY <1>1, <1>3
  <2>2. Script[at].op = "post" /\ Script[at].obj = Script[at + 1].obj
    BY <1>3, <2>1, ScriptOrdered DEF Paired
  <2> QED BY <1>3, <2>2 DEF Now
<1>4. ReadyToSave'
  BY <1>3 DEF ReadyToSave, Working, Now
<1> QED BY <1>2, <1>4

LEMMA KeysCreate ==
    ASSUME TypeInv, Create, faults = 0, faults' = 0, job = "running",
           MadeSoFar, SavedSoFar, CopiesCover, ReadyToSave
    PROVE  job' = "running" /\ MadeSoFar' /\ SavedSoFar' /\ CopiesCover' /\ ReadyToSave'
<1> DEFINE x == Now.obj
           o == OwnerOf(Now.obj)
<1>1. Working /\ Now.op = "post" /\ job' = job /\ rows' = rows
  BY DEF Create
<1>2. at \in 1..Len(Script) /\ o \in Owners /\ Copies(held) /\ held[o] # NoRow
  BY <1>1, NowFacts DEF TypeInv
<1>3. Refs(x) \subseteq cloud
  <2>1. ASSUME NEW g \in Refs(x) PROVE g \in cloud
    <3>1. PICK m \in 1..at - 1 : Script[m].op = "post" /\ Script[m].obj = g
      BY <1>1, <1>2, <2>1, ScriptOrdered DEF Now
    <3> QED BY <3>1 DEF MadeSoFar
  <2> QED BY <2>1
<1>4. ~Fault
  BY DEF Fault
<1>5. /\ cloud' = cloud \cup {x} /\ at' = at + 1
      /\ IF x[1] = "route" THEN UNCHANGED held ELSE held' = [held EXCEPT ![o] = @ \cup {x}]
  BY <1>3, <1>4 DEF Create
<1>6. \A p \in Owners : held[p] # NoRow => held'[p] # NoRow /\ held[p] \subseteq held'[p]
  <2>1. CASE x[1] = "route"
    BY <1>5, <2>1
  <2>2. CASE x[1] # "route"
    <3> DEFINE ids == held[o] \cup {x}
    <3>1. ids # NoRow
      <4>1. ids \subseteq Object
        BY <1>1, <1>2, NowFacts, Recorded DEF Copies
      <4> QED BY <4>1, Recorded
    <3>2. held' = [held EXCEPT ![o] = ids]
      BY <1>5, <2>2
    <3>3. held[o] \subseteq ids
      OBVIOUS
    <3> HIDE DEF ids, o
    <3> QED BY <1>2, <3>1, <3>2, <3>3 DEF Copies
  <2> QED BY <2>1, <2>2
<1>7. x[1] # "route" => x \in held'[o]
  <2>1. ASSUME x[1] # "route" PROVE x \in held'[o]
    <3> DEFINE ids == held[o] \cup {x}
    <3>1. held' = [held EXCEPT ![o] = ids] /\ x \in ids
      BY <1>5, <2>1
    <3> HIDE DEF ids, o, x
    <3> QED BY <1>2, <3>1 DEF Copies
  <2> QED BY <2>1
<1>8. MadeSoFar' /\ ReadyToSave'
  BY <1>1, <1>5, <1>7, Onward
<1>9. CopiesCover'
  BY <1>1, <1>6 DEF CopiesCover
<1>10. SavedSoFar'
  <2>1. ASSUME NEW n \in 1..at' - 1, Script[n].op = "save", Script[n].obj[1] # "route"
        PROVE  n \in 1..at - 1
    BY <1>1, <1>2, <1>5, <2>1 DEF Now
  <2> QED BY <1>1, <2>1 DEF SavedSoFar
<1> QED BY <1>1, <1>8, <1>9, <1>10

LEMMA KeysRow ==
    ASSUME TypeInv, GetOrCreateRow, sandbox, job = "running",
           MadeSoFar, SavedSoFar, CopiesCover, ReadyToSave
    PROVE  job' = "running" /\ MadeSoFar' /\ SavedSoFar' /\ CopiesCover' /\ ReadyToSave'
<1> DEFINE o == OwnerOf(Now.obj)
           ids == IF rows[o] = NoRow THEN {} ELSE rows[o]
<1>1. Working /\ Now.op = "row" /\ job' = job /\ cloud' = cloud
  BY DEF GetOrCreateRow
<1>2. at \in 1..Len(Script) /\ o \in Owners /\ Copies(rows) /\ Copies(held)
  BY <1>1, NowFacts DEF TypeInv
<1>3. rows' = [rows EXCEPT ![o] = ids] /\ held' = [held EXCEPT ![o] = rows'[o]] /\ at' = at + 1
  BY DEF GetOrCreateRow
<1>4. ids # NoRow
  <2>1. {} # NoRow
    BY Recorded
  <2> QED BY <2>1
<1>5. rows[o] # NoRow => ids = rows[o]
  OBVIOUS
<1> HIDE DEF ids, o
<1>6. /\ rows'[o] = ids /\ held'[o] = ids
      /\ \A p \in Owners : p # o => rows'[p] = rows[p] /\ held'[p] = held[p]
  BY <1>2, <1>3 DEF Copies
<1>7. MadeSoFar' /\ ReadyToSave'
  BY <1>1, <1>3, Onward
<1>8. CopiesCover'
  BY <1>4, <1>6 DEF CopiesCover
<1>9. SavedSoFar'
  <2>1. ASSUME NEW n \in 1..at' - 1, Script[n].op = "save", Script[n].obj[1] # "route"
        PROVE  rows'[OwnerOf(Script[n].obj)] # NoRow /\ Script[n].obj \in rows'[OwnerOf(Script[n].obj)]
    <3> DEFINE p == OwnerOf(Script[n].obj)
    <3>1. n \in 1..at - 1 /\ n \in 1..Len(Script)
      BY <1>1, <1>2, <1>3, <2>1, ScriptFacts DEF Now
    <3>2. rows[p] # NoRow /\ Script[n].obj \in rows[p]
      BY <2>1, <3>1 DEF SavedSoFar
    <3>3. p \in Owners
      BY <3>1, ScriptFacts DEF JobStep, Steps, OwnerOf
    <3> HIDE DEF p
    <3>4. rows'[p] = rows[p]
      BY <1>5, <1>6, <3>2, <3>3
    <3> QED BY <3>2, <3>4 DEF p
  <2> QED BY <2>1 DEF SavedSoFar
<1> QED BY <1>1, <1>7, <1>8, <1>9

LEMMA KeysSave ==
    ASSUME TypeInv, Save, sandbox, job = "running",
           MadeSoFar, SavedSoFar, CopiesCover, ReadyToSave
    PROVE  job' = "running" /\ MadeSoFar' /\ SavedSoFar' /\ CopiesCover' /\ ReadyToSave'
<1> DEFINE o == OwnerOf(Now.obj)
           ids == held[o] \cup made
<1>1. Working /\ Now.op = "save" /\ job' = job /\ cloud' = cloud
  BY DEF Save
<1>2. at \in 1..Len(Script) /\ o \in Owners /\ Copies(rows) /\ Copies(held) /\ held[o] # NoRow
  BY <1>1, NowFacts DEF TypeInv
<1>3. rows' = [rows EXCEPT ![o] = ids] /\ held' = [held EXCEPT ![o] = ids] /\ at' = at + 1
  BY DEF Save
<1>4. held[o] \subseteq ids
  OBVIOUS
<1>5. ids # NoRow
  <2>1. made \subseteq Object
    <3>1. CASE made = {}
      BY <3>1
    <3>2. CASE made # {}
      <4>1. Now.part \in Hosts /\ made \subseteq Routes(Now.part)
        BY <3>2 DEF TypeInv, JobOK
      <4> QED BY <4>1, Recorded
    <3> QED BY <3>1, <3>2
  <2>2. ids \subseteq Object
    BY <1>2, <2>1, Recorded DEF Copies
  <2> QED BY <2>2, Recorded
<1> HIDE DEF ids, o
<1>6. /\ rows'[o] = ids /\ held'[o] = ids
      /\ \A p \in Owners : p # o => rows'[p] = rows[p] /\ held'[p] = held[p]
  BY <1>2, <1>3 DEF Copies
<1>7. MadeSoFar' /\ ReadyToSave'
  BY <1>1, <1>3, Onward
<1>8. CopiesCover'
  BY <1>5, <1>6 DEF CopiesCover
<1>9. \A p \in Owners : rows[p] # NoRow => rows'[p] # NoRow /\ rows[p] \subseteq rows'[p]
  BY <1>2, <1>4, <1>5, <1>6 DEF CopiesCover
<1>10. SavedSoFar'
  <2>1. ASSUME NEW n \in 1..at' - 1, Script[n].op = "save", Script[n].obj[1] # "route"
        PROVE  rows'[OwnerOf(Script[n].obj)] # NoRow /\ Script[n].obj \in rows'[OwnerOf(Script[n].obj)]
    <3>1. CASE n = at
      <4>1. Script[n] = Now /\ OwnerOf(Script[n].obj) = o
        BY <3>1 DEF Now, o
      <4>2. Now.obj \in held[o]
        BY <1>1, <2>1, <4>1 DEF ReadyToSave
      <4> QED BY <1>4, <1>5, <1>6, <4>1, <4>2
    <3>2. CASE n # at
      <4> DEFINE p == OwnerOf(Script[n].obj)
      <4>1. n \in 1..at - 1 /\ n \in 1..Len(Script)
        BY <1>2, <1>3, <2>1, <3>2, ScriptFacts
      <4>2. rows[p] # NoRow /\ Script[n].obj \in rows[p]
        BY <2>1, <4>1 DEF SavedSoFar
      <4>3. p \in Owners
        BY <4>1, ScriptFacts DEF JobStep, Steps, OwnerOf
      <4> HIDE DEF p
      <4>4. rows'[p] # NoRow /\ rows[p] \subseteq rows'[p]
        BY <1>9, <4>2, <4>3
      <4> QED BY <4>2, <4>4 DEF p
    <3> QED BY <3>1, <3>2
  <2> QED BY <2>1 DEF SavedSoFar
<1> QED BY <1>1, <1>7, <1>8, <1>10

\* At the end of its script every key is in its row.
LEMMA KeysAtEnd ==
    ASSUME TypeInv, SavedSoFar, at > Len(Script) PROVE KeysSaved
<1> SUFFICES ASSUME NEW h \in Hosts PROVE rows[h] # NoRow /\ Key(h) \in rows[h]
  BY DEF KeysSaved
<1>1. PICK n \in 1..Len(Script) : Script[n].op = "save" /\ Script[n].obj = Key(h)
  BY ScriptOrdered DEF Occurs
<1>2. n \in 1..at - 1
  BY ScriptFacts DEF TypeInv, JobOK
<1>3. Key(h)[1] # "route" /\ OwnerOf(Key(h)) = h
  BY DEF Key, OwnerOf
<1> QED BY <1>1, <1>2, <1>3 DEF SavedSoFar

\* The wait for the stage, undisturbed, goes on.
LEMMA WaitGoesOn ==
    ASSUME TypeInv, Waits, Undisturbed, Next, user' = "deferred", faults' = 0
    PROVE  Undisturbed'
<1>1. /\ user = "deferred" /\ faults = 0 /\ ~Fault /\ sandbox /\ sweeper = "none" /\ work = << >>
      /\ job \in {"queued", "running", "finished"}
  BY DEF Waits, Undisturbed, Fault
<1>2. CASE JobStart
  <2>1. /\ job = "queued" /\ sandbox' = sandbox /\ rows' = rows /\ sweeper' = sweeper /\ work' = work
        /\ \A o \in Owners : rows[o] = NoRow
    BY <1>2 DEF JobStart, sweepVars, Undisturbed
  <2>2. CASE job' = "running"
    <3>1. at' = 1 /\ Len(Script) \in Nat \ {0} /\ Script[1].op = "row"
      BY <1>2, <2>1, ScriptFacts DEF JobStart, TypeInv, JobOK, Step
    <3>2. MadeSoFar' /\ SavedSoFar'
      <4>1. \A n \in 1..at' - 1 : FALSE
        BY <3>1
      <4> QED BY <4>1 DEF MadeSoFar, SavedSoFar
    <3>3. CopiesCover'
      BY <2>1 DEF CopiesCover
    <3>4. ReadyToSave'
      BY <3>1 DEF ReadyToSave, Now
    <3> QED BY <1>1, <2>1, <2>2, <3>2, <3>3, <3>4 DEF Undisturbed
  <2>3. CASE job' # "running"
    <3>1. job' = "finished" /\ Hosts = {}
      BY <1>1, <1>2, <2>3 DEF JobStart
    <3>2. KeysSaved'
      BY <3>1 DEF KeysSaved
    <3> QED BY <1>1, <2>1, <3>1, <3>2 DEF Undisturbed
  <2> QED BY <2>2, <2>3
<1>3. ASSUME job = "running", job' = "running", UNCHANGED <<sandbox, sweeper, work>>,
             MadeSoFar', SavedSoFar', CopiesCover', ReadyToSave'
      PROVE  Undisturbed'
  BY <1>1, <1>3 DEF Undisturbed
<1>4. job = "running" => MadeSoFar /\ SavedSoFar /\ CopiesCover /\ ReadyToSave
  BY DEF Undisturbed
<1>5. CASE GetOrCreateRow
  <2>1. job = "running" /\ UNCHANGED <<sandbox, sweeper, work>>
    BY <1>5 DEF GetOrCreateRow, Working, sweepVars
  <2> QED BY <1>1, <1>3, <1>4, <1>5, <2>1, KeysRow
<1>6. CASE Create
  <2>1. job = "running" /\ UNCHANGED <<sandbox, sweeper, work>>
    BY <1>6 DEF Create, Working, sweepVars
  <2> QED BY <1>1, <1>3, <1>4, <1>6, <2>1, KeysCreate
<1>7. CASE Save
  <2>1. job = "running" /\ UNCHANGED <<sandbox, sweeper, work>>
    BY <1>7 DEF Save, Working, sweepVars
  <2> QED BY <1>1, <1>3, <1>4, <1>7, <2>1, KeysSave
<1>8. CASE EndGuard
  <2>1. /\ job = "running" /\ at > Len(Script) /\ job' = "finished"
        /\ UNCHANGED <<sandbox, rows, sweeper, work>>
    BY <1>1, <1>8 DEF EndGuard, sweepVars
  <2>2. KeysSaved
    BY <1>4, <2>1, KeysAtEnd
  <2>3. KeysSaved'
    BY <2>1, <2>2 DEF KeysSaved
  <2> QED BY <1>1, <2>1, <2>3 DEF Undisturbed
<1>9. ASSUME NEW o \in Owners, Register(o) PROVE Undisturbed'
  <2>1. /\ UNCHANGED <<sandbox, rows, job, at, held, made, sweeper, work>>
        /\ cloud \subseteq cloud'
    BY <1>9 DEF Register, provVars, sweepVars
  <2>2. MadeSoFar => MadeSoFar'
    BY <2>1 DEF MadeSoFar
  <2>3. (SavedSoFar => SavedSoFar') /\ (CopiesCover => CopiesCover') /\ (KeysSaved => KeysSaved')
    BY <2>1 DEF SavedSoFar, CopiesCover, KeysSaved
  <2>4. ReadyToSave => ReadyToSave'
    BY <2>1 DEF ReadyToSave, Working, Now
  <2>5. sandbox' /\ sweeper' = "none" /\ work' = << >> /\ job' = job /\ rows' = rows
    BY <1>1, <2>1
  <2> QED BY <1>1, <2>2, <2>3, <2>4, <2>5 DEF Undisturbed
<1>10. ~JobCrash /\ ~TeardownCrash /\ ~TeardownStart /\ ~UserStage
  BY <1>1 DEF JobCrash, TeardownCrash, TeardownStart, UserStage
<1>11. ~GiveUp /\ ~Delete /\ ~ListPeers /\ ~DeleteRow /\ ~DeleteSandbox /\ ~GuardEnd
  BY <1>1 DEF GiveUp, Delete, ListPeers, DeleteRow, DeleteSandbox, GuardEnd, Due
<1> QED BY <1>2, <1>5, <1>6, <1>7, <1>8, <1>9, <1>10, <1>11 DEF Next, Provision, Teardown

\* No step but the stage itself lets it run or takes a key back.
LEMMA OnlyTheStage ==
    ASSUME TypeInv, Next
    PROVE  /\ UserStage \/ user' = user \/ user' = "cancelled"
           /\ keys \subseteq keys' /\ (faults' = 0 => faults = 0)
<1>1. faults \in Nat /\ (Fault => faults' # 0)
  BY NetbirdAssumption DEF TypeInv, PlainOK, Fault
<1>2. CASE JobStart
  BY <1>1, <1>2 DEF JobStart
<1>3. CASE GetOrCreateRow
  BY <1>1, <1>3 DEF GetOrCreateRow
<1>4. CASE Create
  BY <1>1, <1>4 DEF Create
<1>5. CASE Save
  BY <1>1, <1>5 DEF Save
<1>6. CASE EndGuard
  BY <1>1, <1>6 DEF EndGuard
<1>7. CASE JobCrash
  BY <1>1, <1>7 DEF JobCrash
<1>8. CASE UserStage
  BY <1>1, <1>8 DEF UserStage
<1>9. ASSUME NEW o \in Owners, Register(o)
      PROVE  user' = user /\ keys \subseteq keys' /\ (faults' = 0 => faults = 0)
  BY <1>1, <1>9 DEF Register
<1>10. CASE TeardownStart
  BY <1>1, <1>10 DEF TeardownStart
<1>11. CASE GiveUp \/ DeleteRow \/ DeleteSandbox \/ GuardEnd
  BY <1>1, <1>11 DEF GiveUp, DeleteRow, DeleteSandbox, GuardEnd
<1>12. CASE Delete
  BY <1>1, <1>12 DEF Delete, Answers, Fails
<1>13. CASE ListPeers
  BY <1>1, <1>13 DEF ListPeers, Answers, Fails
<1>14. CASE TeardownCrash
  BY <1>1, <1>14 DEF TeardownCrash
<1> QED BY <1>2, <1>3, <1>4, <1>5, <1>6, <1>7, <1>8, <1>9, <1>10, <1>11, <1>12, <1>13, <1>14
        DEF Next, Provision, Teardown

LEMMA KeysStep == TypeInv /\ KeysInv /\ [Next]_vars => KeysInv'
<1> SUFFICES ASSUME TypeInv, KeysInv, [Next]_vars PROVE KeysInv'
  OBVIOUS
<1>1. CASE UNCHANGED vars
  BY <1>1 DEF vars, KeysInv, Waits, Undisturbed, MadeSoFar, SavedSoFar, CopiesCover, ReadyToSave,
              KeysSaved, KeysReachAnsible, Working, Now
<1>2. CASE Next
  <2>1. /\ UserStage \/ user' = user \/ user' = "cancelled"
        /\ keys \subseteq keys' /\ (faults' = 0 => faults = 0)
    BY <1>2, OnlyTheStage
  <2>2. Waits' => Undisturbed'
    <3> SUFFICES ASSUME user' = "deferred", faults' = 0 PROVE Undisturbed'
      BY DEF Waits
    <3>1. user = "deferred" /\ faults = 0
      BY <2>1 DEF UserStage
    <3>2. Waits /\ Undisturbed
      BY <3>1 DEF Waits, KeysInv
    <3> QED BY <1>2, <3>2, WaitGoesOn
  <2>3. KeysReachAnsible'
    <3> SUFFICES ASSUME user' = "ran", faults' = 0 PROVE Hosts \subseteq keys'
      BY DEF KeysReachAnsible
    <3>1. CASE UserStage
      <4>1. user = "deferred" /\ job = "finished"
            /\ keys' = keys \cup {h \in Hosts : rows[h] # NoRow /\ Key(h) \in Named(rows)}
        BY <3>1 DEF UserStage
      <4>2. KeysSaved
        BY <2>1, <4>1 DEF KeysInv, Waits, Undisturbed
      <4>3. \A h \in Hosts : rows[h] # NoRow /\ Key(h) \in Named(rows)
        BY <4>2 DEF KeysSaved, Named, Copied, Owners
      <4> QED BY <4>1, <4>3
    <3>2. CASE ~UserStage
      BY <2>1, <3>2 DEF KeysInv, KeysReachAnsible
    <3> QED BY <3>1, <3>2
  <2> QED BY <2>2, <2>3 DEF KeysInv
<1> QED BY <1>1, <1>2

LEMMA KeysInit == Init => KeysInv
BY DEF Init, KeysInv, Waits, Undisturbed, KeysReachAnsible

\* KeysReachAnsible: when nothing fails, the user stage runs with the setup key
\* of every entrypoint.  The job saves each key before it ends, in rows that
\* nobody takes away while the stage waits, and the stage waits for the job.
THEOREM KeysTheorem == Spec => []KeysReachAnsible
<1>1. KeysInv => KeysReachAnsible
  BY DEF KeysInv
<1> QED BY <1>1, TypeInit, TypeStep, KeysInit, KeysStep, PTL DEF Spec

-----------------------------------------------------------------------------
(* Why no peer slips in *)

\* In a teardown the key of an owner goes before its peers, these before its
\* group and this before its row.
Rank(s) == CASE s.op = "row" -> 4
             [] s.op = "peers" -> 2
             [] s.op = "delete" /\ s.obj[1] = "group" -> 3
             [] s.op = "delete" /\ s.obj[1] = "peer" -> 2
             [] s.op = "delete" /\ s.obj[1] = "key" -> 1
             [] OTHER -> 0
Sorted(W) == \A i, j \in 1..Len(W) :
    i < j /\ OwnerOf(W[i].obj) = OwnerOf(W[j].obj) => Rank(W[i]) <= Rank(W[j])

\* The access row and its objects come last.
AccessLast(W) == \A i, j \in 1..Len(W) :
    i < j /\ OwnerOf(W[i].obj) = Access => OwnerOf(W[j].obj) = Access

\* Some step of W is about x.
About(W, x) == \E n \in 1..Len(W) : W[n].obj = x

\* Peers are looked for between a key and its group.
Listed(W) == \A o \in Owners :
    Occurs(W, "delete", Key(o)) /\ Occurs(W, "delete", Group(o)) => About(W, Peer(o))

\* What the sweep at work has done about a key and the peers it lets in, unless
\* it had no chance to see the key.
Excuse(o) == Key(o) \in excused \/ Peer(o) \in excused
Missed(o) == overlap /\ Key(o) \in cloud \ known
KeyGone(o) == Key(o) \in cloud => Excuse(o) \/ Missed(o)
PeerGone(o) == Peer(o) \in cloud => Excuse(o) \/ Missed(o)
Done == \A o \in Owners :
    /\ About(work, Group(o)) /\ ~Occurs(work, "delete", Key(o)) => KeyGone(o)
    /\ Occurs(work, "delete", Group(o)) /\ ~About(work, Peer(o)) => PeerGone(o)

\* Whoever tears down while the job may still work makes it an overlap.
Told ==
    /\ sweeper = "teardown" => sandbox
    /\ sweeper = "guard" <=> job = "sweeping"
    /\ sweeper = "guard" => ~sandbox
    /\ (sweeper # "none" \/ ~sandbox) /\ ~Ended => overlap

\* The script makes each key once: what is named is not made again.
Posted(o) == Key(o) \in known \cup Named(rows) \cup Named(held)
MadeOnce ==
    /\ job = "queued" => \A o \in Owners : rows[o] = NoRow /\ held[o] = NoRow /\ ~Posted(o)
    /\ \A o \in Owners : Posted(o) /\ job = "running" =>
          \A n \in at..Len(Script) : ~(Script[n].op = "post" /\ Script[n].obj = Key(o))

\* Without an overlap every key is in its row, or about to be saved there.
Kept == ~overlap /\ sandbox =>
    /\ job = "running" => CopiesCover
    /\ \A o \in Owners : Key(o) \in cloud =>
          \/ Excuse(o) \/ Key(o) \in Named(rows)
          \/ Working /\ Now.op = "save" /\ Now.obj = Key(o) /\ Key(o) \in held[o]

\* A key whose group is gone has an excuse, so nobody joins a group that is gone.
NoLooseKey == \A o \in Owners : Key(o) \in cloud /\ Group(o) \notin cloud => Excuse(o)

PeerInv ==
    /\ Sorted(work) /\ Listed(work) /\ Done /\ Told /\ MadeOnce /\ Kept
    /\ NoLooseKey /\ NoPeerSlipsIn

\* Steps about one owner, in order, with ranks from a to c, which delete
\* nothing but what the copy of its row names.
Band(o, ids, a, c) == {W \in Seq(SweepStep) :
    /\ Sorted(W)
    /\ \A n \in 1..Len(W) :
          /\ OwnerOf(W[n].obj) = o /\ a <= Rank(W[n]) /\ Rank(W[n]) <= c
          /\ W[n].op = "delete" => W[n].obj \in ids}

LEMMA RankRange == \A s : Rank(s) \in 0..4
BY DEF Rank

LEMMA SortedCat ==
    ASSUME NEW s \in Seq(SweepStep), NEW t \in Seq(SweepStep), Sorted(s), Sorted(t),
           \A i \in 1..Len(s), j \in 1..Len(t) :
               OwnerOf(s[i].obj) = OwnerOf(t[j].obj) => Rank(s[i]) <= Rank(t[j])
    PROVE  Sorted(s \o t)
<1> DEFINE W == s \o t
<1>1. /\ Len(W) = Len(s) + Len(t) /\ Len(s) \in Nat /\ Len(t) \in Nat
      /\ \A n \in 1..Len(s) : n \in 1..Len(W) /\ W[n] = s[n]
      /\ \A n \in 1..Len(W) : n \notin 1..Len(s) => n - Len(s) \in 1..Len(t) /\ W[n] = t[n - Len(s)]
  BY Places
<1> HIDE DEF W
<1>2. ASSUME NEW i \in 1..Len(W), NEW j \in 1..Len(W), i < j, OwnerOf(W[i].obj) = OwnerOf(W[j].obj)
      PROVE  Rank(W[i]) <= Rank(W[j])
  <2>1. CASE i \in 1..Len(s) /\ j \in 1..Len(s)
    BY <1>1, <1>2, <2>1 DEF Sorted
  <2>2. CASE i \in 1..Len(s) /\ j \notin 1..Len(s)
    BY <1>1, <1>2, <2>2
  <2>3. CASE i \notin 1..Len(s)
    <3>1. j \notin 1..Len(s)
      BY <1>1, <1>2, <2>3
    <3>2. /\ i - Len(s) \in 1..Len(t) /\ W[i] = t[i - Len(s)]
          /\ j - Len(s) \in 1..Len(t) /\ W[j] = t[j - Len(s)]
      BY <1>1, <2>3, <3>1
    <3>3. i - Len(s) < j - Len(s)
      BY <1>1, <1>2
    <3> QED BY <1>2, <3>2, <3>3 DEF Sorted
  <2> QED BY <2>1, <2>2, <2>3
<1>3. Sorted(W)
  BY <1>2 DEF Sorted
<1> QED BY <1>3 DEF W

LEMMA BandEmpty == \A o, ids, a, c : << >> \in Band(o, ids, a, c)
<1>1. << >> \in Seq(SweepStep) /\ Len(<< >>) = 0
  BY EmptySeq
<1> QED BY <1>1 DEF Band, Sorted

LEMMA BandCat ==
    ASSUME NEW o, NEW ids, NEW a \in 0..4, NEW b \in 0..4, NEW d \in 0..4, NEW c \in 0..4,
           a <= d, b <= d, b <= c,
           NEW s \in Band(o, ids, a, b), NEW t \in Band(o, ids, d, c)
    PROVE  s \o t \in Band(o, ids, a, c)
<1> DEFINE W == s \o t
<1>1. /\ s \in Seq(SweepStep) /\ t \in Seq(SweepStep) /\ Sorted(s) /\ Sorted(t)
      /\ \A n \in 1..Len(s) : /\ OwnerOf(s[n].obj) = o /\ a <= Rank(s[n]) /\ Rank(s[n]) <= b
                              /\ s[n].op = "delete" => s[n].obj \in ids
      /\ \A n \in 1..Len(t) : /\ OwnerOf(t[n].obj) = o /\ d <= Rank(t[n]) /\ Rank(t[n]) <= c
                              /\ t[n].op = "delete" => t[n].obj \in ids
  BY DEF Band
<1>2. ASSUME NEW i \in 1..Len(s), NEW j \in 1..Len(t) PROVE Rank(s[i]) <= Rank(t[j])
  <2>1. Rank(s[i]) <= b /\ d <= Rank(t[j]) /\ Rank(s[i]) \in 0..4 /\ Rank(t[j]) \in 0..4
    BY <1>1, RankRange
  <2> QED BY <2>1
<1>3. Sorted(W)
  BY <1>1, <1>2, SortedCat
<1>4. /\ W \in Seq(SweepStep)
      /\ \A n \in 1..Len(s) : n \in 1..Len(W) /\ W[n] = s[n]
      /\ \A n \in 1..Len(W) : n \notin 1..Len(s) => n - Len(s) \in 1..Len(t) /\ W[n] = t[n - Len(s)]
  BY <1>1, Places
<1> HIDE DEF W
<1>5. ASSUME NEW n \in 1..Len(W)
      PROVE  /\ OwnerOf(W[n].obj) = o /\ a <= Rank(W[n]) /\ Rank(W[n]) <= c
             /\ W[n].op = "delete" => W[n].obj \in ids
  <2>1. CASE n \in 1..Len(s)
    <3>1. W[n] = s[n] /\ Rank(s[n]) \in 0..4
      BY <1>4, <2>1, RankRange
    <3>2. /\ OwnerOf(s[n].obj) = o /\ a <= Rank(s[n]) /\ Rank(s[n]) <= b
          /\ s[n].op = "delete" => s[n].obj \in ids
      BY <1>1, <2>1
    <3> QED BY <3>1, <3>2
  <2>2. CASE n \notin 1..Len(s)
    <3> DEFINE k == n - Len(s)
    <3>1. k \in 1..Len(t) /\ W[n] = t[k] /\ Rank(t[k]) \in 0..4
      BY <1>4, <2>2, RankRange
    <3> HIDE DEF k
    <3>2. /\ OwnerOf(t[k].obj) = o /\ d <= Rank(t[k]) /\ Rank(t[k]) <= c
          /\ t[k].op = "delete" => t[k].obj \in ids
      BY <1>1, <3>1
    <3> QED BY <3>1, <3>2
  <2> QED BY <2>1, <2>2
<1>6. W \in Band(o, ids, a, c)
  BY <1>3, <1>4, <1>5 DEF Band
<1> QED BY <1>6 DEF W

LEMMA DoBand ==
    ASSUME NEW op \in {"delete", "peers", "row"}, NEW x \in Object, NEW c \in BOOLEAN, NEW ids,
           op = "delete" => x \in ids, op = "peers" => x = Peer(OwnerOf(x)),
           op = "row" => x = Group(OwnerOf(x)), NEW r, r = Rank([op |-> op, obj |-> x, checked |-> c])
    PROVE  /\ Do(op, x, c) \in Band(OwnerOf(x), ids, r, r) /\ Occurs(Do(op, x, c), op, x)
<1> DEFINE d == [op |-> op, obj |-> x, checked |-> c]
           W == <<d>>
<1>1. d \in SweepStep /\ d.op = op /\ d.obj = x /\ Rank(d) = r /\ r \in 0..4
  BY RankRange DEF SweepStep
<1>2. Do(op, x, c) = W
  BY DEF Do
<1> HIDE DEF d
<1>3. W \in Seq(SweepStep) /\ Len(W) = 1 /\ W[1] = d
  BY <1>1
<1> HIDE DEF W
<1>4. W \in Band(OwnerOf(x), ids, r, r)
  <2>1. \A n \in 1..Len(W) : n = 1
    BY <1>3
  <2>2. Sorted(W)
    BY <1>3, <2>1 DEF Sorted
  <2>3. ASSUME NEW n \in 1..Len(W)
        PROVE  /\ OwnerOf(W[n].obj) = OwnerOf(x) /\ r <= Rank(W[n]) /\ Rank(W[n]) <= r
               /\ W[n].op = "delete" => W[n].obj \in ids
    <3>1. W[n] = d
      BY <1>3, <2>1
    <3>2. r <= r
      BY <1>1
    <3> QED BY <1>1, <3>1, <3>2
  <2> QED BY <1>3, <2>2, <2>3 DEF Band
<1>5. Occurs(W, op, x)
  <2>1. 1 \in 1..Len(W)
    BY <1>3
  <2> QED BY <1>1, <1>3, <2>1 DEF Occurs
<1> QED BY <1>2, <1>4, <1>5

LEMMA DeleteBand ==
    ASSUME NEW ids, NEW x \in Object, NEW r \in {0, 1, 3},
           r = 0 => x[1] \in {"route", "policy", "dns"}, r = 1 => x[1] = "key",
           r = 3 => x[1] = "group"
    PROVE  /\ DeleteIf(ids, x) \in Band(OwnerOf(x), ids, r, r)
           /\ x \in ids => Occurs(DeleteIf(ids, x), "delete", x)
<1> DEFINE d == [op |-> "delete", obj |-> x, checked |-> TRUE]
<1>1. Rank(d) = r
  BY DEF Rank
<1>2. CASE x \in ids
  <2>1. Do("delete", x, TRUE) \in Band(OwnerOf(x), ids, r, r) /\ Occurs(Do("delete", x, TRUE), "delete", x)
    BY <1>1, <1>2, DoBand
  <2> QED BY <1>2, <2>1 DEF DeleteIf
<1>3. CASE x \notin ids
  BY <1>3, BandEmpty DEF DeleteIf
<1> QED BY <1>2, <1>3

\* What the teardown of a row does.
Destroys(W, o, ids) ==
    /\ W \in Band(o, ids, 0, 4)
    /\ \A x \in ids \cap Recordable(o) : Occurs(W, "delete", x)
    /\ Group(o) \in ids => Occurs(W, "peers", Peer(o))

\* The part of it from the key on.
LEMMA KeyToRow ==
    ASSUME NEW ids, NEW o \in Owners, NEW a \in Band(o, ids, 0, 0),
           \A x \in ids \cap Recordable(o) : x \in {Key(o), Group(o)} \/ Occurs(a, "delete", x)
    PROVE  Destroys(((a \o DeleteIf(ids, Key(o))) \o Peers(ids, o)) \o GroupAndRow(ids, o), o, ids)
<1> DEFINE k == DeleteIf(ids, Key(o))
           p == Peers(ids, o)
           g == GroupAndRow(ids, o)
<1>1. Group(o) \in Object /\ Key(o) \in Object /\ Peer(o) \in Object
  BY NamedObjects
<1>2. /\ OwnerOf(Group(o)) = o /\ Group(o)[1] = "group" /\ OwnerOf(Key(o)) = o /\ Key(o)[1] = "key"
      /\ OwnerOf(Peer(o)) = o
  BY OwnObjects
<1>3. k \in Band(o, ids, 1, 1) /\ (Key(o) \in ids => Occurs(k, "delete", Key(o)))
  BY <1>1, <1>2, DeleteBand
<1>4. p \in Band(o, ids, 2, 2) /\ (Group(o) \in ids => Occurs(p, "peers", Peer(o)))
  <2>1. Rank([op |-> "peers", obj |-> Peer(o), checked |-> Key(o) \notin ids]) = 2
    BY DEF Rank
  <2>2. /\ Do("peers", Peer(o), Key(o) \notin ids) \in Band(o, ids, 2, 2)
        /\ Occurs(Do("peers", Peer(o), Key(o) \notin ids), "peers", Peer(o))
    BY <1>1, <1>2, <2>1, DoBand
  <2> QED BY <2>2, BandEmpty DEF Peers
<1>5. g \in Band(o, ids, 3, 4) /\ (Group(o) \in ids => Occurs(g, "delete", Group(o)))
  <2>1. /\ DeleteIf(ids, Group(o)) \in Band(o, ids, 3, 3)
        /\ Group(o) \in ids => Occurs(DeleteIf(ids, Group(o)), "delete", Group(o))
    BY <1>1, <1>2, DeleteBand
  <2>2. Rank([op |-> "row", obj |-> Group(o), checked |-> Group(o) \notin ids]) = 4
    BY DEF Rank
  <2>3. Do("row", Group(o), Group(o) \notin ids) \in Band(o, ids, 4, 4)
    BY <1>1, <1>2, <2>2, DoBand
  <2>4. /\ DeleteIf(ids, Group(o)) \in Seq(SweepStep)
        /\ Do("row", Group(o), Group(o) \notin ids) \in Seq(SweepStep)
    BY <2>1, <2>3 DEF Band
  <2>5. Group(o) \in ids => Occurs(g, "delete", Group(o))
    BY <2>1, <2>4, OccursCat DEF GroupAndRow
  <2> QED BY <2>1, <2>3, <2>5, BandCat DEF GroupAndRow
<1> HIDE DEF k, p, g
<1> DEFINE u == a \o k
           v == u \o p
           W == v \o g
<1>6. u \in Band(o, ids, 0, 1)
  BY <1>3, BandCat
<1>7. \A x \in ids \cap Recordable(o) : x = Group(o) \/ Occurs(u, "delete", x)
  <2>1. a \in Seq(SweepStep) /\ k \in Seq(SweepStep)
    BY <1>3 DEF Band
  <2> QED BY <1>3, <2>1, OccursCat
<1> HIDE DEF u
<1>8. v \in Band(o, ids, 0, 2)
  BY <1>4, <1>6, BandCat
<1>9. /\ \A x \in ids \cap Recordable(o) : x = Group(o) \/ Occurs(v, "delete", x)
      /\ Group(o) \in ids => Occurs(v, "peers", Peer(o))
  <2>1. u \in Seq(SweepStep) /\ p \in Seq(SweepStep)
    BY <1>4, <1>6 DEF Band
  <2> QED BY <1>4, <1>7, <2>1, OccursCat
<1> HIDE DEF v
<1>10. W \in Band(o, ids, 0, 4)
  BY <1>5, <1>8, BandCat
<1>11. /\ \A x \in ids \cap Recordable(o) : Occurs(W, "delete", x)
       /\ Group(o) \in ids => Occurs(W, "peers", Peer(o))
  <2>1. v \in Seq(SweepStep) /\ g \in Seq(SweepStep)
    BY <1>5, <1>8 DEF Band
  <2> QED BY <1>5, <1>9, <2>1, OccursCat
<1>12. Destroys(W, o, ids)
  BY <1>10, <1>11 DEF Destroys
<1> QED BY <1>12 DEF W, v, u, k, p, g

LEMMA AccessDestroyed == ASSUME NEW ids PROVE Destroys(DestroyAccess(ids), Access, ids)
<1>1. Access \in Owners /\ Nameservers \in Object
  BY NamedObjects DEF Owners
<1>2. /\ DeleteIf(ids, Nameservers) \in Band(Access, ids, 0, 0)
      /\ Nameservers \in ids => Occurs(DeleteIf(ids, Nameservers), "delete", Nameservers)
  BY <1>1, OwnObjects, DeleteBand
<1>3. \A x \in Recordable(Access) : x \in {Key(Access), Group(Access)} \/ x = Nameservers
  BY DEF Recordable
<1> QED BY <1>1, <1>2, <1>3, KeyToRow DEF DestroyAccess

LEMMA EntrypointDestroyed ==
    ASSUME NEW h \in Hosts, NEW ids PROVE Destroys(DestroyEntrypoint(h, ids), h, ids)
<1>1. h \in Owners /\ Policy(h) \in Object /\ RouteCount[h] \in Nat
  BY NamedObjects, NetbirdAssumption DEF Owners
<1> DEFINE ss == [i \in 1..RouteCount[h] |-> DeleteIf(ids, Route(h, i))]
           B == Band(h, ids, 0, 0)
<1>2. DeleteIf(ids, Policy(h)) \in B /\ (Policy(h) \in ids => Occurs(DeleteIf(ids, Policy(h)), "delete", Policy(h)))
  BY <1>1, OwnObjects, DeleteBand
<1>3. ASSUME NEW i \in 1..RouteCount[h]
      PROVE  /\ DeleteIf(ids, Route(h, i)) \in B
             /\ Route(h, i) \in ids => Occurs(DeleteIf(ids, Route(h, i)), "delete", Route(h, i))
  <2>1. Route(h, i) \in Object /\ OwnerOf(Route(h, i)) = h /\ Route(h, i)[1] = "route"
    BY NamedObjects, OwnObjects
  <2> QED BY <2>1, DeleteBand
<1>4. /\ FlattenSeq(ss) \in B
      /\ \A i \in 1..RouteCount[h] : Route(h, i) \in ids => Occurs(FlattenSeq(ss), "delete", Route(h, i))
  <2>1. ss \in [1..RouteCount[h] -> B]
    BY <1>3
  <2>2. B \in SUBSET Seq(SweepStep)
    BY DEF Band
  <2>5. \A i \in 1..RouteCount[h] : Route(h, i) \in ids => Occurs(ss[i], "delete", Route(h, i))
    BY <1>3
  <2>3. << >> \in B /\ \A s, t \in B : s \o t \in B
    BY BandEmpty, BandCat
  <2> HIDE DEF ss, B
  <2>4. ss \in Seq(Seq(SweepStep)) /\ Len(ss) = RouteCount[h]
    BY <1>1, <2>1, <2>2
  <2>6. FlattenSeq(ss) \in B
    BY <2>1, <2>2, <2>3, <2>4, FlattenIn
  <2>7. \A i \in 1..RouteCount[h] : Route(h, i) \in ids => Occurs(FlattenSeq(ss), "delete", Route(h, i))
    BY <2>4, <2>5, FlattenOccurs
  <2> QED BY <2>6, <2>7
<1> HIDE DEF ss
<1>5. DeleteIf(ids, Policy(h)) \o FlattenSeq(ss) \in B
  BY <1>2, <1>4, BandCat
<1> DEFINE a == DeleteIf(ids, Policy(h)) \o FlattenSeq(ss)
<1>6. DestroyEntrypoint(h, ids) =
        ((a \o DeleteIf(ids, Key(h))) \o Peers(ids, h)) \o GroupAndRow(ids, h)
  BY DEF DestroyEntrypoint, ss
<1>7. a \in Band(h, ids, 0, 0)
  BY <1>5
<1>9. \A x \in ids \cap Recordable(h) : x \in {Key(h), Group(h)} \/ Occurs(a, "delete", x)
  <2>1. DeleteIf(ids, Policy(h)) \in Seq(SweepStep) /\ FlattenSeq(ss) \in Seq(SweepStep)
    BY <1>2, <1>4 DEF Band
  <2>2. \A x : Occurs(DeleteIf(ids, Policy(h)), "delete", x) \/ Occurs(FlattenSeq(ss), "delete", x)
            => Occurs(a, "delete", x)
    BY <2>1, OccursCat
  <2>3. Recordable(h) = {Group(h), Key(h)} \cup (Routes(h) \cup {Policy(h)})
    BY NetbirdAssumption DEF Recordable
  <2>4. \A x \in Routes(h) : \E i \in 1..RouteCount[h] : x = Route(h, i)
    BY DEF Routes
  <2>5. \A x \in ids \cap Routes(h) : Occurs(FlattenSeq(ss), "delete", x)
    BY <1>4, <2>4
  <2> HIDE DEF a
  <2> QED BY <1>2, <2>2, <2>3, <2>5
<1> HIDE DEF a, B
<1>8. Destroys(((a \o DeleteIf(ids, Key(h))) \o Peers(ids, h)) \o GroupAndRow(ids, h), h, ids)
  BY <1>1, <1>7, <1>9, KeyToRow
<1> QED BY <1>6, <1>8

\* A key is named by the row of its owner only.
LEMMA NamedKey ==
    ASSUME NEW copies, Copies(copies), NEW o \in Owners
    PROVE  Key(o) \in Named(copies) <=> copies[o] # NoRow /\ Key(o) \in copies[o]
<1>1. \A p \in Owners : copies[p] = NoRow \/ copies[p] \subseteq Recordable(p)
  BY DEF Copies
<1>2. \A p \in Owners : Key(o) \in Recordable(p) => p = o
  BY RecordedByOwner, OwnObjects
<1> QED BY <1>1, <1>2 DEF Named, Copied

\* A whole teardown: in order; whose group it deletes, it looks for the peers;
\* it deletes all that its copies name; and the access row comes last.
LEMMA SweepOrdered ==
    ASSUME NEW copies, Copies(copies)
    PROVE  LET W == Sweep(copies) IN
           /\ W \in Seq(SweepStep) /\ Sorted(W)
           /\ \A o \in Owners : Occurs(W, "delete", Group(o)) => About(W, Peer(o))
           /\ \A x \in Named(copies) : Occurs(W, "delete", x)
           /\ AccessLast(W)
<1> DEFINE L == Len(Entrypoints)
           part(o) == IF o = Access THEN DestroyAccess(copies[o]) ELSE DestroyEntrypoint(o, copies[o])
           ss == [i \in 1..L |->
                    IF Entrypoints[i] \in Copied(copies)
                    THEN DestroyEntrypoint(Entrypoints[i], copies[Entrypoints[i]]) ELSE << >>]
           acc == IF Access \in Copied(copies) THEN DestroyAccess(copies[Access]) ELSE << >>
           F == FlattenSeq(ss)
           W == F \o acc
<1>1. Sweep(copies) = W
  BY DEF Sweep
<1>2. /\ L \in Nat /\ \A i \in 1..L : Entrypoints[i] \in Hosts
      /\ \A i, j \in 1..L : Entrypoints[i] = Entrypoints[j] => i = j
  BY NetbirdAssumption
<1>3. Access \notin Hosts /\ Access \in Owners /\ Hosts \subseteq Owners
  BY NetbirdAssumption DEF Owners
\* A step that belongs to one of the owners.
<1> DEFINE Good(s, O) == /\ OwnerOf(s.obj) \in O
                         /\ s.op = "delete" => OwnerOf(s.obj) \in Copied(copies)
                                               /\ s.obj \in copies[OwnerOf(s.obj)]
           Goods(O) == {V \in Seq(SweepStep) : Sorted(V) /\ \A n \in 1..Len(V) : Good(V[n], O)}
<1>4. \A O : << >> \in Goods(O)
  <2>1. << >> \in Seq(SweepStep) /\ Len(<< >>) = 0
    BY EmptySeq
  <2> QED BY <2>1 DEF Sorted
<1>5. ASSUME NEW o \in Copied(copies), NEW V, Destroys(V, o, copies[o]) PROVE V \in Goods({o})
  BY <1>5 DEF Destroys, Band
<1>6. ASSUME NEW O, NEW P, O \cap P = {}, NEW s \in Goods(O), NEW t \in Goods(P)
      PROVE  s \o t \in Goods(O \cup P)
  <2> DEFINE V == s \o t
  <2>1. /\ s \in Seq(SweepStep) /\ t \in Seq(SweepStep) /\ Sorted(s) /\ Sorted(t)
        /\ \A n \in 1..Len(s) : Good(s[n], O)
        /\ \A n \in 1..Len(t) : Good(t[n], P)
    OBVIOUS
  <2>2. \A i \in 1..Len(s), j \in 1..Len(t) : OwnerOf(s[i].obj) # OwnerOf(t[j].obj)
    BY <1>6, <2>1
  <2>3. Sorted(V)
    BY <2>1, <2>2, SortedCat
  <2>4. /\ V \in Seq(SweepStep)
        /\ \A n \in 1..Len(s) : n \in 1..Len(V) /\ V[n] = s[n]
        /\ \A n \in 1..Len(V) : n \notin 1..Len(s) => n - Len(s) \in 1..Len(t) /\ V[n] = t[n - Len(s)]
    BY <2>1, Places
  <2> HIDE DEF V
  <2>5. \A n \in 1..Len(V) : Good(V[n], O \cup P)
    BY <2>1, <2>4
  <2> QED BY <2>3, <2>4, <2>5 DEF V
<1>7. /\ Len(ss) = L /\ ss \in Seq(Seq(SweepStep))
      /\ \A i \in 1..L : ss[i] \in Goods({Entrypoints[i]})
  <2>1. \A i \in 1..L : ss[i] \in Goods({Entrypoints[i]})
    <3> SUFFICES ASSUME NEW i \in 1..L PROVE ss[i] \in Goods({Entrypoints[i]})
      OBVIOUS
    <3> DEFINE h == Entrypoints[i]
    <3>1. h \in Hosts
      BY <1>2
    <3>2. ss[i] = IF h \in Copied(copies) THEN DestroyEntrypoint(h, copies[h]) ELSE << >>
      OBVIOUS
    <3> HIDE DEF h, Goods, ss
    <3>3. Destroys(DestroyEntrypoint(h, copies[h]), h, copies[h])
      BY <3>1, EntrypointDestroyed
    <3>4. ss[i] \in Goods({h})
      BY <1>4, <1>5, <3>2, <3>3
    <3> QED BY <3>4 DEF h
  <2>2. ss = [i \in 1..L |-> ss[i]]
    OBVIOUS
  <2>3. \A i \in 1..L : ss[i] \in Seq(SweepStep)
    <3> HIDE DEF ss
    <3> QED BY <2>1
  <2> HIDE DEF ss, Goods
  <2>4. ss \in [1..L -> Seq(SweepStep)]
    BY <2>2, <2>3
  <2> QED BY <1>2, <2>1, <2>4
<1>8. F \in Goods(Hosts)
  <2> DEFINE G == [O \in SUBSET Hosts |-> Goods(O)]
  <2>1. /\ << >> \in G[{}] /\ \A i \in 1..Len(ss) : ss[i] \in G[{Entrypoints[i]}]
        /\ \A O, P \in SUBSET Hosts : O \cap P = {} =>
              \A s \in G[O], t \in G[P] : s \o t \in G[O \cup P]
    <3> HIDE DEF ss, Goods
    <3>1. {} \in SUBSET Hosts /\ \A i \in 1..Len(ss) : {Entrypoints[i]} \in SUBSET Hosts
      BY <1>2, <1>7
    <3>2. << >> \in G[{}] /\ \A i \in 1..Len(ss) : ss[i] \in G[{Entrypoints[i]}]
      BY <1>4, <1>7, <3>1
    <3>3. ASSUME NEW O \in SUBSET Hosts, NEW P \in SUBSET Hosts, O \cap P = {},
                 NEW s \in G[O], NEW t \in G[P]
          PROVE  s \o t \in G[O \cup P]
      <4>1. s \in Goods(O) /\ t \in Goods(P) /\ O \cup P \in SUBSET Hosts
        OBVIOUS
      <4>2. s \o t \in Goods(O \cup P)
        BY <1>6, <3>3, <4>1
      <4> QED BY <4>1, <4>2
    <3> HIDE DEF G
    <3> QED BY <3>2, <3>3
  <2> HIDE DEF ss, G
  <2>2. F \in G[Hosts]
    BY <1>7, <2>1, FlattenHosts
  <2> HIDE DEF Goods, F
  <2> QED BY <2>2 DEF G
<1>9. acc \in Goods({Access})
  <2> HIDE DEF Goods
  <2> QED BY <1>4, <1>5, AccessDestroyed
<1> HIDE DEF F, acc
<1>10. W \in Goods(Hosts \cup {Access})
  <2> HIDE DEF Goods
  <2>1. Hosts \cap {Access} = {}
    BY <1>3
  <2> QED BY <1>6, <1>8, <1>9, <2>1
<1>11. F \in Seq(SweepStep) /\ acc \in Seq(SweepStep)
  <2>1. F \in Goods(Hosts) /\ acc \in Goods({Access})
    BY <1>8, <1>9
  <2> QED BY <2>1
<1>12. ASSUME NEW o \in Copied(copies)
       PROVE  \A op, x : Occurs(part(o), op, x) => Occurs(W, op, x)
  <2>1. o \in Owners
    BY DEF Copied
  <2>2. CASE o = Access
    <3>1. acc = part(o)
      BY <2>2, <1>12 DEF acc
    <3> HIDE DEF part
    <3> QED BY <1>11, <3>1, OccursCat
  <2>3. CASE o # Access
    <3>1. o \in Hosts
      BY <2>1, <2>3 DEF Owners
    <3>2. PICK i \in 1..L : Entrypoints[i] = o
      <4>1. Hosts = {Entrypoints[i] : i \in DOMAIN Entrypoints}
        BY DEF Hosts, ToSet
      <4>2. DOMAIN Entrypoints = 1..L
        <5> HIDE DEF ss, Hosts
        <5> QED BY NetbirdAssumption
      <4>3. o \in {Entrypoints[i] : i \in DOMAIN Entrypoints}
        BY <3>1, <4>1
      <4> HIDE DEF ss, Hosts
      <4> QED BY <4>2, <4>3
    <3>3. ss[i] = part(o)
      BY <1>12, <2>3, <3>2
    <3> SUFFICES ASSUME NEW op, NEW x, Occurs(part(o), op, x) PROVE Occurs(W, op, x)
      OBVIOUS
    <3> HIDE DEF part, ss
    <3>4. Occurs(F, op, x)
      BY <1>7, <3>3, FlattenOccurs DEF F
    <3> QED BY <1>11, <3>4, OccursCat
  <2> QED BY <2>2, <2>3
<1>13. ASSUME NEW o \in Copied(copies) PROVE Destroys(part(o), o, copies[o])
  BY <1>13, AccessDestroyed, EntrypointDestroyed DEF Copied, Owners
<1> HIDE DEF part, ss
<1>14. W \in Seq(SweepStep) /\ Sorted(W) /\ \A n \in 1..Len(W) : Good(W[n], Hosts \cup {Access})
  <2> HIDE DEF W
  <2> QED BY <1>10
<1>15. ASSUME NEW o \in Owners, Occurs(W, "delete", Group(o)) PROVE About(W, Peer(o))
  <2>1. PICK n \in 1..Len(W) : W[n].op = "delete" /\ W[n].obj = Group(o)
    BY <1>15 DEF Occurs
  <2>2. OwnerOf(Group(o)) = o
    BY OwnObjects
  <2>3. o \in Copied(copies) /\ Group(o) \in copies[o]
    BY <1>14, <2>1, <2>2
  <2>4. Occurs(part(o), "peers", Peer(o))
    BY <1>13, <2>3 DEF Destroys
  <2>5. Occurs(W, "peers", Peer(o))
    BY <1>12, <2>3, <2>4
  <2> QED BY <2>5 DEF Occurs, About
<1>16. ASSUME NEW x \in Named(copies) PROVE Occurs(W, "delete", x)
  <2>1. PICK o \in Copied(copies) : x \in copies[o]
    BY DEF Named
  <2>2. x \in copies[o] \cap Recordable(o)
    BY <2>1 DEF Copied, Copies
  <2>3. Occurs(part(o), "delete", x)
    BY <1>13, <2>2 DEF Destroys
  <2> QED BY <1>12, <2>3
<1>17. AccessLast(W)
  <2>1. /\ \A n \in 1..Len(F) : OwnerOf(F[n].obj) # Access
        /\ \A n \in 1..Len(acc) : OwnerOf(acc[n].obj) = Access
    <3>1. F \in Goods(Hosts) /\ acc \in Goods({Access})
      BY <1>8, <1>9
    <3> QED BY <1>3, <3>1
  <2>2. /\ \A n \in 1..Len(F) : n \in 1..Len(W) /\ W[n] = F[n]
        /\ \A n \in 1..Len(W) : n \notin 1..Len(F) => n - Len(F) \in 1..Len(acc) /\ W[n] = acc[n - Len(F)]
        /\ Len(F) \in Nat /\ Len(W) \in Nat
    BY <1>11, Places
  <2> HIDE DEF W
  <2> SUFFICES ASSUME NEW i \in 1..Len(W), NEW j \in 1..Len(W), i < j, OwnerOf(W[i].obj) = Access
               PROVE  OwnerOf(W[j].obj) = Access
    BY DEF AccessLast
  <2>3. i \notin 1..Len(F)
    BY <2>1, <2>2
  <2>4. j \notin 1..Len(F)
    BY <2>2, <2>3
  <2> QED BY <2>1, <2>2, <2>4
<1> HIDE DEF W
<1> QED BY <1>1, <1>14, <1>15, <1>16, <1>17

-----------------------------------------------------------------------------
(* Each object is made once *)

\* Sequences of steps about owners in O.  They make objects in X only, each at
\* most once and, but for a route, saved at once; and they get rows of owners in
\* R only, each before all that is about its owner.
SavedNext(W, n) == n < Len(W) /\ W[n + 1].op = "save" /\ W[n + 1].obj = W[n].obj
MadeWell(s, X, O, R) ==
    /\ OwnerOf(s.obj) \in O
    /\ s.op = "post" => s.obj \in X
    /\ s.op = "row" => OwnerOf(s.obj) \in R
Twice(W, m, n) == W[m].op = "post" /\ W[n].op = "post" /\ W[m].obj = W[n].obj
Tardy(W, m, n) == W[n].op = "row" /\ m < n /\ OwnerOf(W[m].obj) = OwnerOf(W[n].obj)
Makers(X, O, R) == {W \in Seq(JobStep) :
    /\ \A n \in 1..Len(W) : /\ MadeWell(W[n], X, O, R)
                            /\ W[n].op = "post" /\ W[n].obj[1] # "route" => SavedNext(W, n)
    /\ \A m, n \in 1..Len(W) : (Twice(W, m, n) => m = n) /\ ~Tardy(W, m, n)}

LEMMA MakersCat ==
    ASSUME NEW X, NEW O, NEW R, NEW Y, NEW P, NEW Q, X \cap Y = {}, O \cap Q = {},
           NEW s \in Makers(X, O, R), NEW t \in Makers(Y, P, Q)
    PROVE  s \o t \in Makers(X \cup Y, O \cup P, R \cup Q)
<1> DEFINE W == s \o t
<1>1. /\ s \in Seq(JobStep) /\ t \in Seq(JobStep)
      /\ \A n \in 1..Len(s) : /\ MadeWell(s[n], X, O, R)
                              /\ s[n].op = "post" /\ s[n].obj[1] # "route" => SavedNext(s, n)
      /\ \A n \in 1..Len(t) : /\ MadeWell(t[n], Y, P, Q)
                              /\ t[n].op = "post" /\ t[n].obj[1] # "route" => SavedNext(t, n)
      /\ \A m, n \in 1..Len(s) : (Twice(s, m, n) => m = n) /\ ~Tardy(s, m, n)
      /\ \A m, n \in 1..Len(t) : (Twice(t, m, n) => m = n) /\ ~Tardy(t, m, n)
  BY DEF Makers
<1>2. /\ W \in Seq(JobStep) /\ Len(W) = Len(s) + Len(t) /\ Len(s) \in Nat /\ Len(t) \in Nat
      /\ \A n \in 1..Len(s) : n \in 1..Len(W) /\ W[n] = s[n]
      /\ \A n \in 1..Len(W) : n \notin 1..Len(s) => n - Len(s) \in 1..Len(t) /\ W[n] = t[n - Len(s)]
  BY <1>1, Places
<1> HIDE DEF W
<1>3. ASSUME NEW n \in 1..Len(W), n \in 1..Len(s)
      PROVE  /\ MadeWell(W[n], X, O, R)
             /\ W[n].op = "post" /\ W[n].obj[1] # "route" => SavedNext(W, n)
  <2>1. W[n] = s[n]
    BY <1>2, <1>3
  <2>2. ASSUME SavedNext(s, n) PROVE SavedNext(W, n)
    <3>1. n + 1 \in 1..Len(s) /\ n < Len(W)
      BY <1>2, <2>2 DEF SavedNext
    <3>2. W[n + 1] = s[n + 1]
      BY <1>2, <3>1
    <3> QED BY <2>1, <2>2, <3>1, <3>2 DEF SavedNext
  <2> QED BY <1>1, <1>3, <2>1, <2>2
<1>4. ASSUME NEW n \in 1..Len(W), n \notin 1..Len(s)
      PROVE  /\ MadeWell(W[n], Y, P, Q)
             /\ W[n].op = "post" /\ W[n].obj[1] # "route" => SavedNext(W, n)
  <2> DEFINE k == n - Len(s)
  <2>1. k \in 1..Len(t) /\ W[n] = t[k] /\ n = Len(s) + k
    BY <1>2, <1>4
  <2> HIDE DEF k
  <2>2. ASSUME SavedNext(t, k) PROVE SavedNext(W, n)
    <3>1. n + 1 \in 1..Len(W) /\ n + 1 \notin 1..Len(s) /\ (n + 1) - Len(s) = k + 1 /\ n < Len(W)
      BY <1>2, <2>1, <2>2 DEF SavedNext
    <3>2. W[n + 1] = t[k + 1]
      BY <1>2, <3>1
    <3> QED BY <2>1, <2>2, <3>1, <3>2 DEF SavedNext
  <2> QED BY <1>1, <2>1, <2>2
<1>5. ASSUME NEW m \in 1..Len(W), NEW n \in 1..Len(W)
      PROVE  (Twice(W, m, n) => m = n) /\ ~Tardy(W, m, n)
  <2>1. CASE m \in 1..Len(s) /\ n \in 1..Len(s)
    <3>1. W[m] = s[m] /\ W[n] = s[n]
      BY <1>2, <2>1
    <3> QED BY <1>1, <2>1, <3>1 DEF Twice, Tardy
  <2>2. CASE m \notin 1..Len(s) /\ n \notin 1..Len(s)
    <3> DEFINE j == m - Len(s)
               k == n - Len(s)
    <3>1. j \in 1..Len(t) /\ k \in 1..Len(t) /\ W[m] = t[j] /\ W[n] = t[k]
          /\ (j = k <=> m = n) /\ (j < k <=> m < n)
      BY <1>2, <2>2
    <3> HIDE DEF j, k
    <3> QED BY <1>1, <3>1 DEF Twice, Tardy
  <2>3. CASE m \in 1..Len(s) /\ n \notin 1..Len(s)
    <3>1. MadeWell(W[m], X, O, R) /\ MadeWell(W[n], Y, P, Q)
      BY <1>3, <1>4, <2>3
    <3> QED BY <3>1 DEF MadeWell, Twice, Tardy
  <2>4. CASE m \notin 1..Len(s) /\ n \in 1..Len(s)
    <3>1. MadeWell(W[n], X, O, R) /\ MadeWell(W[m], Y, P, Q)
      BY <1>3, <1>4, <2>4
    <3>2. ~(m < n)
      BY <1>2, <2>4
    <3> QED BY <3>1, <3>2 DEF MadeWell, Twice, Tardy
  <2> QED BY <2>1, <2>2, <2>3, <2>4
<1>6. ASSUME NEW n \in 1..Len(W)
      PROVE  /\ MadeWell(W[n], X \cup Y, O \cup P, R \cup Q)
             /\ W[n].op = "post" /\ W[n].obj[1] # "route" => SavedNext(W, n)
  BY <1>3, <1>4 DEF MadeWell
<1>7. W \in Makers(X \cup Y, O \cup P, R \cup Q)
  BY <1>2, <1>5, <1>6 DEF Makers
<1> QED BY <1>7 DEF W

LEMMA NoMakers == \A X, O, R : << >> \in Makers(X, O, R)
<1>1. << >> \in Seq(JobStep) /\ Len(<< >>) = 0
  BY EmptySeq
<1> QED BY <1>1 DEF Makers

\* A step that makes nothing; and an object made and saved.
LEMMA StepMakes ==
    ASSUME NEW s \in JobStep, s.op # "post", NEW o, OwnerOf(s.obj) = o
    PROVE  <<s>> \in Makers({}, {o}, IF s.op = "row" THEN {o} ELSE {})
<1> DEFINE W == <<s>>
<1>1. W \in Seq(JobStep) /\ Len(W) = 1 /\ W[1] = s
  OBVIOUS
<1> HIDE DEF W
<1>2. \A n \in 1..Len(W) : n = 1
  BY <1>1
<1> DEFINE R == IF s.op = "row" THEN {o} ELSE {}
<1>3. MadeWell(s, {}, {o}, R)
  BY DEF MadeWell
<1> HIDE DEF R
<1>4. \A n \in 1..Len(W) : MadeWell(W[n], {}, {o}, R) /\ W[n].op # "post"
  BY <1>1, <1>2, <1>3
<1>5. \A m, n \in 1..Len(W) : ~Twice(W, m, n) /\ ~Tardy(W, m, n)
  BY <1>1, <1>2, <1>4 DEF Twice, Tardy
<1>6. W \in Makers({}, {o}, R)
  BY <1>1, <1>4, <1>5 DEF Makers
<1> QED BY <1>6 DEF W, R

LEMMA ThingMakes ==
    ASSUME NEW p, NEW x, Step(p, "post", x) \in JobStep, Step(p, "save", x) \in JobStep
    PROVE  MakeAndSave(p, x) \in Makers({x}, {OwnerOf(x)}, {})
<1> DEFINE M == MakeAndSave(p, x)
           a == Step(p, "post", x)
           b == Step(p, "save", x)
<1>1. M \in Seq(JobStep) /\ Len(M) = 2 /\ M[1] = a /\ M[2] = b
  BY MakeAndSaveOrder
<1>2. a.op = "post" /\ b.op = "save" /\ a.obj = x /\ b.obj = x
  BY DEF Step
<1> HIDE DEF M, a, b
<1>3. \A n \in 1..Len(M) : n = 1 \/ n = 2
  BY <1>1
<1>4. \A n \in 1..Len(M) : /\ M[n].obj = x /\ M[n].op # "row"
                           /\ M[n].op = "post" => n = 1
  BY <1>1, <1>2, <1>3
<1>5. SavedNext(M, 1)
  BY <1>1, <1>2 DEF SavedNext
<1>6. M \in Makers({x}, {OwnerOf(x)}, {})
  BY <1>1, <1>4, <1>5 DEF Makers, MadeWell, Twice, Tardy
<1> QED BY <1>6 DEF M

\* The row and the group of a part, which every part but the one of the name
\* servers begins with, and its key.
LEMMA LeadMakes ==
    ASSUME NEW o \in Owners
    PROVE  (<<Step(o, "row", Group(o))>> \o MakeAndSave(o, Group(o))) \o MakeAndSave(o, Key(o))
              \in Makers({Group(o), Key(o)}, {o}, {o})
<1> DEFINE r == Step(o, "row", Group(o))
           A == <<r>>
           B == MakeAndSave(o, Group(o))
           K == MakeAndSave(o, Key(o))
<1>1. A \in Makers({}, {o}, {o})
  <2>1. r \in JobStep /\ r.op = "row" /\ OwnerOf(r.obj) = o
    BY StepsFit, OwnObjects DEF Step
  <2> HIDE DEF r
  <2> QED BY <2>1, StepMakes
<1>2. B \in Makers({Group(o)}, {o}, {}) /\ K \in Makers({Key(o)}, {o}, {})
  <2>1. OwnerOf(Group(o)) = o /\ OwnerOf(Key(o)) = o
    BY OwnObjects
  <2> QED BY <2>1, StepsFit, ThingMakes
<1>3. Group(o) # Key(o)
  BY DEF Group, Key
<1> HIDE DEF A, B, K
<1>4. A \o B \in Makers({Group(o)}, {o}, {o})
  <2>1. A \o B \in Makers({} \cup {Group(o)}, {o} \cup {o}, {o} \cup {})
    BY <1>1, <1>2, MakersCat
  <2> QED BY <2>1
<1>5. (A \o B) \o K \in Makers({Group(o), Key(o)}, {o}, {o})
  <2>1. (A \o B) \o K \in Makers({Group(o)} \cup {Key(o)}, {o} \cup {o}, {o} \cup {})
    BY <1>2, <1>3, <1>4, MakersCat
  <2>2. {Group(o)} \cup {Key(o)} = {Group(o), Key(o)} /\ {o} \cup {o} = {o} /\ {o} \cup {} = {o}
    OBVIOUS
  <2> QED BY <2>1, <2>2
<1> QED BY <1>5 DEF A, B, K

LEMMA RoutesMade ==
    ASSUME NEW h \in Hosts
    PROVE  [i \in 1..RouteCount[h] |-> Step(h, "post", Route(h, i))] \in Makers(Routes(h), {h}, {})
<1> DEFINE k == RouteCount[h]
           R == [i \in 1..k |-> Step(h, "post", Route(h, i))]
<1>1. k \in Nat /\ R \in Seq(JobStep)
  BY RoutesIn, NetbirdAssumption
<1>2. \A i \in 1..k : R[i] = Step(h, "post", Route(h, i))
  OBVIOUS
<1>3. \A i \in 1..k : /\ R[i].op = "post" /\ R[i].obj = Route(h, i)
                      /\ Route(h, i) \in Routes(h)
  BY <1>2 DEF Step, Routes
<1>4. Len(R) = k
  <2>1. R = [i \in 1..k |-> Step(h, "post", Route(h, i))]
    OBVIOUS
  <2> HIDE DEF R, k
  <2> QED BY <1>1, <2>1
<1>5. \A i \in 1..k : OwnerOf(Route(h, i)) = h /\ Route(h, i)[1] = "route"
  <2>1. \A i \in 1..k : i \in Nat
    BY <1>1
  <2> QED BY <2>1, OwnObjects
<1>6. \A i, j \in 1..k : Route(h, i) = Route(h, j) => i = j
  BY DEF Route
<1> HIDE DEF R, k
<1>7. R \in Makers(Routes(h), {h}, {})
  BY <1>1, <1>3, <1>4, <1>5, <1>6 DEF Makers, MadeWell, Twice, Tardy
<1> QED BY <1>7 DEF R, k

LEMMA EntrypointMakes ==
    ASSUME NEW h \in Hosts PROVE ProvisionEntrypoint(h) \in Makers(Recordable(h), {h}, {h})
<1> DEFINE A == (<<Step(h, "row", Group(h))>> \o MakeAndSave(h, Group(h))) \o MakeAndSave(h, Key(h))
           R == [i \in 1..RouteCount[h] |-> Step(h, "post", Route(h, i))]
           b == Step(h, "save", Route(h, 1))
           S == <<b>>
           P == MakeAndSave(h, Policy(h))
           X == {Group(h), Key(h)}
           Y == X \cup Routes(h)
<1>1. ProvisionEntrypoint(h) = A \o R \o S \o P
  BY DEF ProvisionEntrypoint
<1>2. h \in Owners /\ Recordable(h) = Y \cup {Policy(h)}
  BY NetbirdAssumption DEF Owners, Recordable
<1>3. X \cap Routes(h) = {} /\ Y \cap {Policy(h)} = {}
  <2>1. \A x \in Routes(h) : x[1] = "route"
    BY DEF Routes, Route
  <2>2. Group(h)[1] = "group" /\ Key(h)[1] = "key" /\ Policy(h)[1] = "policy"
    BY <1>2, OwnObjects
  <2> QED BY <2>1, <2>2
<1>4. A \in Makers(X, {h}, {h})
  BY <1>2, LeadMakes
<1>5. R \in Makers(Routes(h), {h}, {})
  BY RoutesMade
<1>6. S \in Makers({}, {h}, {})
  <2>1. b \in JobStep /\ b.op = "save" /\ OwnerOf(b.obj) = h
    BY StepsFit, OwnObjects DEF Step
  <2> HIDE DEF b
  <2> QED BY <2>1, StepMakes
<1>7. P \in Makers({Policy(h)}, {h}, {})
  <2>1. OwnerOf(Policy(h)) = h
    BY OwnObjects
  <2> QED BY <2>1, StepsFit, ThingMakes
<1> HIDE DEF A, R, S, P, X, Y
<1>8. {h} \cup {h} = {h} /\ {h} \cup {} = {h} /\ {h} \cap {} = {} /\ Y \cap {} = {} /\ Y \cup {} = Y
  OBVIOUS
<1>9. A \o R \in Makers(Y, {h}, {h})
  <2>1. A \o R \in Makers(X \cup Routes(h), {h} \cup {h}, {h} \cup {})
    BY <1>3, <1>4, <1>5, <1>8, MakersCat
  <2> QED BY <1>8, <2>1 DEF Y
<1>10. (A \o R) \o S \in Makers(Y, {h}, {h})
  <2>1. (A \o R) \o S \in Makers(Y \cup {}, {h} \cup {h}, {h} \cup {})
    BY <1>6, <1>8, <1>9, MakersCat
  <2> QED BY <1>8, <2>1
<1>11. ((A \o R) \o S) \o P \in Makers(Recordable(h), {h}, {h})
  <2>1. ((A \o R) \o S) \o P \in Makers(Y \cup {Policy(h)}, {h} \cup {h}, {h} \cup {})
    BY <1>3, <1>7, <1>8, <1>10, MakersCat
  <2> QED BY <1>2, <1>8, <2>1
<1> QED BY <1>1, <1>11

\* All that the parts of some owners make.
ThingsOf(O) == UNION {Recordable(o) : o \in O}

LEMMA OwnThings ==
    \A O, P \in SUBSET Owners : /\ O \cap P = {} => ThingsOf(O) \cap ThingsOf(P) = {}
                                /\ ThingsOf(O \cup P) = ThingsOf(O) \cup ThingsOf(P)
<1>1. \A O \in SUBSET Owners : \A x \in ThingsOf(O) : OwnerOf(x) \in O
  BY RecordedByOwner DEF ThingsOf
<1>2. \A O, P \in SUBSET Owners : ThingsOf(O \cup P) = ThingsOf(O) \cup ThingsOf(P)
  BY DEF ThingsOf
<1> QED BY <1>1, <1>2

\* An object is made at one step of the script and, but for a route, saved at
\* the next; and a row comes before all that is about its owner.
LEMMA ScriptMakes ==
    ASSUME NEW n \in 1..Len(Script), NEW m \in 1..Len(Script)
    PROVE  /\ Script[n].op = "post" /\ Script[n].obj[1] # "route" => SavedNext(Script, n)
           /\ (Twice(Script, m, n) => m = n) /\ ~Tardy(Script, m, n)
<1> DEFINE ss == [i \in 1..Len(Entrypoints) |-> ProvisionEntrypoint(Entrypoints[i])]
           F == FlattenSeq(ss)
           X == {Group(Access), Key(Access)}
           Y == X \cup {Nameservers}
<1>1. Script = (ProvisionAccess \o ProvisionDns) \o F
  BY DEF Script
<1>2. F \in Makers(ThingsOf(Hosts), Hosts, Hosts)
  <2>1. Len(Entrypoints) \in Nat /\ \A i \in 1..Len(Entrypoints) : Entrypoints[i] \in Hosts
    BY NetbirdAssumption
  <2>2. \A i \in 1..Len(Entrypoints) :
            ss[i] \in Makers(ThingsOf({Entrypoints[i]}), {Entrypoints[i]}, {Entrypoints[i]})
    <3> SUFFICES ASSUME NEW i \in 1..Len(Entrypoints)
                 PROVE  ss[i] \in Makers(ThingsOf({Entrypoints[i]}), {Entrypoints[i]}, {Entrypoints[i]})
      OBVIOUS
    <3>1. ss[i] = ProvisionEntrypoint(Entrypoints[i]) /\ Entrypoints[i] \in Hosts
      BY <2>1
    <3>2. ThingsOf({Entrypoints[i]}) = Recordable(Entrypoints[i])
      BY DEF ThingsOf
    <3> HIDE DEF ss
    <3> QED BY <3>1, <3>2, EntrypointMakes
  <2>3. ss = [i \in 1..Len(Entrypoints) |-> ss[i]]
    OBVIOUS
  <2> HIDE DEF ss
  <2>4. \A i \in 1..Len(Entrypoints) : ss[i] \in Seq(JobStep)
    BY <2>2 DEF Makers
  <2>5. ss \in Seq(Seq(JobStep)) /\ Len(ss) = Len(Entrypoints)
    <3>1. ss \in [1..Len(Entrypoints) -> Seq(JobStep)]
      BY <2>3, <2>4
    <3> QED BY <2>1, <3>1
  <2> DEFINE G == [O \in SUBSET Hosts |-> Makers(ThingsOf(O), O, O)]
  <2>6. << >> \in G[{}]
    <3>1. << >> \in Makers(ThingsOf({}), {}, {})
      BY NoMakers
    <3> HIDE DEF Makers
    <3> QED BY <3>1
  <2>7. \A i \in 1..Len(ss) : ss[i] \in G[{Entrypoints[i]}]
    <3>1. \A i \in 1..Len(ss) : {Entrypoints[i]} \in SUBSET Hosts
      BY <2>1, <2>5
    <3> QED BY <2>2, <2>5, <3>1
  <2>8. ASSUME NEW O \in SUBSET Hosts, NEW P \in SUBSET Hosts, O \cap P = {},
               NEW s \in G[O], NEW t \in G[P]
        PROVE  s \o t \in G[O \cup P]
    <3>1. s \in Makers(ThingsOf(O), O, O) /\ t \in Makers(ThingsOf(P), P, P) /\ O \cup P \in SUBSET Hosts
      OBVIOUS
    <3>2. ThingsOf(O) \cap ThingsOf(P) = {} /\ ThingsOf(O \cup P) = ThingsOf(O) \cup ThingsOf(P)
      BY <2>8, OwnThings DEF Owners
    <3>3. s \o t \in Makers(ThingsOf(O \cup P), O \cup P, O \cup P)
      BY <2>8, <3>1, <3>2, MakersCat
    <3> HIDE DEF Makers
    <3> QED BY <3>1, <3>3
  <2> HIDE DEF G
  <2>9. F \in G[Hosts]
    BY <2>5, <2>6, <2>7, <2>8, FlattenHosts
  <2> QED BY <2>9 DEF G
<1> HIDE DEF F
<1>3. ProvisionAccess \in Makers(X, {Access}, {Access})
  BY LeadMakes DEF ProvisionAccess, Owners
<1>4. ProvisionDns \in Makers({Nameservers}, {Access}, {})
  <2>1. CASE Dns
    <3>1. Step("dns", "post", Nameservers) \in JobStep /\ Step("dns", "save", Nameservers) \in JobStep
      BY StepsFit
    <3>2. OwnerOf(Nameservers) = Access
      BY OwnObjects
    <3>3. MakeAndSave("dns", Nameservers) \in Makers({Nameservers}, {Access}, {})
      BY <3>1, <3>2, ThingMakes
    <3> QED BY <2>1, <3>3 DEF ProvisionDns
  <2>2. CASE ~Dns
    BY <2>2, NoMakers DEF ProvisionDns
  <2> QED BY <2>1, <2>2
<1>5. ProvisionAccess \o ProvisionDns \in Makers(Y, {Access}, {Access})
  <2>1. X \cap {Nameservers} = {} /\ {Access} \cap {} = {}
    <3>1. Group(Access)[1] = "group" /\ Key(Access)[1] = "key" /\ Nameservers[1] = "dns"
      BY DEF Group, Key, Nameservers
    <3> QED BY <3>1
  <2>2. {Access} \cup {Access} = {Access} /\ {Access} \cup {} = {Access}
    OBVIOUS
  <2> HIDE DEF X
  <2>3. ProvisionAccess \o ProvisionDns
            \in Makers(X \cup {Nameservers}, {Access} \cup {Access}, {Access} \cup {})
    BY <1>3, <1>4, <2>1, MakersCat
  <2> QED BY <2>2, <2>3
<1>6. Script \in Makers(Y \cup ThingsOf(Hosts), {Access} \cup Hosts, {Access} \cup Hosts)
  <2>1. {Access} \cap Hosts = {}
    BY NetbirdAssumption
  <2>2. Y \cap ThingsOf(Hosts) = {}
    <3>1. Y \subseteq ThingsOf({Access})
      BY DEF ThingsOf, Recordable
    <3>2. ThingsOf({Access}) \cap ThingsOf(Hosts) = {}
      BY <2>1, OwnThings DEF Owners
    <3> QED BY <3>1, <3>2
  <2> HIDE DEF Y
  <2> QED BY <1>1, <1>2, <1>5, <2>1, <2>2, MakersCat
<1> QED BY <1>6 DEF Makers

\* A key, for one.
LEMMA ScriptKeys ==
    ASSUME NEW o \in Owners, NEW n \in 1..Len(Script), Script[n].op = "post", Script[n].obj = Key(o)
    PROVE  /\ n < Len(Script) /\ Script[n + 1].op = "save" /\ Script[n + 1].obj = Key(o)
           /\ \A m \in 1..Len(Script) : Script[m].op = "post" /\ Script[m].obj = Key(o) => m = n
<1>1. Key(o)[1] # "route"
  BY OwnObjects
<1> QED BY <1>1, ScriptMakes DEF SavedNext, Twice

-----------------------------------------------------------------------------
(* The steps a teardown has left *)

LEMMA RankOf ==
    ASSUME NEW s \in SweepStep, NEW o \in Owners
    PROVE  /\ s.op = "delete" /\ s.obj = Key(o) => Rank(s) = 1
           /\ s.obj = Peer(o) => Rank(s) = 2
           /\ s.op = "delete" /\ s.obj = Group(o) => Rank(s) = 3
           /\ s.op = "peers" => Rank(s) = 2
           /\ s.op = "row" => Rank(s) = 4
<1>1. /\ Key(o)[1] = "key" /\ Peer(o)[1] = "peer" /\ Group(o)[1] = "group"
      /\ Group(OwnerOf(s.obj))[1] = "group"
  BY OwnObjects DEF Group
<1>2. /\ s.op \in {"delete", "peers", "row"}
      /\ s.op = "row" => s.obj = Group(OwnerOf(s.obj))
  BY DEF SweepStep
<1> HIDE DEF Group, Key, Peer, OwnerOf
<1> QED BY <1>1, <1>2 DEF Rank

LEMMA TailFacts ==
    ASSUME NEW W \in Seq(SweepStep), W # << >>, NEW V, V = Tail(W)
    PROVE  /\ V \in Seq(SweepStep) /\ Head(W) \in SweepStep
           /\ \A op, x : Occurs(W, op, x) <=>
                 Occurs(V, op, x) \/ (Head(W).op = op /\ Head(W).obj = x)
           /\ \A x : About(W, x) <=> About(V, x) \/ Head(W).obj = x
           /\ Sorted(W) => Sorted(V) /\ \A n \in 1..Len(V) :
                 OwnerOf(V[n].obj) = OwnerOf(Head(W).obj) => Rank(Head(W)) <= Rank(V[n])
<1>1. Len(W) \in Nat \ {0}
  BY EmptySeq
<1>2. /\ Head(W) = W[1] /\ V \in Seq(SweepStep) /\ Len(V) = Len(W) - 1
      /\ \A i \in 1..Len(V) : V[i] = W[i + 1]
  BY <1>1, HeadTailProperties
<1>3. /\ 1 \in 1..Len(W) /\ Head(W) \in SweepStep
      /\ \A i \in 1..Len(V) : i + 1 \in 1..Len(W) /\ V[i] = W[i + 1]
      /\ \A i \in 1..Len(W) : i = 1 \/ (i - 1 \in 1..Len(V) /\ V[i - 1] = W[i])
  <2>1. 1 \in 1..Len(W)
    BY <1>1
  <2>2. ASSUME NEW i \in 1..Len(W), i # 1 PROVE i - 1 \in 1..Len(V) /\ V[i - 1] = W[i]
    <3>1. i - 1 \in 1..Len(V) /\ (i - 1) + 1 = i
      BY <1>1, <1>2, <2>2
    <3> QED BY <1>2, <3>1
  <2>3. \A i \in 1..Len(V) : i + 1 \in 1..Len(W)
    BY <1>1, <1>2
  <2>4. Head(W) \in SweepStep
    BY <1>2, <2>1, ElementOfSeq
  <2> QED BY <1>2, <2>1, <2>2, <2>3, <2>4
<1>4. ASSUME NEW op, NEW x
      PROVE  Occurs(W, op, x) <=> Occurs(V, op, x) \/ (Head(W).op = op /\ Head(W).obj = x)
  <2>1. Occurs(V, op, x) => Occurs(W, op, x)
    BY <1>3 DEF Occurs
  <2>2. Head(W).op = op /\ Head(W).obj = x => Occurs(W, op, x)
    BY <1>2, <1>3 DEF Occurs
  <2>3. ASSUME Occurs(W, op, x) PROVE Occurs(V, op, x) \/ (Head(W).op = op /\ Head(W).obj = x)
    <3>1. PICK n \in 1..Len(W) : W[n].op = op /\ W[n].obj = x
      BY <2>3 DEF Occurs
    <3>2. CASE n = 1
      BY <1>2, <3>1, <3>2
    <3>3. CASE n # 1
      BY <1>3, <3>1, <3>3 DEF Occurs
    <3> QED BY <3>2, <3>3
  <2> QED BY <2>1, <2>2, <2>3
<1>5. ASSUME NEW x PROVE About(W, x) <=> About(V, x) \/ Head(W).obj = x
  <2>1. About(V, x) \/ Head(W).obj = x => About(W, x)
    BY <1>2, <1>3 DEF About
  <2>2. ASSUME About(W, x) PROVE About(V, x) \/ Head(W).obj = x
    <3>1. PICK n \in 1..Len(W) : W[n].obj = x
      BY <2>2 DEF About
    <3>2. CASE n = 1
      BY <1>2, <3>1, <3>2
    <3>3. CASE n # 1
      BY <1>3, <3>1, <3>3 DEF About
    <3> QED BY <3>2, <3>3
  <2> QED BY <2>1, <2>2
<1>6. ASSUME Sorted(W), NEW n \in 1..Len(V), OwnerOf(V[n].obj) = OwnerOf(Head(W).obj)
      PROVE  Rank(Head(W)) <= Rank(V[n])
  <2>1. n + 1 \in 1..Len(W) /\ 1 < n + 1 /\ V[n] = W[n + 1]
    BY <1>1, <1>2, <1>3
  <2> QED BY <1>2, <1>3, <1>6, <2>1 DEF Sorted
<1>7. ASSUME Sorted(W), NEW i \in 1..Len(V), NEW j \in 1..Len(V), i < j,
             OwnerOf(V[i].obj) = OwnerOf(V[j].obj)
      PROVE  Rank(V[i]) <= Rank(V[j])
  <2>1. i + 1 \in 1..Len(W) /\ j + 1 \in 1..Len(W) /\ i + 1 < j + 1
        /\ V[i] = W[i + 1] /\ V[j] = W[j + 1]
    BY <1>1, <1>2, <1>3, <1>7
  <2> QED BY <1>7, <2>1 DEF Sorted
<1>8. Sorted(W) => Sorted(V)
  BY <1>7 DEF Sorted
<1> QED BY <1>2, <1>3, <1>4, <1>5, <1>6, <1>8

\* Once the peers of an owner are being looked for, its key is dealt with; once
\* its group is, so are the peers.
LEMMA HeadFirst ==
    ASSUME NEW W \in Seq(SweepStep), W # << >>, Sorted(W), NEW o \in Owners,
           OwnerOf(Head(W).obj) = o
    PROVE  /\ Rank(Head(W)) >= 2 => ~Occurs(W, "delete", Key(o))
           /\ Rank(Head(W)) >= 3 => ~About(W, Peer(o))
<1> DEFINE V == Tail(W)
           s == Head(W)
<1>1. /\ V \in Seq(SweepStep) /\ s \in SweepStep
      /\ \A op, x : Occurs(W, op, x) <=> Occurs(V, op, x) \/ (s.op = op /\ s.obj = x)
      /\ \A x : About(W, x) <=> About(V, x) \/ s.obj = x
      /\ \A n \in 1..Len(V) : OwnerOf(V[n].obj) = OwnerOf(s.obj) => Rank(s) <= Rank(V[n])
  BY TailFacts
<1>2. Rank(s) \in 0..4 /\ OwnerOf(Key(o)) = o /\ OwnerOf(Peer(o)) = o
  BY RankRange, OwnObjects
<1> HIDE DEF V, s
<1>3. \A n \in 1..Len(V) : V[n] \in SweepStep /\ Rank(V[n]) \in 0..4
  BY <1>1, RankRange
<1>4. ASSUME Rank(s) >= 2, Occurs(W, "delete", Key(o)) PROVE FALSE
  <2>1. CASE s.op = "delete" /\ s.obj = Key(o)
    BY <1>1, <1>4, <2>1, RankOf
  <2>2. CASE Occurs(V, "delete", Key(o))
    <3>1. PICK n \in 1..Len(V) : V[n].op = "delete" /\ V[n].obj = Key(o)
      BY <2>2 DEF Occurs
    <3>2. Rank(V[n]) = 1
      BY <1>3, <3>1, RankOf
    <3>3. Rank(s) <= Rank(V[n])
      BY <1>1, <1>2, <3>1 DEF s
    <3> QED BY <1>2, <1>4, <3>2, <3>3
  <2> QED BY <1>1, <1>4, <2>1, <2>2
<1>5. ASSUME Rank(s) >= 3, About(W, Peer(o)) PROVE FALSE
  <2>1. CASE s.obj = Peer(o)
    BY <1>1, <1>5, <2>1, RankOf
  <2>2. CASE About(V, Peer(o))
    <3>1. PICK n \in 1..Len(V) : V[n].obj = Peer(o)
      BY <2>2 DEF About
    <3>2. Rank(V[n]) = 2
      BY <1>3, <3>1, RankOf
    <3>3. Rank(s) <= Rank(V[n])
      BY <1>1, <1>2, <3>1 DEF s
    <3> QED BY <1>2, <1>5, <3>2, <3>3
  <2> QED BY <1>1, <1>5, <2>1, <2>2
<1> QED BY <1>4, <1>5 DEF s

LEMMA TailListed ==
    ASSUME NEW W \in Seq(SweepStep), W # << >>, Sorted(W), Listed(W) PROVE Listed(Tail(W))
<1> DEFINE V == Tail(W)
           s == Head(W)
<1>1. /\ \A op, x : Occurs(W, op, x) <=> Occurs(V, op, x) \/ (s.op = op /\ s.obj = x)
      /\ \A x : About(W, x) <=> About(V, x) \/ s.obj = x
      /\ s \in SweepStep
  BY TailFacts
<1> SUFFICES ASSUME NEW o \in Owners, Occurs(V, "delete", Key(o)), Occurs(V, "delete", Group(o))
             PROVE  About(V, Peer(o))
  BY DEF Listed
<1>2. Occurs(W, "delete", Key(o)) /\ About(W, Peer(o))
  BY <1>1 DEF Listed
<1>3. ASSUME s.obj = Peer(o) PROVE FALSE
  <2>1. Rank(s) >= 2 /\ OwnerOf(s.obj) = o
    BY <1>1, <1>3, RankOf, OwnObjects
  <2> QED BY <1>2, <2>1, HeadFirst
<1> HIDE DEF V, s
<1> QED BY <1>1, <1>2, <1>3

\* What becomes of a listing: the deletion of the peers it finds, then the rest.
Found(V, W, ids, p) ==
    /\ Sorted(V) /\ Listed(V)
    /\ \A x : x[1] # "peer" => /\ Occurs(V, "delete", x) <=> Occurs(W, "delete", x)
                               /\ About(V, x) <=> About(W, x)
    /\ \A x : x # p => (About(V, x) <=> About(W, x))
    /\ p \in ids => About(V, p)

LEMMA PeersFound ==
    ASSUME NEW W \in Seq(SweepStep), W # << >>, Sorted(W), Listed(W), Head(W).op = "peers",
           NEW ids, NEW p, p = Head(W).obj
    PROVE  Found(DeleteIf(ids, p) \o Tail(W), W, ids, p)
<1> DEFINE T == Tail(W)
           D == DeleteIf(ids, p)
           o == OwnerOf(p)
           V == D \o T
<1>1. /\ T \in Seq(SweepStep) /\ Head(W) \in SweepStep /\ Sorted(T) /\ Listed(T)
      /\ \A op, x : Occurs(W, op, x) <=> Occurs(T, op, x) \/ (Head(W).op = op /\ Head(W).obj = x)
      /\ \A x : About(W, x) <=> About(T, x) \/ Head(W).obj = x
      /\ \A n \in 1..Len(T) : OwnerOf(T[n].obj) = OwnerOf(Head(W).obj) => Rank(Head(W)) <= Rank(T[n])
  BY TailFacts, TailListed
<1>2. p \in Object /\ p = Peer(o) /\ o \in Owners /\ p[1] = "peer" /\ Rank(Head(W)) = 2
  <2>1. p \in Object /\ p = Peer(o)
    BY <1>1 DEF SweepStep
  <2>2. o \in Owners
    BY <2>1, ObjectOwner
  <2> QED BY <1>1, <2>1, <2>2, OwnObjects, RankOf
<1>3. /\ D \in Seq(SweepStep)
      /\ \A n \in 1..Len(D) : D[n].op = "delete" /\ D[n].obj = p /\ p \in ids /\ n = 1
      /\ p \in ids => Len(D) = 1
  <2> DEFINE d == [op |-> "delete", obj |-> p, checked |-> TRUE]
             S == <<d>>
  <2>1. CASE p \in ids
    <3>1. D = S
      BY <2>1 DEF DeleteIf, Do
    <3>2. d \in SweepStep /\ d.op = "delete" /\ d.obj = p
      BY <1>2 DEF SweepStep
    <3> HIDE DEF d
    <3>3. S \in Seq(SweepStep) /\ Len(S) = 1 /\ S[1] = d
      BY <3>2
    <3> HIDE DEF S, D
    <3> QED BY <2>1, <3>1, <3>2, <3>3
  <2>2. CASE p \notin ids
    <3>1. D = << >>
      BY <2>2 DEF DeleteIf
    <3>2. << >> \in Seq(SweepStep) /\ Len(<< >>) = 0
      BY EmptySeq
    <3> HIDE DEF D
    <3> QED BY <2>2, <3>1, <3>2
  <2> QED BY <2>1, <2>2
<1>4. V = D \o T
  OBVIOUS
<1> HIDE DEF D, T, V
<1>5. /\ V \in Seq(SweepStep) /\ Len(V) = Len(D) + Len(T) /\ Len(D) \in Nat /\ Len(T) \in Nat
      /\ \A n \in 1..Len(D) : n \in 1..Len(V) /\ V[n] = D[n]
      /\ \A n \in 1..Len(T) : Len(D) + n \in 1..Len(V) /\ V[Len(D) + n] = T[n]
      /\ \A n \in 1..Len(V) : n \notin 1..Len(D) => n - Len(D) \in 1..Len(T) /\ V[n] = T[n - Len(D)]
  <2>1. D \in Seq(SweepStep) /\ T \in Seq(SweepStep)
    BY <1>1, <1>3
  <2>2. V \in Seq(SweepStep) /\ Len(V) = Len(D) + Len(T) /\ Len(D) \in Nat /\ Len(T) \in Nat
    BY <1>4, <2>1, Places
  <2>3. \A n \in 1..Len(D) : n \in 1..Len(V) /\ V[n] = D[n]
    BY <1>4, <2>1, Places
  <2>4. \A n \in 1..Len(T) : Len(D) + n \in 1..Len(V) /\ V[Len(D) + n] = T[n]
    BY <1>4, <2>1, Places
  <2>5. \A n \in 1..Len(V) : n \notin 1..Len(D) => n - Len(D) \in 1..Len(T) /\ V[n] = T[n - Len(D)]
    BY <1>4, <2>1, Places
  <2> QED BY <2>2, <2>3, <2>4, <2>5
<1>6. /\ \A x : Occurs(V, "delete", x) <=> Occurs(T, "delete", x) \/ (x = p /\ p \in ids)
      /\ \A x : About(V, x) <=> About(T, x) \/ (x = p /\ p \in ids)
  <2>1. p \in ids => 1 \in 1..Len(D)
    <3>1. p \in ids => Len(D) = 1
      BY <1>3
    <3> QED BY <3>1, SMTT(20)
  <2>2. ASSUME NEW x
        PROVE  Occurs(V, "delete", x) <=> Occurs(T, "delete", x) \/ (x = p /\ p \in ids)
    <3>1. ASSUME Occurs(T, "delete", x) PROVE Occurs(V, "delete", x)
      <4>1. PICK n \in 1..Len(T) : T[n].op = "delete" /\ T[n].obj = x
        BY <3>1 DEF Occurs
      <4>2. Len(D) + n \in 1..Len(V) /\ V[Len(D) + n].op = "delete" /\ V[Len(D) + n].obj = x
        BY <1>5, <4>1
      <4> QED BY <4>2 DEF Occurs
    <3>2. ASSUME x = p, p \in ids PROVE Occurs(V, "delete", x)
      <4>1. 1 \in 1..Len(V) /\ V[1] = D[1] /\ D[1].op = "delete" /\ D[1].obj = x
        BY <1>3, <1>5, <2>1, <3>2
      <4> QED BY <4>1 DEF Occurs
    <3>3. ASSUME Occurs(V, "delete", x) PROVE Occurs(T, "delete", x) \/ (x = p /\ p \in ids)
      <4>1. PICK n \in 1..Len(V) : V[n].op = "delete" /\ V[n].obj = x
        BY <3>3 DEF Occurs
      <4>2. CASE n \in 1..Len(D)
        BY <1>3, <1>5, <4>1, <4>2
      <4>3. CASE n \notin 1..Len(D)
        BY <1>5, <4>1, <4>3 DEF Occurs
      <4> QED BY <4>2, <4>3
    <3> QED BY <3>1, <3>2, <3>3
  <2>3. ASSUME NEW x PROVE About(V, x) <=> About(T, x) \/ (x = p /\ p \in ids)
    <3>1. ASSUME About(T, x) PROVE About(V, x)
      <4>1. PICK n \in 1..Len(T) : T[n].obj = x
        BY <3>1 DEF About
      <4>2. Len(D) + n \in 1..Len(V) /\ V[Len(D) + n].obj = x
        BY <1>5, <4>1
      <4> QED BY <4>2 DEF About
    <3>2. ASSUME x = p, p \in ids PROVE About(V, x)
      <4>1. 1 \in 1..Len(V) /\ V[1] = D[1] /\ D[1].obj = x
        BY <1>3, <1>5, <2>1, <3>2
      <4> QED BY <4>1 DEF About
    <3>3. About(V, x) => About(T, x) \/ (x = p /\ p \in ids)
      BY <1>3, <1>5 DEF About
    <3> QED BY <3>1, <3>2, <3>3
  <2> QED BY <2>2, <2>3
<1>7. Sorted(V)
  <2>1. Sorted(D)
    BY <1>3 DEF Sorted
  <2>2. ASSUME NEW i \in 1..Len(D), NEW j \in 1..Len(T), OwnerOf(D[i].obj) = OwnerOf(T[j].obj)
        PROVE  Rank(D[i]) <= Rank(T[j])
    <3>1. D[i] \in SweepStep /\ D[i].obj = p
      BY <1>3
    <3>2. Rank(D[i]) = 2
      BY <1>2, <3>1, RankOf
    <3>3. Rank(Head(W)) <= Rank(T[j])
      BY <1>1, <2>2, <3>1
    <3> QED BY <1>2, <3>2, <3>3
  <2> QED BY <1>1, <1>3, <2>1, <2>2, SortedCat DEF V
<1>8. Listed(V)
  <2> SUFFICES ASSUME NEW q \in Owners, Occurs(V, "delete", Key(q)), Occurs(V, "delete", Group(q))
               PROVE  About(V, Peer(q))
    BY DEF Listed
  <2>1. Key(q) # p /\ Group(q) # p
    <3>1. Key(q)[1] = "key" /\ Group(q)[1] = "group"
      BY OwnObjects
    <3> QED BY <1>2, <3>1
  <2>2. Occurs(T, "delete", Key(q)) /\ Occurs(T, "delete", Group(q))
    BY <1>6, <2>1
  <2> QED BY <1>1, <1>6, <2>2 DEF Listed
<1>9. \A x : x[1] # "peer" => x # p
  BY <1>2
<1> HIDE DEF o
<1>10. /\ \A x : x[1] # "peer" => /\ Occurs(V, "delete", x) <=> Occurs(W, "delete", x)
                                  /\ About(V, x) <=> About(W, x)
       /\ \A x : x # p => (About(V, x) <=> About(W, x))
       /\ p \in ids => About(V, p)
  <2>1. \A x : Occurs(W, "delete", x) <=> Occurs(T, "delete", x)
    BY <1>1
  <2>2. \A x : About(W, x) <=> About(T, x) \/ x = p
    BY <1>1
  <2>3. \A x : x # p => (About(V, x) <=> About(W, x))
    BY <1>6, <2>2
  <2>4. \A x : x # p => (Occurs(V, "delete", x) <=> Occurs(W, "delete", x))
    BY <1>6, <2>1
  <2>5. p \in ids => About(V, p)
    BY <1>6
  <2> QED BY <1>9, <2>3, <2>4, <2>5
<1>11. Found(V, W, ids, p)
  BY <1>7, <1>8, <1>10 DEF Found
<1> QED BY <1>11 DEF V, D, T

-----------------------------------------------------------------------------
(* Every step keeps what the absence of strangers needs *)

LEMMA ToldStep == ASSUME TypeInv, Told, Next PROVE Told'
<1> USE DEF Told, Ended
<1>1. CASE JobStart
  BY <1>1 DEF JobStart, sweepVars
<1>2. CASE GetOrCreateRow
  BY <1>2 DEF GetOrCreateRow, sweepVars
<1>3. CASE Create
  BY <1>3 DEF Create, sweepVars
<1>4. CASE Save
  BY <1>4 DEF Save, sweepVars
<1>5. CASE EndGuard
  BY <1>5 DEF EndGuard, sweepVars
<1>6. CASE JobCrash
  BY <1>6 DEF JobCrash, TypeInv, PlainOK
<1>7. CASE UserStage
  BY <1>7 DEF UserStage, sweepVars, provVars
<1>8. CASE \E o \in Owners : Register(o)
  BY <1>8 DEF Register, sweepVars, provVars
<1>9. CASE TeardownStart
  BY <1>9 DEF TeardownStart, provVars
<1>10. CASE GiveUp
  BY <1>10 DEF GiveUp, provVars
<1>11. CASE Delete
  BY <1>11 DEF Delete, provVars
<1>12. CASE ListPeers
  BY <1>12 DEF ListPeers, provVars
<1>13. CASE DeleteRow
  BY <1>13 DEF DeleteRow, provVars
<1>14. CASE DeleteSandbox
  BY <1>14 DEF DeleteSandbox, provVars
<1>15. CASE GuardEnd
  BY <1>15 DEF GuardEnd
<1>16. CASE TeardownCrash
  BY <1>16 DEF TeardownCrash, provVars
<1> QED BY <1>1, <1>2, <1>3, <1>4, <1>5, <1>6, <1>7, <1>8, <1>9, <1>10, <1>11, <1>12, <1>13,
           <1>14, <1>15, <1>16 DEF Next, Provision, Teardown

\* The steps left stay in order, and a group is not deleted before its peers
\* are looked for.
LEMMA SweepEmpty == Sorted(<< >>) /\ Listed(<< >>) /\ \A x : ~About(<< >>, x)
<1>1. \A n \in 1..Len(<< >>) : FALSE
  OBVIOUS
<1> QED BY <1>1 DEF Sorted, Listed, About, Occurs

LEMMA WorkSeq == ASSUME TypeInv PROVE work \in Seq(SweepStep)
BY DEF TypeInv, OverrunInv, Smooth

LEMMA TidyStep ==
    ASSUME TypeInv, Sorted(work), Listed(work), Next PROVE Sorted(work') /\ Listed(work')
<1>1. work \in Seq(SweepStep) /\ Copies(rows) /\ Copies(held)
  BY WorkSeq DEF TypeInv
<1>2. CASE work' = work
  BY <1>2
<1>3. CASE work' = << >>
  BY <1>3, SweepEmpty
<1>4. ASSUME work # << >>, work' = Tail(work) PROVE Sorted(work') /\ Listed(work')
  BY <1>1, <1>4, TailFacts, TailListed
<1>5. ASSUME NEW copies, Copies(copies), work' = Sweep(copies) PROVE Sorted(work') /\ Listed(work')
  <2> DEFINE W == Sweep(copies)
  <2>1. /\ Sorted(W)
        /\ \A o \in Owners : Occurs(W, "delete", Group(o)) => About(W, Peer(o))
    BY <1>5, SweepOrdered
  <2> QED BY <1>5, <2>1 DEF Listed
<1>6. CASE ListPeers
  <2>1. /\ work # << >> /\ Head(work).op = "peers"
        /\ \/ work' = DeleteIf(cloud, Head(work).obj) \o Tail(work)
           \/ work' = Tail(work)
    BY <1>6 DEF ListPeers, Due, Next1
  <2>2. CASE work' = DeleteIf(cloud, Head(work).obj) \o Tail(work)
    <3>1. Found(DeleteIf(cloud, Head(work).obj) \o Tail(work), work, cloud, Head(work).obj)
      BY <1>1, <2>1, PeersFound
    <3> QED BY <2>2, <3>1 DEF Found
  <2> QED BY <1>4, <2>1, <2>2
<1>7. CASE Provision \/ JobCrash \/ UserStage \/ \E o \in Owners : Register(o)
  <2>1. work' = work \/ work' = << >> \/ work' = Sweep(held)
    BY <1>7 DEF Provision, JobStart, GetOrCreateRow, Create, Save, EndGuard, JobCrash, UserStage,
                Register, sweepVars
  <2> QED BY <1>1, <1>2, <1>3, <1>5, <2>1
<1>8. CASE TeardownStart \/ TeardownCrash
  <2>1. work' = << >> \/ work' = Sweep(rows)
    BY <1>8 DEF TeardownStart, TeardownCrash
  <2> QED BY <1>1, <1>3, <1>5, <2>1
<1>9. CASE GiveUp \/ DeleteSandbox \/ GuardEnd
  <2>1. work' = work \/ work' = << >>
    BY <1>9 DEF GiveUp, DeleteSandbox, GuardEnd
  <2> QED BY <1>2, <1>3, <2>1
<1>10. CASE Delete \/ DeleteRow
  <2>1. work # << >> /\ work' = Tail(work)
    BY <1>10 DEF Delete, DeleteRow, Due
  <2> QED BY <1>4, <2>1
<1> QED BY <1>6, <1>7, <1>8, <1>9, <1>10 DEF Next, Teardown

\* A step that raises leaves no copy that was not there.
LEMMA RaiseHeld ==
    ASSUME TypeInv, Working, NEW lost, Raise(lost)
    PROVE  /\ \A o \in Owners : held'[o] = held[o] \/ held'[o] = rows[o]
           /\ excused \subseteq excused' /\ lost \subseteq excused' /\ at < at' /\ made' = {}
<1>1. held = [o \in Owners |-> held[o]] /\ at \in 1..Len(Script)
  BY NowFacts DEF TypeInv, Copies
<1>2. at < at' /\ made' = {} /\ excused \subseteq excused' /\ lost \subseteq excused'
  BY <1>1, AfterFailureFacts DEF Raise
<1>3. held' = held \/ held' = [held EXCEPT ![Now.part] = rows[Now.part]]
  BY DEF Raise
<1> QED BY <1>1, <1>2, <1>3

\* Nothing of what waits to be saved is a key.
LEMMA MadeNoKey == ASSUME TypeInv, NEW o \in Owners PROVE Key(o) \notin made
<1>1. made = {} \/ made \subseteq Routes(Now.part)
  BY DEF TypeInv, JobOK
<1>2. Key(o) \notin Routes(Now.part)
  BY DEF Routes, Route, Key
<1> QED BY <1>1, <1>2

\* Only the creation of a key adds its name.
LEMMA PostedOnly ==
    ASSUME TypeInv, TypeInv', Next, NEW o \in Owners, Posted(o)'
    PROVE  Posted(o) \/ (Create /\ Working /\ Now.op = "post" /\ Now.obj = Key(o)
                         /\ at' = at + 1 /\ job' = job)
<1> DEFINE k == Key(o)
           In(copies) == copies[o] # NoRow /\ k \in copies[o]
<1>1. Posted(o) <=> k \in known \/ In(rows) \/ In(held)
  BY NamedKey DEF TypeInv, Posted
<1>2. Posted(o)' <=> k \in known' \/ In(rows') \/ In(held')
  <2>1. Copies(rows') /\ Copies(held')
    BY DEF TypeInv
  <2>2. Posted(o)' <=> k \in known' \/ k \in Named(rows') \/ k \in Named(held')
    BY DEF Posted, Named, Copied
  <2> QED BY <2>1, <2>2, NamedKey
<1>3. k \in known' \/ In(rows') \/ In(held')
  BY <1>2
<1>4. /\ k \in Named(rows) <=> In(rows)
      /\ k \in Named(held) <=> In(held)
  BY NamedKey DEF TypeInv
<1>5. k \notin made
  BY MadeNoKey
<1>6. rows = [p \in Owners |-> rows[p]] /\ held = [p \in Owners |-> held[p]]
  BY DEF TypeInv, Copies
<1>7. ASSUME Forget PROVE held'[o] = NoRow
  BY <1>7 DEF Forget
<1> HIDE DEF k
<1>8. CASE UNCHANGED <<known, rows, held>>
  BY <1>1, <1>3, <1>8
<1>9. CASE GetOrCreateRow
  <2>1. Working /\ known' = known
    BY <1>9 DEF GetOrCreateRow, sweepVars
  <2> DEFINE q == OwnerOf(Now.obj)
  <2>2. CASE rows' = [rows EXCEPT ![q] = IF @ = NoRow THEN {} ELSE @] /\ held' = [held EXCEPT ![q] = rows'[q]]
    <3> HIDE DEF q
    <3>1. rows'[o] = rows[o] \/ rows'[o] = {}
      BY <1>6, <2>2
    <3>2. held'[o] = held[o] \/ held'[o] = rows'[o]
      BY <1>6, <2>2
    <3> QED BY <1>1, <1>3, <2>1, <3>1, <3>2
  <2>3. CASE Raise({}) /\ rows' = rows
    <3>1. held'[o] = held[o] \/ held'[o] = rows[o]
      BY <2>1, <2>3, RaiseHeld
    <3> QED BY <1>1, <1>3, <2>1, <2>3, <3>1
  <2> QED BY <1>9, <2>2, <2>3 DEF GetOrCreateRow
<1>10. CASE Create
  <2>1. Working /\ Now.op = "post" /\ job' = job /\ known' = known /\ rows' = rows
    BY <1>10 DEF Create, sweepVars
  <2> DEFINE x == Now.obj
             q == OwnerOf(x)
  <2>2. CASE \E lost : Raise(lost)
    <3>1. held'[o] = held[o] \/ held'[o] = rows[o]
      BY <2>1, <2>2, RaiseHeld
    <3> QED BY <1>1, <1>3, <2>1, <3>1
  <2>3. CASE at' = at + 1 /\ (held' = held \/ held' = [held EXCEPT ![q] = @ \cup {x}])
    <3>1. CASE x = k
      BY <1>10, <2>1, <2>3, <3>1 DEF k
    <3>2. CASE x # k
      <4>1. held[q] # NoRow
        BY <2>1, NowFacts
      <4> HIDE DEF x, q
      <4>2. held'[o] = held[o] \/ (o = q /\ held'[o] = held[o] \cup {x})
        BY <1>6, <2>3
      <4>3. In(held') => In(held)
        BY <3>2, <4>1, <4>2
      <4> QED BY <1>1, <1>3, <2>1, <4>3
    <3> QED BY <3>1, <3>2
  <2> QED BY <1>10, <2>2, <2>3 DEF Create
<1>11. CASE Save
  <2>1. Working /\ Now.op = "save" /\ known' = known
    BY <1>11 DEF Save, sweepVars
  <2> DEFINE q == OwnerOf(Now.obj)
             ids == held[q] \cup made
  <2>2. CASE rows' = [rows EXCEPT ![q] = ids] /\ held' = [held EXCEPT ![q] = ids]
    <3>1. held[q] # NoRow
      BY <2>1, NowFacts
    <3>2. k \in ids => k \in held[q]
      BY <1>5 DEF k
    <3> HIDE DEF q, ids
    <3>3. rows'[o] = rows[o] \/ (o = q /\ rows'[o] = ids)
      BY <1>6, <2>2
    <3>4. held'[o] = held[o] \/ (o = q /\ held'[o] = ids)
      BY <1>6, <2>2
    <3>5. In(rows') \/ In(held') => In(rows) \/ In(held)
      BY <3>1, <3>2, <3>3, <3>4
    <3> QED BY <1>1, <1>3, <2>1, <3>5
  <2>3. CASE Raise({}) /\ rows' = rows
    <3>1. held'[o] = held[o] \/ held'[o] = rows[o]
      BY <2>1, <2>3, RaiseHeld
    <3> QED BY <1>1, <1>3, <2>1, <2>3, <3>1
  <2> QED BY <1>11, <2>2, <2>3 DEF Save
<1>12. CASE EndGuard \/ JobCrash
  <2>1. /\ rows' = rows /\ (Forget \/ held' = held)
        /\ known' = known \/ known' = Named(held)
    BY <1>12 DEF EndGuard, JobCrash, sweepVars
  <2> QED BY <1>1, <1>3, <1>4, <1>7, <2>1
<1>13. CASE TeardownStart
  <2>1. /\ rows' = rows /\ held' = held
        /\ known' = {} \/ known' = Named(rows)
    BY <1>13 DEF TeardownStart, provVars
  <2> QED BY <1>1, <1>3, <1>4, <2>1
<1>14. CASE DeleteRow \/ DeleteSandbox
  <2>1. /\ known' = known /\ held' = held
        /\ \/ rows' = [rows EXCEPT ![OwnerOf(Next1.obj)] = NoRow]
           \/ rows' = [p \in Owners |-> NoRow]
    BY <1>14 DEF DeleteRow, DeleteSandbox, provVars
  <2>2. rows'[o] = rows[o] \/ rows'[o] = NoRow
    BY <1>6, <2>1
  <2> QED BY <1>1, <1>3, <2>1, <2>2
<1>15. CASE GuardEnd
  <2>1. rows' = rows /\ known' = known /\ Forget
    BY <1>15 DEF GuardEnd
  <2> QED BY <1>1, <1>3, <1>7, <2>1
<1>16. CASE JobStart \/ UserStage \/ (\E p \in Owners : Register(p)) \/ TeardownCrash
            \/ GiveUp \/ Delete \/ ListPeers
  BY <1>8, <1>16 DEF JobStart, UserStage, Register, TeardownCrash, GiveUp, Delete, ListPeers,
                     provVars, sweepVars
<1> QED BY <1>9, <1>10, <1>11, <1>12, <1>13, <1>14, <1>15, <1>16 DEF Next, Provision, Teardown

\* The job goes forward through its script; until it starts nothing is written.
LEMMA JobForward ==
    ASSUME TypeInv, Next
    PROVE  /\ job' = "running" => (job = "running" /\ at <= at') \/ job = "queued"
           /\ job' = "queued" => /\ job = "queued" /\ held' = held
                                 /\ \A o \in Owners : rows'[o] = rows[o] \/ rows'[o] = NoRow
<1>1. rows = [p \in Owners |-> rows[p]] /\ at \in Nat
  BY ScriptFacts DEF TypeInv, Copies, JobOK
<1>2. CASE GetOrCreateRow \/ Create \/ Save
  <2>1. /\ Working /\ job' = job
        /\ at' = at + 1 \/ \E lost : Raise(lost)
    BY <1>2 DEF GetOrCreateRow, Create, Save
  <2>2. at <= at'
    <3>1. CASE at' = at + 1
      BY <1>1, <3>1
    <3>2. CASE \E lost : Raise(lost)
      <4>1. at < at' /\ at' \in Nat
        <5>1. at < at'
          BY <2>1, <3>2, RaiseHeld
        <5>2. at \in 1..Len(Script) /\ at' = AfterFailure
          BY <2>1, <3>2, NowFacts DEF Raise
        <5> QED BY <5>1, <5>2, AfterFailureFacts
      <4> QED BY <1>1, <4>1
    <3> QED BY <2>1, <3>1, <3>2
  <2> QED BY <2>1, <2>2 DEF Working
<1>3. CASE JobStart \/ EndGuard \/ JobCrash \/ GuardEnd
  BY <1>3 DEF JobStart, EndGuard, JobCrash, GuardEnd
<1>4. CASE DeleteRow \/ DeleteSandbox
  <2>1. /\ job' = job /\ held' = held /\ at' = at
        /\ \/ rows' = [rows EXCEPT ![OwnerOf(Next1.obj)] = NoRow]
           \/ rows' = [p \in Owners |-> NoRow]
    BY <1>4 DEF DeleteRow, DeleteSandbox, provVars
  <2>2. \A o \in Owners : rows'[o] = rows[o] \/ rows'[o] = NoRow
    BY <1>1, <2>1
  <2> QED BY <1>1, <2>1, <2>2
<1>5. CASE UserStage \/ (\E p \in Owners : Register(p)) \/ TeardownStart \/ TeardownCrash
           \/ GiveUp \/ Delete \/ ListPeers
  <2>1. rows' = rows /\ held' = held /\ job' = job /\ at' = at
    BY <1>5 DEF UserStage, Register, TeardownStart, TeardownCrash, GiveUp, Delete, ListPeers, provVars
  <2>2. at <= at
    BY <1>1
  <2> QED BY <2>1, <2>2
<1> QED BY <1>2, <1>3, <1>4, <1>5 DEF Next, Provision, Teardown

LEMMA MadeOnceStep == ASSUME TypeInv, TypeInv', MadeOnce, Next PROVE MadeOnce'
<1> DEFINE Makes(o, n) == Script[n].op = "post" /\ Script[n].obj = Key(o)
<1>1. ASSUME job' = "queued", NEW o \in Owners
      PROVE  rows'[o] = NoRow /\ held'[o] = NoRow /\ ~Posted(o)'
  <2>1. job = "queued" /\ held' = held /\ (rows'[o] = rows[o] \/ rows'[o] = NoRow)
    BY <1>1, JobForward
  <2>2. rows[o] = NoRow /\ held[o] = NoRow /\ ~Posted(o)
    BY <2>1 DEF MadeOnce
  <2>3. ~Posted(o)'
    BY <2>1, <2>2, PostedOnly DEF Working
  <2> QED BY <2>1, <2>2, <2>3
<1>2. ASSUME job' = "running", NEW o \in Owners, Posted(o)', NEW n \in at'..Len(Script)
      PROVE  ~Makes(o, n)
  <2>1. at \in 1..Len(Script) + 1 /\ at' \in 1..Len(Script) + 1 /\ Len(Script) \in Nat
    BY ScriptFacts DEF TypeInv, JobOK
  <2>2. CASE Posted(o)
    <3>1. job = "running" /\ at <= at'
      <4>1. job # "queued"
        BY <2>2 DEF MadeOnce
      <4> QED BY <1>2, <4>1, JobForward
    <3>2. n \in at..Len(Script)
      BY <2>1, <3>1
    <3> QED BY <2>2, <3>1, <3>2 DEF MadeOnce
  <2>3. CASE ~Posted(o)
    <3>1. Working /\ Now.op = "post" /\ Now.obj = Key(o) /\ at' = at + 1
      BY <1>2, <2>3, PostedOnly
    <3>2. at \in 1..Len(Script) /\ Makes(o, at)
      BY <2>1, <3>1 DEF Working, Now
    <3>3. n \in 1..Len(Script) /\ n # at
      BY <2>1, <3>1
    <3> QED BY <3>2, <3>3, ScriptKeys
  <2> QED BY <2>2, <2>3
<1> QED BY <1>1, <1>2 DEF MadeOnce

\* What a teardown has done, and what it means for keys and peers.
Clean == Done /\ NoLooseKey /\ NoPeerSlipsIn

\* Only groups are named in payloads: keys and peers are never in use.
LEMMA NoUsers ==
    ASSUME NEW o \in Owners PROVE Users(Key(o)) = {} /\ Users(Peer(o)) = {}
<1>1. \A x : \A g \in Refs(x) : g[1] = "group"
  <2> SUFFICES ASSUME NEW x, NEW g \in Refs(x) PROVE g[1] = "group"
    OBVIOUS
  <2>1. \A p : Group(p)[1] = "group"
    BY DEF Group
  <2> HIDE DEF Group
  <2> QED BY <2>1 DEF Refs
<1>2. Key(o)[1] = "key" /\ Peer(o)[1] = "peer"
  BY OwnObjects
<1> HIDE DEF Refs, Key, Peer
<1> QED BY <1>1, <1>2 DEF Users

\* More excuses do no harm, nor does a teardown that ends.
LEMMA CleanQuiet ==
    ASSUME Clean, cloud' = cloud, excused \subseteq excused',
           \/ work' = << >>
           \/ work' = work /\ known' = known /\ (overlap => overlap')
    PROVE  Clean'
<1>1. \A o \in Owners : Excuse(o) => Excuse(o)'
  BY DEF Excuse
<1>2. NoLooseKey' /\ NoPeerSlipsIn'
  BY <1>1 DEF Clean, NoLooseKey, NoPeerSlipsIn, Excuse
<1>3. CASE work' = << >>
  <2>1. \A o \in Owners : ~About(work', Group(o)) /\ ~Occurs(work', "delete", Group(o))
    BY <1>3, SweepEmpty DEF Occurs, About
  <2>2. Done'
    BY <2>1 DEF Done
  <2> QED BY <1>2, <2>2 DEF Clean
<1>4. CASE work' = work /\ known' = known /\ (overlap => overlap')
  <2>1. ASSUME NEW o \in Owners PROVE (KeyGone(o) => KeyGone(o)') /\ (PeerGone(o) => PeerGone(o)')
    BY <1>1, <1>4 DEF KeyGone, PeerGone, Missed
  <2>2. Done'
    BY <1>4, <2>1 DEF Clean, Done
  <2> QED BY <1>2, <2>2 DEF Clean
<1> QED BY <1>3, <1>4

\* A teardown that begins deletes the keys its copies name.
LEMMA CleanStart ==
    ASSUME Clean, cloud' = cloud, excused \subseteq excused', NEW copies, Copies(copies),
           work' = Sweep(copies), known' = Named(copies),
           \A o \in Owners : Key(o) \in cloud /\ Key(o) \notin Named(copies) => Excuse(o) \/ overlap'
    PROVE  Clean'
<1>1. \A o \in Owners : Excuse(o) => Excuse(o)'
  BY DEF Excuse
<1>2. NoLooseKey' /\ NoPeerSlipsIn'
  BY <1>1 DEF Clean, NoLooseKey, NoPeerSlipsIn, Excuse
<1> DEFINE W == Sweep(copies)
<1>3. /\ \A o \in Owners : Occurs(W, "delete", Group(o)) => About(W, Peer(o))
      /\ \A o \in Owners : Key(o) \in Named(copies) => Occurs(W, "delete", Key(o))
  BY SweepOrdered
<1> HIDE DEF W
<1>4. ASSUME NEW o \in Owners, ~Occurs(W, "delete", Key(o)) PROVE KeyGone(o)'
  BY <1>1, <1>3, <1>4 DEF KeyGone, Missed
<1>5. Done'
  BY <1>3, <1>4 DEF Done, W
<1> QED BY <1>2, <1>5 DEF Clean

\* The job makes what is no key, or a key the teardown at work never saw.
LEMMA CleanCreate == ASSUME TypeInv, Told, MadeOnce, Clean, Create PROVE Clean'
<1> DEFINE x == Now.obj
<1>1. /\ Working /\ Now.op = "post" /\ work' = work /\ known' = known /\ overlap' = overlap
      /\ sweeper' = sweeper
  BY DEF Create, sweepVars
<1>2. at \in 1..Len(Script) /\ x \in Recordable(OwnerOf(x)) /\ OwnerOf(x) \in Owners
  BY <1>1, NowFacts
<1>3. /\ excused \subseteq excused'
      /\ \/ cloud' = cloud
         \/ cloud' = cloud \cup {x} /\ Refs(x) \subseteq cloud
  <2>1. \A lost : Raise(lost) => excused \subseteq excused'
    BY <1>1, RaiseHeld
  <2> QED BY <2>1 DEF Create
<1>4. CASE cloud' = cloud
  BY <1>1, <1>3, <1>4, CleanQuiet
<1>5. CASE cloud' = cloud \cup {x} /\ Refs(x) \subseteq cloud
  <2>1. \A o \in Owners : Excuse(o) => Excuse(o)'
    BY <1>3 DEF Excuse
  <2>2. \A o \in Owners : x # Peer(o)
    <3> SUFFICES ASSUME NEW o \in Owners, x = Peer(o) PROVE FALSE
      OBVIOUS
    <3>1. x[1] = "peer"
      BY OwnObjects
    <3>2. /\ \A p \in Owners : Group(p)[1] = "group" /\ Key(p)[1] = "key"
          /\ \A h : Policy(h)[1] = "policy" /\ \A i : Route(h, i)[1] = "route"
          /\ Nameservers[1] = "dns"
      BY DEF Group, Key, Policy, Route, Nameservers
    <3> DEFINE q == OwnerOf(x)
    <3>3. x \in Recordable(q) /\ q \in Owners
      BY <1>2
    <3> HIDE DEF x, q, Group, Key, Policy, Route, Nameservers, Peer
    <3> QED BY <3>1, <3>2, <3>3 DEF Recordable, Routes
  <2>3. ASSUME NEW o \in Owners, Key(o) \in cloud', Key(o) \notin cloud
        PROVE  Group(o) \in cloud /\ Key(o) \notin known
    <3>1. x = Key(o)
      BY <1>5, <2>3
    <3>2. Group(o) \in cloud
      BY <1>5, <3>1, PayloadFacts
    <3>3. ~Posted(o)
      <4>1. at \in at..Len(Script) /\ job = "running"
        BY <1>1, <1>2 DEF Working
      <4>2. Script[at].op = "post" /\ Script[at].obj = Key(o)
        BY <1>1, <3>1 DEF Now
      <4> QED BY <4>1, <4>2 DEF MadeOnce
    <3> QED BY <3>2, <3>3 DEF Posted
  <2>4. work # << >> => overlap
    <3>1. job = "running"
      BY <1>1 DEF Working
    <3> QED BY <3>1 DEF TypeInv, OverrunInv, Told, Ended
  <2>5. ASSUME NEW o \in Owners PROVE Missed(o) => Missed(o)'
    BY <1>1, <1>5 DEF Missed
  <2>6. ASSUME NEW o \in Owners, About(work, Group(o)), KeyGone(o) PROVE KeyGone(o)'
    <3>1. overlap'
      <4>1. work # << >>
        BY <2>6, SweepEmpty
      <4> QED BY <1>1, <2>4, <4>1
    <3> QED BY <1>1, <2>1, <2>3, <2>5, <2>6, <3>1 DEF KeyGone, Missed
  <2>7. ASSUME NEW o \in Owners, PeerGone(o) PROVE PeerGone(o)'
    BY <1>5, <2>1, <2>2, <2>5, <2>7 DEF PeerGone
  <2>8. Done'
    BY <1>1, <2>6, <2>7 DEF Clean, Done
  <2>9. NoLooseKey'
    BY <1>5, <2>1, <2>3 DEF Clean, NoLooseKey
  <2>10. NoPeerSlipsIn'
    BY <1>3, <1>5, <2>2 DEF Clean, NoPeerSlipsIn
  <2> QED BY <2>8, <2>9, <2>10 DEF Clean
<1> QED BY <1>3, <1>4, <1>5

\* Who joins a group joins one that is there, and is seen by the teardown that
\* means to delete it.
LEMMA CleanRegister ==
    ASSUME TypeInv, Listed(work), Clean, NEW o \in Owners, Register(o) PROVE Clean'
<1>1. /\ Key(o) \in cloud /\ cloud' = cloud \cup {Peer(o)}
      /\ UNCHANGED <<work, known, overlap, excused>>
  BY DEF Register, sweepVars
<1>2. \A p \in Owners : Excuse(p)' <=> Excuse(p)
  BY <1>1 DEF Excuse
<1>3. ASSUME NEW p \in Owners
      PROVE  /\ Key(p) # Peer(o) /\ Group(p) # Peer(o)
             /\ Peer(p) = Peer(o) => p = o
  <2>1. /\ Key(p)[1] = "key" /\ Group(p)[1] = "group" /\ Peer(o)[1] = "peer"
        /\ OwnerOf(Peer(p)) = p /\ OwnerOf(Peer(o)) = o
    BY OwnObjects
  <2> HIDE DEF Key, Group, Peer, OwnerOf
  <2> QED BY <2>1
<1>4. ASSUME NEW p \in Owners PROVE (Missed(p)' <=> Missed(p)) /\ (KeyGone(p)' <=> KeyGone(p))
  BY <1>1, <1>2, <1>3 DEF Missed, KeyGone
<1>5. ASSUME NEW p \in Owners, Occurs(work, "delete", Group(p)), ~About(work, Peer(p))
      PROVE  PeerGone(p)'
  <2>1. CASE p # o
    BY <1>1, <1>2, <1>3, <1>4, <1>5, <2>1 DEF Clean, Done, PeerGone
  <2>2. CASE p = o
    <3>1. ~Occurs(work, "delete", Key(o)) /\ About(work, Group(o))
      BY <1>5, <2>2 DEF Listed, Occurs, About
    <3>2. KeyGone(o)
      BY <3>1 DEF Clean, Done
    <3>3. Excuse(o) \/ Missed(o)
      BY <1>1, <3>2 DEF KeyGone
    <3> QED BY <1>2, <1>4, <2>2, <3>3 DEF PeerGone
  <2> QED BY <2>1, <2>2
<1>6. Done'
  BY <1>1, <1>4, <1>5 DEF Clean, Done
<1>7. NoLooseKey'
  BY <1>1, <1>2, <1>3 DEF Clean, NoLooseKey
<1>8. NoPeerSlipsIn'
  <2> SUFFICES ASSUME NEW p \in Owners, Peer(p) \in cloud', Group(p) \notin cloud'
               PROVE  Excuse(p)
    BY <1>1 DEF NoPeerSlipsIn, Excuse
  <2>1. CASE p = o
    BY <1>1, <2>1 DEF Clean, NoLooseKey
  <2>2. CASE p # o
    BY <1>1, <1>3, <2>2 DEF Clean, NoPeerSlipsIn, Excuse
  <2> QED BY <2>1, <2>2
<1> QED BY <1>6, <1>7, <1>8 DEF Clean

\* A deletion deals with a key, with a peer, or with a group whose key and
\* peers were dealt with before.
LEMMA CleanDelete == ASSUME TypeInv, Sorted(work), Listed(work), Clean, Delete PROVE Clean'
<1> DEFINE x == Next1.obj
           V == Tail(work)
           q == OwnerOf(x)
<1>1. /\ work # << >> /\ Next1 = Head(work) /\ Next1.op = "delete" /\ work' = V
      /\ UNCHANGED <<known, overlap>>
      /\ \/ /\ Users(x) = {} /\ cloud' = cloud \ {x}
            /\ excused' = IF x = Group(q) /\ Key(q) \in Unseen(cloud)
                          THEN excused \cup {Peer(q)} ELSE excused
         \/ Users(x) # {} /\ cloud' = cloud /\ excused \subseteq excused'
         \/ cloud' = cloud /\ excused' = excused \cup {x}
  BY DEF Delete, Due, Next1
<1>2. /\ work \in Seq(SweepStep) /\ x \in Object /\ q \in Owners /\ Next1 \in SweepStep
      /\ \A op, y : Occurs(work, op, y) <=> Occurs(V, op, y) \/ (Next1.op = op /\ x = y)
      /\ \A y : About(work, y) <=> About(V, y) \/ x = y
  <2>1. work \in Seq(SweepStep)
    BY WorkSeq
  <2> QED BY <1>1, <2>1, TailFacts, HeadObject
<1>3. /\ Rank(Next1) >= 2 => ~Occurs(work, "delete", Key(q))
      /\ Rank(Next1) >= 3 => ~About(work, Peer(q))
  BY <1>1, <1>2, HeadFirst
<1> HIDE DEF V
<1>4. excused \subseteq excused' /\ cloud' \subseteq cloud
  BY <1>1
<1>5. \A o \in Owners : Excuse(o) => Excuse(o)'
  BY <1>4 DEF Excuse
<1>6. ASSUME NEW o \in Owners, Missed(o), x # Key(o) PROVE Missed(o)'
  <2>1. Key(o) \in cloud'
    BY <1>1, <1>6 DEF Missed
  <2> QED BY <1>1, <1>6, <2>1 DEF Missed
<1>7. ASSUME NEW o \in Owners, x = Key(o) \/ x = Peer(o)
      PROVE  x \notin cloud' \/ x \in excused'
  <2>1. Users(x) = {}
    BY <1>7, NoUsers
  <2> QED BY <1>1, <2>1
<1>8. ASSUME NEW o \in Owners, About(V, Group(o)), ~Occurs(V, "delete", Key(o)) PROVE KeyGone(o)'
  <2>1. CASE x = Key(o)
    BY <1>7, <2>1 DEF KeyGone, Excuse
  <2>2. CASE x # Key(o)
    <3>1. KeyGone(o)
      BY <1>2, <1>8, <2>2 DEF Clean, Done
    <3> QED BY <1>4, <1>5, <1>6, <2>2, <3>1 DEF KeyGone
  <2> QED BY <2>1, <2>2
<1>9. ASSUME NEW o \in Owners, Occurs(V, "delete", Group(o)), ~About(V, Peer(o)) PROVE PeerGone(o)'
  <2>1. CASE x = Peer(o)
    BY <1>7, <2>1 DEF PeerGone, Excuse
  <2>2. CASE x # Peer(o)
    <3>1. ~About(work, Peer(o)) /\ Occurs(work, "delete", Group(o))
      BY <1>2, <1>9, <2>2
    <3>2. x # Key(o)
      BY <1>1, <1>2, <3>1 DEF Listed
    <3>3. PeerGone(o)
      BY <3>1 DEF Clean, Done
    <3> QED BY <1>4, <1>5, <1>6, <3>2, <3>3 DEF PeerGone
  <2> QED BY <2>1, <2>2
<1>10. Done'
  BY <1>1, <1>8, <1>9 DEF Done
\* The group itself: whatever got past the teardown is excused.
<1>11. ASSUME NEW o \in Owners, Group(o) \in cloud, Group(o) \notin cloud'
       PROVE  /\ Key(o) \in cloud => Excuse(o)'
              /\ Peer(o) \in cloud => Excuse(o)'
  <2>1. x = Group(o) /\ q = o
    BY <1>1, <1>11, OwnObjects
  <2>2. Rank(Next1) = 3
    BY <1>1, <1>2, <2>1, RankOf
  <2>3. ~Occurs(work, "delete", Key(o)) /\ ~About(work, Peer(o))
    BY <1>3, <2>1, <2>2
  <2>4. About(work, Group(o)) /\ Occurs(work, "delete", Group(o))
    BY <1>1, <1>2, <2>1
  <2>5. KeyGone(o) /\ PeerGone(o)
    BY <2>3, <2>4 DEF Clean, Done
  <2>6. Missed(o) => Excuse(o)'
    <3>1. Missed(o) => Key(o) \in Unseen(cloud)
      BY DEF Missed, Unseen
    <3>2. cloud' # cloud
      BY <1>11
    <3>3. Missed(o) => Peer(o) \in excused'
      BY <1>1, <2>1, <3>1, <3>2
    <3> QED BY <3>3 DEF Excuse
  <2> QED BY <1>5, <2>5, <2>6 DEF KeyGone, PeerGone
<1>12. NoLooseKey'
  <2> SUFFICES ASSUME NEW o \in Owners, Key(o) \in cloud', Group(o) \notin cloud' PROVE Excuse(o)'
    BY DEF NoLooseKey
  <2>1. Key(o) \in cloud
    BY <1>4
  <2>2. CASE Group(o) \in cloud
    BY <1>11, <2>1, <2>2
  <2>3. CASE Group(o) \notin cloud
    BY <1>5, <2>1, <2>3 DEF Clean, NoLooseKey
  <2> QED BY <2>2, <2>3
<1>13. NoPeerSlipsIn'
  <2> SUFFICES ASSUME NEW o \in Owners, Peer(o) \in cloud', Group(o) \notin cloud' PROVE Excuse(o)'
    BY DEF NoPeerSlipsIn, Excuse
  <2>1. Peer(o) \in cloud
    BY <1>4
  <2>2. CASE Group(o) \in cloud
    BY <1>11, <2>1, <2>2
  <2>3. CASE Group(o) \notin cloud
    BY <1>5, <2>1, <2>3 DEF Clean, NoPeerSlipsIn, Excuse
  <2> QED BY <2>2, <2>3
<1> QED BY <1>10, <1>12, <1>13 DEF Clean

\* The peers that are there are each deleted next, or the listing failed.
LEMMA CleanListPeers == ASSUME TypeInv, Sorted(work), Listed(work), Clean, ListPeers PROVE Clean'
<1> DEFINE p == Next1.obj
           V == DeleteIf(cloud, p) \o Tail(work)
<1>1. /\ work # << >> /\ Next1 = Head(work) /\ Next1.op = "peers"
      /\ UNCHANGED <<known, overlap, cloud>>
      /\ \/ work' = V /\ excused' = excused
         \/ work' = Tail(work) /\ excused' = excused \cup {p}
  BY DEF ListPeers, Due, Next1
<1>0. PICK o \in Owners : o = OwnerOf(p)
  BY <1>1, HeadObject
<1>2. /\ work \in Seq(SweepStep) /\ o \in Owners /\ p = Peer(o)
      /\ \A op, y : Occurs(work, op, y) <=> Occurs(Tail(work), op, y) \/ (Next1.op = op /\ p = y)
      /\ \A y : About(work, y) <=> About(Tail(work), y) \/ p = y
  <2>1. work \in Seq(SweepStep)
    BY WorkSeq
  <2>2. Next1 \in SweepStep
    BY <1>1, <2>1, TailFacts
  <2>3. p = Peer(o)
    BY <1>0, <1>1, <2>2 DEF SweepStep
  <2>4. /\ \A op, y : Occurs(work, op, y) <=>
              Occurs(Tail(work), op, y) \/ (Head(work).op = op /\ Head(work).obj = y)
        /\ \A y : About(work, y) <=> About(Tail(work), y) \/ Head(work).obj = y
    BY <1>1, <2>1, TailFacts
  <2> QED BY <1>0, <1>1, <2>1, <2>3, <2>4
<1>3. Found(V, work, cloud, p)
  BY <1>1, <1>2, PeersFound
<1> HIDE DEF V, p
<1>4. excused \subseteq excused' /\ \A q \in Owners : Excuse(q) => Excuse(q)'
  BY <1>1 DEF Excuse
<1>5. ASSUME NEW q \in Owners
      PROVE  (KeyGone(q) => KeyGone(q)') /\ (PeerGone(q) => PeerGone(q)')
  BY <1>1, <1>4 DEF KeyGone, PeerGone, Missed
<1>6. ASSUME NEW q \in Owners
      PROVE  /\ Group(q)[1] # "peer" /\ Key(q)[1] # "peer" /\ Group(q) # p /\ Key(q) # p
             /\ Peer(q) = p => q = o
  <2>1. Group(q)[1] = "group" /\ Key(q)[1] = "key" /\ p[1] = "peer"
        /\ OwnerOf(Peer(q)) = q /\ OwnerOf(p) = o
    BY <1>0, <1>2, OwnObjects
  <2> QED BY <2>1
<1>7. ASSUME NEW q \in Owners
      PROVE  /\ About(work', Group(q)) <=> About(work, Group(q))
             /\ Occurs(work', "delete", Key(q)) <=> Occurs(work, "delete", Key(q))
             /\ Occurs(work', "delete", Group(q)) <=> Occurs(work, "delete", Group(q))
             /\ q # o => (About(work', Peer(q)) <=> About(work, Peer(q)))
  BY <1>1, <1>2, <1>3, <1>6 DEF Found
<1>8. About(work', Peer(o)) \/ PeerGone(o)'
  <2>1. CASE work' = V /\ excused' = excused
    <3>1. p \in cloud => About(V, p)
      BY <1>3 DEF Found
    <3> QED BY <1>1, <1>2, <2>1, <3>1 DEF PeerGone
  <2>2. CASE work' = Tail(work) /\ excused' = excused \cup {p}
    BY <1>2, <2>2 DEF PeerGone, Excuse
  <2> QED BY <1>1, <2>1, <2>2
<1>9. ASSUME NEW q \in Owners, Occurs(work', "delete", Group(q)), ~About(work', Peer(q))
      PROVE  PeerGone(q)'
  <2>1. CASE q = o
    BY <1>8, <1>9, <2>1
  <2>2. CASE q # o
    BY <1>5, <1>7, <1>9, <2>2 DEF Clean, Done
  <2> QED BY <2>1, <2>2
<1>10. ASSUME NEW q \in Owners, About(work', Group(q)), ~Occurs(work', "delete", Key(q))
       PROVE  KeyGone(q)'
  BY <1>5, <1>7, <1>10 DEF Clean, Done
<1>11. Done'
  BY <1>9, <1>10 DEF Done
<1>12. NoLooseKey' /\ NoPeerSlipsIn'
  BY <1>1, <1>4 DEF Clean, NoLooseKey, NoPeerSlipsIn, Excuse
<1> QED BY <1>11, <1>12 DEF Clean

\* A row goes after all that it names: with no overlap its key is gone.
LEMMA CleanDeleteRow ==
    ASSUME TypeInv, Sorted(work), Clean, DeleteRow
    PROVE  Clean' /\ KeyGone(OwnerOf(Next1.obj))
<1> DEFINE x == Next1.obj
           o == OwnerOf(x)
           V == Tail(work)
<1>1. /\ work # << >> /\ Next1 = Head(work) /\ Next1.op = "row" /\ work' = V
      /\ UNCHANGED <<known, overlap, cloud>> /\ excused \subseteq excused'
  BY DEF DeleteRow, Due, Next1
<1>2. /\ work \in Seq(SweepStep) /\ o \in Owners /\ x = Group(o) /\ Rank(Next1) = 4
      /\ \A op, y : Occurs(work, op, y) <=> Occurs(V, op, y) \/ (Next1.op = op /\ x = y)
      /\ \A y : About(work, y) <=> About(V, y) \/ x = y
  <2>1. work \in Seq(SweepStep)
    BY WorkSeq
  <2>2. o \in Owners /\ Next1 \in SweepStep
    BY <1>1, <2>1, HeadObject, TailFacts
  <2>3. x = Group(o)
    BY <1>1, <2>2 DEF SweepStep
  <2>4. Rank(Next1) = 4
    BY <1>1, <2>2, RankOf
  <2> QED BY <1>1, <2>1, <2>2, <2>3, <2>4, TailFacts
<1>3. ~Occurs(work, "delete", Key(o)) /\ About(work, Group(o))
  BY <1>1, <1>2, HeadFirst
<1>4. KeyGone(o)
  BY <1>2, <1>3 DEF Clean, Done
<1> HIDE DEF V
<1>5. \A q \in Owners : Excuse(q) => Excuse(q)'
  BY <1>1 DEF Excuse
<1>6. ASSUME NEW q \in Owners
      PROVE  (KeyGone(q) => KeyGone(q)') /\ (PeerGone(q) => PeerGone(q)')
  BY <1>1, <1>5 DEF KeyGone, PeerGone, Missed
<1>7. ASSUME NEW q \in Owners
      PROVE  /\ About(work', Group(q)) => About(work, Group(q))
             /\ Occurs(work, "delete", Key(q)) => Occurs(work', "delete", Key(q))
             /\ Occurs(work', "delete", Group(q)) => Occurs(work, "delete", Group(q))
             /\ About(work, Peer(q)) => About(work', Peer(q))
  <2>1. x # Peer(q)
    BY <1>2, OwnObjects
  <2> QED BY <1>1, <1>2, <2>1
<1>8. Done'
  BY <1>6, <1>7 DEF Clean, Done
<1>9. NoLooseKey' /\ NoPeerSlipsIn'
  BY <1>1, <1>5 DEF Clean, NoLooseKey, NoPeerSlipsIn, Excuse
<1> QED BY <1>4, <1>8, <1>9 DEF Clean

\* A key of which there is a record, or is about to be one.
Safe(o) == Key(o) \in cloud =>
    \/ Excuse(o) \/ Key(o) \in Named(rows)
    \/ Working /\ Now.op = "save" /\ Now.obj = Key(o) /\ Key(o) \in held[o]

LEMMA KeptIs ==
    Kept <=> (~overlap /\ sandbox => (job = "running" => CopiesCover) /\ \A o \in Owners : Safe(o))
BY DEF Kept, Safe

\* Steps that change neither the rows nor what the job has in memory.
LEMMA SafeQuiet ==
    ASSUME NEW o, Safe(o), cloud' \subseteq cloud \cup {Peer(p) : p \in Owners}, o \in Owners,
           excused \subseteq excused', UNCHANGED <<rows, held, at, job>>
    PROVE  Safe(o)'
<1>1. Key(o) \in cloud' => Key(o) \in cloud
  <2>1. \A p \in Owners : Key(o) # Peer(p)
    <3>1. Key(o)[1] = "key" /\ \A p \in Owners : Peer(p)[1] = "peer"
      BY OwnObjects
    <3> QED BY <3>1
  <2> QED BY <2>1
<1>2. Named(rows)' = Named(rows)
  BY DEF Named, Copied
<1>3. Working' = Working /\ Now' = Now
  BY DEF Working, Now
<1> QED BY <1>1, <1>2, <1>3 DEF Safe, Excuse

\* Steps that leave the cloud alone and record no less.
LEMMA SafeRecorded ==
    ASSUME NEW o \in Owners, Key(o) \in cloud => Excuse(o) \/ Key(o) \in Named(rows),
           cloud' = cloud, excused \subseteq excused',
           Key(o) \in Named(rows) => Key(o) \in Named(rows')
    PROVE  Safe(o)'
<1>1. Named(rows)' = Named(rows')
  BY DEF Named, Copied
<1> QED BY <1>1 DEF Safe, Excuse

LEMMA KeptRow == ASSUME TypeInv, TypeInv', Kept, GetOrCreateRow PROVE Kept'
<1>1. Working /\ Now.op = "row" /\ UNCHANGED <<cloud, job, overlap, sandbox>>
  BY DEF GetOrCreateRow
<1> SUFFICES ASSUME ~overlap, sandbox PROVE CopiesCover' /\ \A o \in Owners : Safe(o)'
  BY <1>1 DEF Kept, Safe
<1>2. CopiesCover /\ \A o \in Owners : Safe(o)
  BY <1>1, KeptIs DEF Working
<1>3. rows = [p \in Owners |-> rows[p]] /\ held = [p \in Owners |-> held[p]]
  BY DEF TypeInv, Copies
<1> DEFINE q == OwnerOf(Now.obj)
           ids == IF rows[q] = NoRow THEN {} ELSE rows[q]
<1>4. /\ rows' = [rows EXCEPT ![q] = ids] /\ held' = [held EXCEPT ![q] = rows'[q]]
      /\ excused' = excused /\ q \in Owners
  BY <1>1, NowFacts DEF GetOrCreateRow
<1>5. ids # NoRow /\ (rows[q] # NoRow => ids = rows[q])
  BY Recorded
<1> HIDE DEF q, ids
<1>6. /\ rows'[q] = ids /\ held'[q] = ids
      /\ \A p \in Owners : p # q => rows'[p] = rows[p] /\ held'[p] = held[p]
  BY <1>3, <1>4
<1>7. CopiesCover'
  BY <1>2, <1>5, <1>6 DEF CopiesCover
<1>8. ASSUME NEW o \in Owners PROVE Safe(o)'
  <2>1. Key(o) \in cloud => Excuse(o) \/ Key(o) \in Named(rows)
    BY <1>1, <1>2 DEF Safe
  <2>2. rows[o] # NoRow => rows'[o] = rows[o]
    BY <1>5, <1>6
  <2>3. Key(o) \in Named(rows) => Key(o) \in Named(rows')
    BY <2>2, NamedKey DEF TypeInv
  <2> QED BY <1>1, <1>4, <2>1, <2>3, SafeRecorded
<1> QED BY <1>7, <1>8

LEMMA KeptCreate == ASSUME TypeInv, TypeInv', Kept, Create PROVE Kept'
<1> DEFINE x == Now.obj
           q == OwnerOf(x)
<1>1. Working /\ Now.op = "post" /\ UNCHANGED <<rows, job, overlap, sandbox>>
  BY DEF Create
<1> SUFFICES ASSUME ~overlap, sandbox PROVE CopiesCover' /\ \A o \in Owners : Safe(o)'
  BY <1>1 DEF Kept, Safe
<1>2. CopiesCover /\ \A o \in Owners : Safe(o)
  BY <1>1, KeptIs DEF Working
<1>3. /\ held = [p \in Owners |-> held[p]] /\ q \in Owners /\ at \in 1..Len(Script)
      /\ held[q] # NoRow /\ held[q] \cup {x} # NoRow
  <2>1. /\ q \in Owners /\ at \in 1..Len(Script) /\ held[q] # NoRow /\ x \in Recordable(q)
        /\ Copies(held)
    BY <1>1, NowFacts DEF TypeInv
  <2>2. held[q] \cup {x} \subseteq Object
    BY <2>1, Recorded DEF Copies
  <2> QED BY <2>1, <2>2, Recorded DEF Copies
<1>4. ASSUME NEW o \in Owners PROVE Key(o) \in cloud => Excuse(o) \/ Key(o) \in Named(rows)
  BY <1>1, <1>2 DEF Safe
<1>5. Named(rows)' = Named(rows)
  BY <1>1 DEF Named, Copied
<1>6. CASE \E lost : Raise(lost) /\ (cloud' = cloud \/ (cloud' = cloud \cup {x} /\ x \in lost))
  <2>1. PICK lost : Raise(lost) /\ (cloud' = cloud \/ (cloud' = cloud \cup {x} /\ x \in lost))
    BY <1>6
  <2>2. /\ \A o \in Owners : held'[o] = held[o] \/ held'[o] = rows[o]
        /\ excused \subseteq excused' /\ lost \subseteq excused'
    BY <1>1, <2>1, RaiseHeld
  <2>3. CopiesCover'
    BY <1>1, <1>2, <2>2 DEF CopiesCover
  <2>4. ASSUME NEW o \in Owners PROVE Safe(o)'
    <3>1. Key(o) \in cloud' => Key(o) \in cloud \/ Key(o) \in excused'
      BY <2>1, <2>2
    <3> QED BY <1>4, <1>5, <2>2, <3>1 DEF Safe, Excuse
  <2> QED BY <2>3, <2>4
<1>7. CASE /\ cloud' = cloud \cup {x} /\ at' = at + 1 /\ excused' = excused
           /\ IF x[1] = "route" THEN held' = held ELSE held' = [held EXCEPT ![q] = @ \cup {x}]
  <2>1. /\ \A p \in Owners : held[p] # NoRow => held'[p] # NoRow /\ held[p] \subseteq held'[p]
        /\ x[1] # "route" => x \in held'[q]
    <3> DEFINE ids == held[q] \cup {x}
    <3>1. ids # NoRow /\ held[q] \subseteq ids /\ x \in ids
      BY <1>3
    <3>2. held' = held \/ held' = [held EXCEPT ![q] = ids]
      BY <1>7
    <3>3. x[1] # "route" => held' = [held EXCEPT ![q] = ids]
      BY <1>7
    <3> HIDE DEF ids, q, x
    <3> QED BY <1>3, <3>1, <3>2, <3>3
  <2>2. CopiesCover'
    BY <1>1, <1>2, <2>1 DEF CopiesCover
  <2>3. ASSUME NEW o \in Owners PROVE Safe(o)'
    <3>1. CASE x = Key(o)
      <4>1. Script[at].op = "post" /\ Script[at].obj = Key(o)
        BY <1>1, <3>1 DEF Now
      <4>2. at < Len(Script) /\ Script[at + 1].op = "save" /\ Script[at + 1].obj = Key(o)
        BY <1>3, <4>1, ScriptKeys
      <4>3. Working'
        BY <1>1, <1>3, <1>7, <4>2 DEF Working
      <4>4. (Now.op)' = "save" /\ (Now.obj)' = Key(o)
        BY <1>7, <4>2 DEF Now
      <4>5. Key(o) \in held'[o]
        BY <2>1, <3>1, OwnObjects
      <4> QED BY <4>3, <4>4, <4>5 DEF Safe
    <3>2. CASE x # Key(o)
      BY <1>4, <1>5, <1>7, <3>2 DEF Safe, Excuse
    <3> QED BY <3>1, <3>2
  <2> QED BY <2>2, <2>3
<1> QED BY <1>6, <1>7 DEF Create

LEMMA KeptSave == ASSUME TypeInv, TypeInv', Kept, Save PROVE Kept'
<1> DEFINE q == OwnerOf(Now.obj)
           ids == held[q] \cup made
<1>1. Working /\ Now.op = "save" /\ UNCHANGED <<cloud, job, overlap, sandbox>>
  BY DEF Save
<1> SUFFICES ASSUME ~overlap, sandbox PROVE CopiesCover' /\ \A o \in Owners : Safe(o)'
  BY <1>1 DEF Kept, Safe
<1>2. CopiesCover /\ \A o \in Owners : Safe(o)
  BY <1>1, KeptIs DEF Working
<1>3. rows = [p \in Owners |-> rows[p]] /\ held = [p \in Owners |-> held[p]]
  BY DEF TypeInv, Copies
<1>4. /\ rows' = [rows EXCEPT ![q] = ids] /\ held' = [held EXCEPT ![q] = ids]
      /\ excused' = excused /\ q \in Owners
  BY <1>1, NowFacts DEF Save
<1> HIDE DEF ids
<1>5. /\ rows'[q] = ids /\ held'[q] = ids
      /\ \A p \in Owners : p # q => rows'[p] = rows[p] /\ held'[p] = held[p]
  BY <1>3, <1>4
<1>6. ids # NoRow /\ held[q] \subseteq ids
  <2>1. made \subseteq Object
    <3>1. CASE made = {}
      BY <3>1
    <3>2. CASE made # {}
      <4>1. Now.part \in Hosts /\ made \subseteq Routes(Now.part)
        BY <3>2 DEF TypeInv, JobOK
      <4> QED BY <4>1, Recorded
    <3> QED BY <3>1, <3>2
  <2>2. held[q] # NoRow
    BY <1>1, NowFacts
  <2>3. ids \subseteq Object
    BY <1>4, <2>1, <2>2, Recorded DEF TypeInv, Copies, ids
  <2> QED BY <2>3, Recorded DEF ids
<1>7. CopiesCover'
  BY <1>2, <1>5, <1>6 DEF CopiesCover
<1>8. ASSUME NEW o \in Owners PROVE Safe(o)'
  <2>1. Key(o) \in cloud => \/ Excuse(o) \/ Key(o) \in Named(rows)
                            \/ o = q /\ Key(o) \in held[q]
    BY <1>1, <1>2, OwnObjects DEF Safe
  <2>2. Key(o) \in Named(rows) => Key(o) \in Named(rows')
    <3>1. rows[o] # NoRow => rows'[o] # NoRow /\ rows[o] \subseteq rows'[o]
      <4>1. rows[q] # NoRow => rows[q] \subseteq held[q]
        BY <1>2, <1>4 DEF CopiesCover
      <4> QED BY <1>5, <1>6, <4>1
    <3> QED BY <3>1, NamedKey DEF TypeInv
  <2>3. Key(o) \in held[q] /\ o = q => Key(o) \in Named(rows')
    BY <1>5, <1>6, NamedKey DEF TypeInv
  <2>4. Named(rows)' = Named(rows')
    BY DEF Named, Copied
  <2> QED BY <1>1, <1>4, <2>1, <2>2, <2>3, <2>4 DEF Safe, Excuse
<1> QED BY <1>7, <1>8

\* A step that leaves the rows and the job's memory alone and makes no key.
LEMMA KeptQuiet ==
    ASSUME Kept, cloud' \subseteq cloud \cup {Peer(p) : p \in Owners}, excused \subseteq excused',
           UNCHANGED <<rows, held, at, job>>, overlap => overlap', sandbox' = sandbox,
           overlap \in BOOLEAN
    PROVE  Kept'
<1> SUFFICES ASSUME ~overlap', sandbox
             PROVE  (job' = "running" => CopiesCover') /\ \A o \in Owners : Safe(o)'
  BY DEF Kept, Safe
<1>1. (job = "running" => CopiesCover) /\ \A o \in Owners : Safe(o)
  BY KeptIs
<1>2. job' = "running" => CopiesCover'
  BY <1>1 DEF CopiesCover
<1>3. \A o \in Owners : Safe(o)'
  BY <1>1, SafeQuiet
<1> QED BY <1>2, <1>3

\* The job ends or dies: a key that only its memory knew is excused, if there
\* can be one.
LEMMA KeptEnd ==
    ASSUME TypeInv, Kept, UNCHANGED <<cloud, rows, overlap, sandbox>>, excused \subseteq excused',
           job' # "running",
           Working => (cloud \cap Named(held)) \ Named(rows) \subseteq excused'
    PROVE  Kept'
<1> SUFFICES ASSUME ~overlap, sandbox PROVE \A o \in Owners : Safe(o)'
  BY DEF Kept, Safe
<1> SUFFICES ASSUME NEW o \in Owners, Key(o) \in cloud PROVE Excuse(o)' \/ Key(o) \in Named(rows)
  <2>1. Named(rows)' = Named(rows)
    BY DEF Named, Copied
  <2> QED BY <2>1 DEF Safe
<1>1. Safe(o)
  BY KeptIs
<1>2. Excuse(o) => Excuse(o)'
  BY DEF Excuse
<1>3. ASSUME Working, Now.op = "save", Now.obj = Key(o), Key(o) \in held[o],
             Key(o) \notin Named(rows)
      PROVE  Excuse(o)'
  <2>1. held[o] # NoRow
    <3>1. held[OwnerOf(Now.obj)] # NoRow
      BY <1>3, NowFacts
    <3>2. OwnerOf(Key(o)) = o
      BY OwnObjects
    <3> QED BY <1>3, <3>1, <3>2
  <2>2. Key(o) \in Named(held)
    BY <1>3, <2>1, NamedKey DEF TypeInv
  <2> QED BY <1>3, <2>2 DEF Excuse
<1> QED BY <1>1, <1>2, <1>3 DEF Safe

LEMMA KeptJobStart == ASSUME TypeInv, MadeOnce, Kept, JobStart PROVE Kept'
<1>1. /\ job = "queued" /\ UNCHANGED <<cloud, rows, held, at, overlap, sandbox, excused>>
  BY DEF JobStart
<1> SUFFICES ASSUME ~overlap, sandbox
             PROVE  CopiesCover' /\ \A o \in Owners : Safe(o)'
  BY <1>1 DEF Kept, Safe
<1>2. CopiesCover'
  BY <1>1 DEF MadeOnce, CopiesCover
<1>3. ASSUME NEW o \in Owners PROVE Safe(o)'
  <2>1. ~Working
    BY <1>1 DEF Working
  <2>2. Key(o) \in cloud => Excuse(o) \/ Key(o) \in Named(rows)
    BY <2>1, KeptIs DEF Safe
  <2> QED BY <1>1, <2>2, SafeRecorded
<1> QED BY <1>2, <1>3

\* A teardown that no job overlaps deletes the row of a key that is gone.
LEMMA KeptDeleteRow ==
    ASSUME TypeInv, TypeInv', Sorted(work), Clean, Kept, DeleteRow PROVE Kept'
<1>0. PICK q \in Owners : q = OwnerOf(Next1.obj)
  <2>1. work # << >> /\ Next1 = Head(work)
    BY DEF DeleteRow, Due, Next1
  <2> QED BY <2>1, HeadObject
<1>1. /\ UNCHANGED <<cloud, held, at, job, overlap, sandbox>> /\ excused \subseteq excused'
      /\ rows' = [rows EXCEPT ![q] = NoRow]
  BY <1>0 DEF DeleteRow, provVars
<1>2. KeyGone(q)
  BY <1>0, CleanDeleteRow
<1> SUFFICES ASSUME ~overlap, sandbox
             PROVE  (job = "running" => CopiesCover') /\ \A o \in Owners : Safe(o)'
  BY <1>1 DEF Kept, Safe
<1>3. (job = "running" => CopiesCover) /\ \A o \in Owners : Safe(o)
  BY KeptIs
<1>4. /\ rows'[q] = NoRow
      /\ \A p \in Owners : p # q => rows'[p] = rows[p]
  BY <1>1 DEF TypeInv, Copies
<1>5. job = "running" => CopiesCover'
  BY <1>1, <1>3, <1>4 DEF CopiesCover
<1>6. ASSUME NEW o \in Owners PROVE Safe(o)'
  <2>1. Excuse(o) => Excuse(o)'
    BY <1>1 DEF Excuse
  <2>2. Working' = Working /\ Now' = Now
    BY <1>1 DEF Working, Now
  <2>3. Named(rows)' = Named(rows')
    BY DEF Named, Copied
  <2>4. CASE o = q
    BY <1>1, <1>2, <2>1, <2>4 DEF KeyGone, Missed, Safe
  <2>5. CASE o # q
    <3>1. Key(o) \in Named(rows) => Key(o) \in Named(rows')
      BY <1>4, <2>5, NamedKey DEF TypeInv
    <3> QED BY <1>1, <1>3, <2>1, <2>2, <2>3, <3>1 DEF Safe
  <2> QED BY <2>4, <2>5
<1> QED BY <1>5, <1>6

LEMMA KeptStep ==
    ASSUME TypeInv, TypeInv', Sorted(work), Told, MadeOnce, Clean, Kept, Next PROVE Kept'
<1>1. overlap \in BOOLEAN
  BY DEF TypeInv, PlainOK
<1>2. CASE EndGuard
  <2>1. ~Working
    BY <1>2, ScriptFacts DEF EndGuard, Working, TypeInv, JobOK
  <2>2. /\ UNCHANGED <<cloud, rows, overlap, sandbox>> /\ excused \subseteq excused'
        /\ job' # "running"
    BY <1>2 DEF EndGuard
  <2> QED BY <2>1, <2>2, KeptEnd
<1>3. CASE JobCrash
  <2>1. /\ UNCHANGED <<cloud, rows, overlap, sandbox>> /\ job' # "running"
        /\ excused' = excused \cup ((cloud \cap (Named(held) \cup made)) \ Named(rows))
    BY <1>3 DEF JobCrash
  <2>2. (cloud \cap Named(held)) \ Named(rows) \subseteq excused'
    BY <2>1
  <2> QED BY <2>1, <2>2, KeptEnd
<1>4. CASE UserStage \/ GiveUp \/ Delete \/ ListPeers \/ TeardownCrash \/ TeardownStart
           \/ \E o \in Owners : Register(o)
  <2>1. /\ cloud' \subseteq cloud \cup {Peer(p) : p \in Owners} /\ excused \subseteq excused'
        /\ UNCHANGED <<rows, held, at, job, sandbox>> /\ (overlap => overlap')
    <3>1. CASE UserStage \/ GiveUp \/ TeardownCrash
      BY <3>1 DEF UserStage, GiveUp, TeardownCrash, provVars
    <3>2. CASE TeardownStart
      BY <3>2 DEF TeardownStart, provVars
    <3>3. CASE ListPeers
      BY <3>3 DEF ListPeers, provVars
    <3>4. CASE Delete
      BY <3>4 DEF Delete, provVars
    <3>5. CASE \E o \in Owners : Register(o)
      BY <3>5 DEF Register, provVars
    <3> QED BY <1>4, <3>1, <3>2, <3>3, <3>4, <3>5
  <2> QED BY <1>1, <2>1, KeptQuiet
<1>5. CASE DeleteSandbox
  BY <1>5 DEF DeleteSandbox, Kept
<1>6. CASE GuardEnd
  <2>1. ~sandbox /\ sandbox' = sandbox
    BY <1>6 DEF GuardEnd, Told
  <2> QED BY <2>1 DEF Kept
<1> QED BY <1>2, <1>3, <1>4, <1>5, <1>6, KeptJobStart, KeptRow, KeptCreate, KeptSave, KeptDeleteRow
        DEF Next, Provision, Teardown

LEMMA CleanStep ==
    ASSUME TypeInv, Sorted(work), Listed(work), Told, MadeOnce, Clean, Kept, Next PROVE Clean'
<1>1. CASE JobStart \/ UserStage
  BY <1>1, CleanQuiet DEF JobStart, UserStage, sweepVars
<1>2. CASE GetOrCreateRow \/ Save
  <2>1. Working /\ \A lost : Raise(lost) => excused \subseteq excused'
    BY <1>2, RaiseHeld DEF GetOrCreateRow, Save
  <2>2. cloud' = cloud /\ UNCHANGED <<work, known, overlap>> /\ excused \subseteq excused'
    BY <1>2, <2>1 DEF GetOrCreateRow, Save, sweepVars
  <2> QED BY <2>2, CleanQuiet
<1>3. CASE EndGuard
  <2>1. cloud' = cloud /\ overlap' = overlap /\ excused \subseteq excused'
    BY <1>3 DEF EndGuard
  <2>2. \/ UNCHANGED <<work, known>>
        \/ ~sandbox /\ work' = Sweep(held) /\ known' = Named(held)
    BY <1>3 DEF EndGuard, sweepVars
  <2>3. ~sandbox => overlap
    BY <1>3 DEF EndGuard, Told, Ended
  <2> QED BY <2>1, <2>2, <2>3, CleanQuiet, CleanStart DEF TypeInv
<1>4. CASE JobCrash
  BY <1>4, CleanQuiet DEF JobCrash
<1>5. CASE TeardownStart
  <2>1. /\ cloud' = cloud /\ sandbox /\ overlap' = (overlap \/ ~Ended) /\ excused \subseteq excused'
        /\ work' = << >> \/ (work' = Sweep(rows) /\ known' = Named(rows))
    BY <1>5 DEF TeardownStart
  <2>2. ASSUME NEW o \in Owners, Key(o) \in cloud, Key(o) \notin Named(rows), ~overlap'
        PROVE  Excuse(o)
    <3>1. ~overlap /\ Ended
      BY <2>1, <2>2
    <3>2. ~Working
      BY <3>1 DEF Ended, Working
    <3> QED BY <2>1, <2>2, <3>1, <3>2 DEF Kept
  <2>3. \A o \in Owners : Key(o) \in cloud /\ Key(o) \notin Named(rows) => Excuse(o) \/ overlap'
    BY <2>2
  <2> QED BY <2>1, <2>3, CleanQuiet, CleanStart DEF TypeInv
<1>6. CASE GiveUp
  BY <1>6, CleanQuiet DEF GiveUp
<1>7. CASE DeleteSandbox \/ GuardEnd \/ TeardownCrash
  BY <1>7, CleanQuiet DEF DeleteSandbox, GuardEnd, TeardownCrash
<1> QED BY <1>1, <1>2, <1>3, <1>4, <1>5, <1>6, <1>7, CleanCreate, CleanRegister, CleanDelete,
           CleanListPeers, CleanDeleteRow DEF Next, Provision, Teardown

LEMMA PeerStep == TypeInv /\ TypeInv' /\ PeerInv /\ [Next]_vars => PeerInv'
<1> SUFFICES ASSUME TypeInv, TypeInv', PeerInv, [Next]_vars PROVE PeerInv'
  OBVIOUS
<1>1. CASE Next
  <2>1. Clean
    BY DEF PeerInv, Clean
  <2>2. /\ Clean' /\ Kept' /\ Told' /\ MadeOnce'
        /\ Sorted(work') /\ Listed(work')
    BY <1>1, <2>1, CleanStep, KeptStep, ToldStep, MadeOnceStep, TidyStep DEF PeerInv
  <2> QED BY <2>2 DEF PeerInv, Clean, Sorted, Listed
<1>2. CASE UNCHANGED vars
  <2>1. (Sorted(work) /\ Listed(work) /\ Told)' 
    BY <1>2 DEF vars, provVars, sweepVars, PeerInv, Sorted, Listed, About, Occurs, Told, Ended
  <2>2. Clean'
    BY <1>2, CleanQuiet DEF PeerInv, Clean, vars, sweepVars
  <2>3. Kept'
    BY <1>2, KeptQuiet DEF PeerInv, TypeInv, PlainOK, vars, provVars
  <2>4. MadeOnce'
    BY <1>2 DEF vars, provVars, sweepVars, PeerInv, MadeOnce, Posted, Named, Copied
  <2> QED BY <2>1, <2>2, <2>3, <2>4 DEF PeerInv, Clean
<1> QED BY <1>1, <1>2

LEMMA PeerInit == Init => PeerInv
<1> SUFFICES ASSUME Init PROVE PeerInv
  OBVIOUS
<1>1. /\ cloud = {} /\ known = {} /\ work = << >> /\ sweeper = "none" /\ sandbox /\ job = "queued"
      /\ \A o \in Owners : rows[o] = NoRow /\ held[o] = NoRow
  BY DEF Init
<1>2. Sorted(work) /\ Listed(work) /\ \A o \in Owners : ~About(work, Group(o))
  BY <1>1, SweepEmpty
<1>3. Done
  BY <1>2 DEF Done, Occurs, About
<1>4. Told
  BY <1>1 DEF Told
<1>5. Named(rows) = {} /\ Named(held) = {}
  BY <1>1 DEF Named, Copied
<1>6. MadeOnce /\ Kept /\ NoLooseKey /\ NoPeerSlipsIn
  BY <1>1, <1>5 DEF MadeOnce, Posted, Kept, NoLooseKey, NoPeerSlipsIn
<1> QED BY <1>2, <1>3, <1>4, <1>6 DEF PeerInv

\* A client cannot join a group while its peers are being removed: a peer
\* outlives its group only with an excuse of its own or of its key, however
\* the teardown interleaves with the job and with the clients that register.
\* DestroyAccess and DestroyEntrypoint delete the key before they list peers.
THEOREM PeerTheorem == Spec => []NoPeerSlipsIn
<1>1. PeerInv => NoPeerSlipsIn
  BY DEF PeerInv
<1>2. TypeInv /\ PeerInv /\ [Next]_vars => PeerInv'
  BY TypeStep, PeerStep
<1>3. Init => TypeInv /\ PeerInv
  BY TypeInit, PeerInit
<1> QED BY <1>1, <1>2, <1>3, TypeStep, PTL DEF Spec

-----------------------------------------------------------------------------
(* Why nothing is lost *)

\* What can be recorded, which is all but the peers; and what a copy names.
Things == ThingsOf(Owners)
In(copies, x) == copies[OwnerOf(x)] # NoRow /\ x \in copies[OwnerOf(x)]

\* Until the job has ended its copies name what the rows name.
Covered == ~Ended => \A x \in Things : In(rows, x) => In(held, x)

\* What is named or waits to be saved is not made again, and an owner has
\* neither row nor copy before the job gets to it.
Fresh ==
    /\ job = "queued" => known = {}
    /\ job = "running" => \A n \in at..Len(Script) : LET x == Script[n].obj IN
          /\ Script[n].op = "post" => x \notin known \cup made /\ ~In(held, x)
          /\ Script[n].op = "row" => rows[OwnerOf(x)] = NoRow /\ held[OwnerOf(x)] = NoRow

\* Without an overlap the copies are ahead of the rows by what is saved next.
Settled == job = "running" /\ ~overlap => \A x \in Things :
    In(held, x) /\ ~In(rows, x) => Working /\ Now.op = "save" /\ Now.obj = x

\* The rows go with the sandbox, and the steps of a teardown with it.
Gone == /\ ~sandbox => \A o \in Owners : rows[o] = NoRow
        /\ sweeper = "none" => work = << >>

\* A teardown after the job, and the one of its end guard, know everything.
Seen == (sweeper = "teardown" /\ ~overlap) \/ sweeper = "guard" =>
    \A x \in cloud \cap Things : x \in known \cup excused

\* What the teardown at work knows of is excused, or still to be deleted.
Planned == sweeper # "none" =>
    \A x \in known \cap cloud \cap Things : x \in excused \/ Occurs(work, "delete", x)

\* While there is a sandbox, what a teardown knew of is excused or in a row.
Backed == sandbox => \A x \in known \cap cloud \cap Things : x \in excused \/ In(rows, x)

\* Whatever is on the server is excused, in a row or in the hands of the job.
Accounted == \A x \in cloud \cap Things :
    x \in excused \/ In(rows, x) \/ (~Ended /\ (In(held, x) \/ x \in made))

Ledger == /\ Covered /\ Fresh /\ Settled /\ Gone /\ Seen
          /\ Planned /\ Backed /\ Accounted
LossInv == AccessLast(work) /\ Ledger

LEMMA ThingFacts ==
    /\ \A x \in Things : /\ x \in Object /\ OwnerOf(x) \in Owners
                         /\ x \in Recordable(OwnerOf(x)) /\ x[1] \in Kind
    /\ \A o \in Owners : Recordable(o) \subseteq Things
    /\ \A x \in Object : x[1] # "peer" => x \in Things
<1>1. \A o \in Owners : Recordable(o) \subseteq Things
  BY DEF Things, ThingsOf
<1>2. ASSUME NEW x \in Things PROVE /\ x \in Object /\ OwnerOf(x) \in Owners
                                    /\ x \in Recordable(OwnerOf(x)) /\ x[1] \in Kind
  <2>1. PICK o \in Owners : x \in Recordable(o)
    BY DEF Things, ThingsOf
  <2>2. OwnerOf(x) = o /\ x \in Object
    BY <2>1, RecordedByOwner DEF Object
  <2>3. x[1] \in Kind
    BY <2>1 DEF Recordable, Kind, Group, Key, Nameservers, Policy, Routes, Route
  <2> QED BY <2>1, <2>2, <2>3
<1>3. ASSUME NEW x \in Object, x[1] # "peer" PROVE x \in Things
  <2>1. PICK o \in Owners : x \in Recordable(o) \cup {Peer(o)}
    BY DEF Object
  <2>2. Peer(o)[1] = "peer"
    BY OwnObjects
  <2> QED BY <1>1, <1>3, <2>1, <2>2
<1> QED BY <1>1, <1>2, <1>3

LEMMA NamedThing ==
    ASSUME NEW copies, Copies(copies)
    PROVE  \A x : x \in Named(copies) <=> x \in Things /\ In(copies, x)
<1>1. \A p \in Owners : copies[p] = NoRow \/ copies[p] \subseteq Recordable(p)
  BY DEF Copies
<1>2. \A p \in Owners : Recordable(p) \subseteq Things /\ \A x \in Recordable(p) : OwnerOf(x) = p
  BY ThingFacts, RecordedByOwner
<1>3. ASSUME NEW x, x \in Named(copies) PROVE x \in Things /\ In(copies, x)
  <2>1. PICK o \in Owners : copies[o] # NoRow /\ x \in copies[o]
    BY <1>3 DEF Named, Copied
  <2> QED BY <1>1, <1>2, <2>1 DEF In
<1>4. ASSUME NEW x \in Things, In(copies, x) PROVE x \in Named(copies)
  BY <1>4, ThingFacts DEF Named, Copied, In
<1> QED BY <1>3, <1>4

LEMMA LossIs == ASSUME TypeInv, Accounted PROVE NothingLost
<1> SUFFICES ASSUME NEW x \in cloud, x[1] # "peer" PROVE x \in Reachable \cup excused
  BY DEF NothingLost
<1>1. x \in Things
  BY ThingFacts DEF TypeInv, ObjectsOK
<1>2. x \in excused \/ In(rows, x) \/ (~Ended /\ (In(held, x) \/ x \in made))
  BY <1>1 DEF Accounted
<1>3. /\ In(rows, x) => x \in Named(rows)
      /\ In(held, x) => x \in Named(held)
  BY <1>1, NamedThing DEF TypeInv
<1> QED BY <1>2, <1>3 DEF Reachable

-----------------------------------------------------------------------------
(* The order of a teardown, once more *)

LEMMA AccessTail ==
    ASSUME NEW W \in Seq(SweepStep), W # << >>, AccessLast(W)
    PROVE  /\ AccessLast(Tail(W))
           /\ OwnerOf(Head(W).obj) = Access =>
                \A n \in 1..Len(Tail(W)) : OwnerOf(Tail(W)[n].obj) = Access
<1> DEFINE V == Tail(W)
<1>1. /\ Len(W) \in Nat \ {0} /\ Head(W) = W[1] /\ Len(V) = Len(W) - 1
      /\ \A i \in 1..Len(V) : V[i] = W[i + 1]
  BY EmptySeq, HeadTailProperties
<1> HIDE DEF V
<1>2. \A i \in 1..Len(V) : i + 1 \in 1..Len(W) /\ 1 < i + 1 /\ 1 \in 1..Len(W)
  BY <1>1
<1>3. AccessLast(V)
  <2> SUFFICES ASSUME NEW i \in 1..Len(V), NEW j \in 1..Len(V), i < j, OwnerOf(V[i].obj) = Access
               PROVE  OwnerOf(V[j].obj) = Access
    BY DEF AccessLast
  <2>1. i + 1 < j + 1
    OBVIOUS
  <2> QED BY <1>1, <1>2, <2>1 DEF AccessLast
<1>4. ASSUME OwnerOf(Head(W).obj) = Access, NEW n \in 1..Len(V) PROVE OwnerOf(V[n].obj) = Access
  BY <1>1, <1>2, <1>4 DEF AccessLast
<1> QED BY <1>3, <1>4 DEF V

LEMMA AccessCat ==
    ASSUME NEW s \in Seq(SweepStep), NEW t \in Seq(SweepStep), AccessLast(s), AccessLast(t),
           \A i \in 1..Len(s), j \in 1..Len(t) : OwnerOf(s[i].obj) = Access => OwnerOf(t[j].obj) = Access
    PROVE  AccessLast(s \o t)
<1> DEFINE W == s \o t
<1>1. /\ \A n \in 1..Len(s) : n \in 1..Len(W) /\ W[n] = s[n]
      /\ \A n \in 1..Len(W) : n \notin 1..Len(s) => n - Len(s) \in 1..Len(t) /\ W[n] = t[n - Len(s)]
      /\ Len(W) = Len(s) + Len(t) /\ Len(s) \in Nat /\ Len(t) \in Nat
  BY Places
<1> HIDE DEF W
<1>2. ASSUME NEW i \in 1..Len(W), NEW j \in 1..Len(W), i < j, OwnerOf(W[i].obj) = Access
      PROVE  OwnerOf(W[j].obj) = Access
  <2>1. CASE j \in 1..Len(s)
    <3>1. i \in 1..Len(s)
      BY <1>1, <1>2, <2>1
    <3> QED BY <1>1, <1>2, <2>1, <3>1 DEF AccessLast
  <2>2. CASE j \notin 1..Len(s) /\ i \in 1..Len(s)
    BY <1>1, <1>2, <2>2
  <2>3. CASE j \notin 1..Len(s) /\ i \notin 1..Len(s)
    <3>1. /\ i - Len(s) \in 1..Len(t) /\ j - Len(s) \in 1..Len(t) /\ i - Len(s) < j - Len(s)
          /\ W[i] = t[i - Len(s)] /\ W[j] = t[j - Len(s)]
      BY <1>1, <1>2, <2>3
    <3> QED BY <1>2, <3>1 DEF AccessLast
  <2> QED BY <2>1, <2>2, <2>3
<1>3. AccessLast(W)
  BY <1>2 DEF AccessLast
<1> QED BY <1>3 DEF W

LEMMA AccessStep ==
    ASSUME TypeInv, AccessLast(work), Next PROVE AccessLast(work')
<1>1. work \in Seq(SweepStep) /\ Copies(rows) /\ Copies(held)
  BY WorkSeq DEF TypeInv
<1>2. CASE work' = work
  BY <1>2
<1>3. CASE work' = << >>
  <2>1. \A n \in 1..Len(work') : FALSE
    BY <1>3
  <2> QED BY <2>1 DEF AccessLast
<1>4. ASSUME work # << >>, work' = Tail(work) PROVE AccessLast(work')
  BY <1>1, <1>4, AccessTail
<1>5. ASSUME NEW copies, Copies(copies), work' = Sweep(copies) PROVE AccessLast(work')
  BY <1>5, SweepOrdered
<1>6. CASE ListPeers
  <2> DEFINE p == Head(work).obj
             T == Tail(work)
             D == DeleteIf(cloud, p)
  <2>1. /\ work # << >> /\ Head(work).op = "peers"
        /\ work' = D \o T \/ work' = T
    BY <1>6 DEF ListPeers, Due, Next1
  <2>2. T \in Seq(SweepStep) /\ Head(work) \in SweepStep
    BY <1>1, <2>1, TailFacts
  <2>3. D \in Seq(SweepStep) /\ Len(D) \in 0..1 /\ \A n \in 1..Len(D) : n = 1 /\ D[n].obj = p
    <3> DEFINE d == [op |-> "delete", obj |-> p, checked |-> TRUE]
               S == <<d>>
    <3>1. CASE p \in cloud
      <4>1. D = S
        BY <3>1 DEF DeleteIf, Do
      <4>2. d \in SweepStep /\ d.obj = p
        BY <2>2 DEF SweepStep
      <4> HIDE DEF d
      <4>3. S \in Seq(SweepStep) /\ Len(S) = 1 /\ S[1] = d
        BY <4>2
      <4> HIDE DEF S, D, p
      <4>4. \A n \in 1..Len(S) : n = 1
        BY <4>3
      <4> QED BY <4>1, <4>2, <4>3, <4>4
    <3>2. CASE p \notin cloud
      <4>1. D = << >> /\ Len(<< >>) = 0
        BY <3>2 DEF DeleteIf
      <4>2. << >> \in Seq(SweepStep)
        BY EmptySeq
      <4> HIDE DEF D
      <4> QED BY <4>1, <4>2
    <3> QED BY <3>1, <3>2
  <2>4. AccessLast(D)
    <3> HIDE DEF D, p
    <3> QED BY <2>3 DEF AccessLast
  <2>5. AccessLast(T) /\ (OwnerOf(p) = Access => \A n \in 1..Len(T) : OwnerOf(T[n].obj) = Access)
    BY <1>1, <2>1, AccessTail
  <2> HIDE DEF D, T, p
  <2>6. AccessLast(D \o T)
    BY <2>2, <2>3, <2>4, <2>5, AccessCat
  <2> QED BY <2>1, <2>5, <2>6
<1>7. CASE Provision \/ JobCrash \/ UserStage \/ \E o \in Owners : Register(o)
  <2>1. work' = work \/ work' = << >> \/ work' = Sweep(held)
    BY <1>7 DEF Provision, JobStart, GetOrCreateRow, Create, Save, EndGuard, JobCrash, UserStage,
                Register, sweepVars
  <2> QED BY <1>1, <1>2, <1>3, <1>5, <2>1
<1>8. CASE TeardownStart \/ TeardownCrash
  <2>1. work' = << >> \/ work' = Sweep(rows)
    BY <1>8 DEF TeardownStart, TeardownCrash
  <2> QED BY <1>1, <1>3, <1>5, <2>1
<1>9. CASE GiveUp \/ DeleteSandbox \/ GuardEnd
  <2>1. work' = work \/ work' = << >>
    BY <1>9 DEF GiveUp, DeleteSandbox, GuardEnd
  <2> QED BY <1>2, <1>3, <2>1
<1>10. CASE Delete \/ DeleteRow
  <2>1. work # << >> /\ work' = Tail(work)
    BY <1>10 DEF Delete, DeleteRow, Due
  <2> QED BY <1>4, <2>1
<1> QED BY <1>6, <1>7, <1>8, <1>9, <1>10 DEF Next, Teardown

\* Once a row is the next to go, what it named has had its turn.
LEMMA RowLast ==
    ASSUME NEW W \in Seq(SweepStep), W # << >>, Sorted(W), Head(W).op = "row", NEW x \in Things,
           OwnerOf(Head(W).obj) = OwnerOf(x)
    PROVE  ~Occurs(W, "delete", x)
<1> DEFINE V == Tail(W)
<1>1. /\ V \in Seq(SweepStep) /\ Head(W) \in SweepStep
      /\ Occurs(W, "delete", x) <=> Occurs(V, "delete", x) \/ (Head(W).op = "delete" /\ Head(W).obj = x)
      /\ \A n \in 1..Len(V) : OwnerOf(V[n].obj) = OwnerOf(Head(W).obj) => Rank(Head(W)) <= Rank(V[n])
  BY TailFacts
<1> HIDE DEF V
<1>2. Rank(Head(W)) = 4
  BY DEF Rank
<1>3. \A s : s.op = "delete" => Rank(s) < 4
  BY DEF Rank
<1>4. \A n \in 1..Len(V) : V[n].op = "delete" => V[n].obj # x
  BY <1>1, <1>2, <1>3, RankRange
<1> QED BY <1>1, <1>4 DEF Occurs


-----------------------------------------------------------------------------
(* What a step of the job does to the objects *)

\* A step that raises leaves an object where it was, or excuses it.
LEMMA RaiseKeeps ==
    ASSUME TypeInv, Covered, Working, NEW lost, Raise(lost)
    PROVE  /\ \A x \in Things : /\ In(held', x) => In(held, x)
                                /\ In(rows, x) => In(held', x)
                                /\ In(held, x) \/ x \in made => In(held', x) \/ x \in excused'
           /\ \A o \in Owners : o = OwnerOf(Now.obj) \/ held'[o] = held[o]
           /\ excused \subseteq excused' /\ lost \subseteq excused' /\ at < at' /\ made' = {}
<1>1. /\ excused \subseteq excused' /\ lost \subseteq excused' /\ at < at' /\ made' = {}
  BY RaiseHeld
<1>2. \A x \in Things : /\ In(rows, x) => In(held, x)
                        /\ OwnerOf(x) \in Owners
  BY ThingFacts DEF Covered, Ended, Working
<1>3. held = [o \in Owners |-> held[o]]
  BY DEF TypeInv, Copies
<1> DEFINE h == Now.part
<1>4. CASE h \in Hosts
  <2>1. h = OwnerOf(Now.obj)
    BY <1>4, NowFacts
  <2>2. /\ held' = [held EXCEPT ![h] = rows[h]]
        /\ excused' = excused \cup lost \cup made \cup
              (IF held[h] = NoRow THEN {}
               ELSE IF rows[h] = NoRow THEN held[h] ELSE held[h] \ rows[h])
    BY <1>4 DEF Raise
  <2> HIDE DEF h
  <2>3. \A o \in Owners : held'[o] = IF o = h THEN rows[h] ELSE held[o]
    BY <1>3, <2>2
  <2>4. ASSUME NEW x \in Things
        PROVE  /\ In(held', x) => In(held, x)
               /\ In(rows, x) => In(held', x)
               /\ In(held, x) \/ x \in made => In(held', x) \/ x \in excused'
    <3>1. CASE OwnerOf(x) = h
      BY <1>2, <2>2, <2>3, <3>1 DEF In
    <3>2. CASE OwnerOf(x) # h
      BY <1>2, <2>2, <2>3, <3>2 DEF In
    <3> QED BY <3>1, <3>2
  <2> QED BY <1>1, <2>1, <2>3, <2>4
<1>5. CASE h \notin Hosts
  <2>1. held' = held /\ made = {}
    BY <1>5 DEF Raise, TypeInv, JobOK
  <2> QED BY <1>1, <1>2, <2>1
<1> QED BY <1>4, <1>5

\* What a step of the job leaves alone, and where it puts what it makes.
Posts(x) == Working /\ Now.op = "post" /\ Now.obj = x
Moved ==
    /\ Working /\ job' = job /\ at < at'
    /\ UNCHANGED <<sandbox, sweepVars, overlap>>
    /\ excused \subseteq excused' /\ (~sandbox => rows' = rows)
    /\ \A o \in Owners : o = OwnerOf(Now.obj) \/ (rows'[o] = rows[o] /\ held'[o] = held[o])
    /\ \A x \in Things :
          /\ x \in cloud' => x \in cloud \/ (Posts(x) /\ (In(held', x) \/ x \in made' \cup excused'))
          /\ In(rows, x) => In(rows', x)
          /\ In(rows', x) => In(held', x)
          /\ In(held, x) \/ x \in made => In(held', x) \/ x \in made' \cup excused'
          /\ In(held', x) \/ x \in made' => In(held, x) \/ x \in made \/ Posts(x)

LEMMA RowMoves == ASSUME TypeInv, Covered, Fresh, GetOrCreateRow PROVE Moved
<1> DEFINE o == OwnerOf(Now.obj)
<1>1. /\ Working /\ Now.op = "row" /\ o \in Owners /\ at \in 1..Len(Script)
      /\ job' = job /\ cloud' = cloud /\ UNCHANGED <<sandbox, sweepVars, overlap>>
  BY NowFacts DEF GetOrCreateRow
<1>2. rows[o] = NoRow /\ held[o] = NoRow
  <2>1. at \in at..Len(Script) /\ Script[at] = Now /\ job = "running"
    BY <1>1 DEF Now, Working
  <2> QED BY <1>1, <2>1 DEF Fresh
<1>3. /\ rows = [p \in Owners |-> rows[p]] /\ held = [p \in Owners |-> held[p]]
      /\ \A x \in Things : (In(rows, x) => In(held, x)) /\ OwnerOf(x) \in Owners
  BY <1>1, ThingFacts DEF TypeInv, Copies, Covered, Ended, Working
<1>4. CASE /\ sandbox
           /\ rows' = [rows EXCEPT ![o] = IF @ = NoRow THEN {} ELSE @]
           /\ held' = [held EXCEPT ![o] = rows'[o]]
           /\ at' = at + 1 /\ UNCHANGED <<made, excused>>
  <2> HIDE DEF o
  <2>1. rows' = [rows EXCEPT ![o] = {}] /\ at < at'
    BY <1>1, <1>2, <1>4
  <2>2. \A p \in Owners : /\ rows'[p] = IF p = o THEN {} ELSE rows[p]
                          /\ held'[p] = IF p = o THEN {} ELSE held[p]
    BY <1>1, <1>3, <1>4, <2>1
  <2>3. {} # NoRow
    BY Recorded
  <2>4. ASSUME NEW x \in Things
        PROVE  /\ In(rows, x) <=> In(rows', x)
               /\ In(held, x) <=> In(held', x)
    BY <1>2, <1>3, <2>2 DEF In
  <2> QED BY <1>1, <1>3, <1>4, <2>1, <2>2, <2>4 DEF Moved, o
<1>5. CASE ~sandbox /\ Raise({}) /\ rows' = rows
  BY <1>1, <1>3, <1>5, RaiseKeeps DEF Moved
<1> QED BY <1>4, <1>5 DEF GetOrCreateRow

LEMMA CreateMoves == ASSUME TypeInv, Covered, Create PROVE Moved
<1> DEFINE y == Now.obj
           o == OwnerOf(y)
<1>1. /\ Working /\ Now.op = "post" /\ o \in Owners /\ at \in 1..Len(Script)
      /\ held[o] # NoRow /\ y \in Recordable(o)
      /\ job' = job /\ rows' = rows /\ UNCHANGED <<sandbox, sweepVars, overlap>>
  BY NowFacts DEF Create
<1>2. /\ held = [p \in Owners |-> held[p]] /\ held[o] \in SUBSET Object /\ y \in Object
      /\ \A x \in Things : (In(rows, x) => In(held, x)) /\ OwnerOf(x) \in Owners
  BY <1>1, ThingFacts, Recorded DEF TypeInv, Copies, Covered, Ended, Working
<1>3. \A x \in Things : Posts(x) <=> x = y
  BY <1>1 DEF Posts
<1>4. CASE /\ cloud' = cloud \cup {y} /\ at' = at + 1 /\ UNCHANGED excused
           /\ made' = made \cup {y} /\ UNCHANGED held
  BY <1>1, <1>2, <1>3, <1>4 DEF Moved
<1>5. CASE /\ cloud' = cloud \cup {y} /\ at' = at + 1 /\ UNCHANGED excused
           /\ held' = [held EXCEPT ![o] = @ \cup {y}] /\ UNCHANGED made
  <2> HIDE DEF y, o
  <2>1. \A p \in Owners : held'[p] = IF p = o THEN held[o] \cup {y} ELSE held[p]
    BY <1>1, <1>2, <1>5
  <2>2. held[o] \cup {y} # NoRow /\ at < at'
    BY <1>1, <1>2, <1>5, Recorded
  <2>3. ASSUME NEW x \in Things
        PROVE  /\ In(held', x) <=> In(held, x) \/ (x = y /\ OwnerOf(x) = o)
    BY <1>1, <1>2, <2>1, <2>2 DEF In
  <2>4. OwnerOf(y) = o
    BY DEF o
  <2> QED BY <1>1, <1>2, <1>3, <1>5, <2>1, <2>2, <2>3, <2>4 DEF Moved, o, y
<1>6. ASSUME NEW lost, Raise(lost), cloud' = cloud \/ (cloud' = cloud \cup {y} /\ y \in lost)
      PROVE  Moved
  <2>1. /\ \A x \in Things : /\ In(held', x) => In(held, x)
                             /\ In(rows, x) => In(held', x)
                             /\ In(held, x) \/ x \in made => In(held', x) \/ x \in excused'
        /\ \A p \in Owners : p = o \/ held'[p] = held[p]
        /\ excused \subseteq excused' /\ lost \subseteq excused' /\ at < at' /\ made' = {}
    BY <1>1, <1>6, RaiseKeeps
  <2>2. \A x \in Things : x \in cloud' => x \in cloud \/ (x = y /\ x \in excused')
    BY <1>6, <2>1
  <2> QED BY <1>1, <1>3, <2>1, <2>2 DEF Moved
<1> QED BY <1>4, <1>5, <1>6 DEF Create

LEMMA SaveMoves == ASSUME TypeInv, Covered, Save PROVE Moved
<1> DEFINE o == OwnerOf(Now.obj)
           ids == held[o] \cup made
<1>1. /\ Working /\ Now.op = "save" /\ o \in Owners /\ at \in 1..Len(Script) /\ held[o] # NoRow
      /\ job' = job /\ cloud' = cloud /\ UNCHANGED <<sandbox, sweepVars, overlap>>
  BY NowFacts DEF Save
<1>2. /\ rows = [p \in Owners |-> rows[p]] /\ held = [p \in Owners |-> held[p]]
      /\ held[o] \in SUBSET Object
      /\ \A x \in Things : (In(rows, x) => In(held, x)) /\ OwnerOf(x) \in Owners
  BY <1>1, ThingFacts, Recorded DEF TypeInv, Copies, Covered, Ended, Working
<1>3. made \in SUBSET Object /\ \A x \in made : OwnerOf(x) = o
  <2>1. CASE made = {}
    BY <2>1
  <2>2. CASE made # {}
    <3>1. Now.part \in Hosts /\ made \subseteq Routes(Now.part)
      BY <2>2 DEF TypeInv, JobOK
    <3>2. Now.part = o
      BY <1>1, <3>1, NowFacts
    <3> QED BY <3>1, <3>2, Recorded, RecordedByOwner
  <2> QED BY <2>1, <2>2
<1>4. CASE /\ rows' = [rows EXCEPT ![o] = ids] /\ held' = [held EXCEPT ![o] = ids]
           /\ at' = at + 1 /\ made' = {} /\ UNCHANGED excused /\ sandbox
  <2>1. ids # NoRow /\ \A x \in ids : x \in held[o] \/ x \in made
    BY <1>2, <1>3, Recorded
  <2>2. \A x : x \in ids <=> x \in held[o] \/ x \in made
    OBVIOUS
  <2> HIDE DEF o, ids
  <2>3. \A p \in Owners : /\ rows'[p] = IF p = o THEN ids ELSE rows[p]
                          /\ held'[p] = IF p = o THEN ids ELSE held[p]
    BY <1>1, <1>2, <1>4
  <2>4. ASSUME NEW x \in Things
        PROVE  /\ In(rows, x) => In(rows', x)
               /\ In(rows', x) => In(held', x)
               /\ In(held, x) \/ x \in made <=> In(held', x)
    <3>1. CASE OwnerOf(x) = o
      BY <1>1, <1>2, <2>1, <2>2, <2>3, <3>1 DEF In
    <3>2. CASE OwnerOf(x) # o
      BY <1>2, <1>3, <2>3, <3>2 DEF In
    <3> QED BY <3>1, <3>2
  <2>5. at < at'
    BY <1>1, <1>4
  <2> QED BY <1>1, <1>4, <2>3, <2>4, <2>5 DEF Moved, o
<1>5. CASE ~sandbox /\ Raise({}) /\ rows' = rows
  BY <1>1, <1>2, <1>5, RaiseKeeps DEF Moved
<1> QED BY <1>4, <1>5 DEF Save

-----------------------------------------------------------------------------
(* Every step keeps what the account of the objects needs *)

LEMMA ScriptThings ==
    \A n \in 1..Len(Script) : /\ OwnerOf(Script[n].obj) \in Owners
                              /\ Script[n].op = "post" => Script[n].obj \in Things
<1> SUFFICES ASSUME NEW n \in 1..Len(Script)
             PROVE  /\ OwnerOf(Script[n].obj) \in Owners
                    /\ Script[n].op = "post" => Script[n].obj \in Things
  OBVIOUS
<1>1. Script[n] \in Steps /\ Fits(Script[n])
  BY ScriptFacts DEF JobStep
<1>2. OwnerOf(Script[n].obj) \in Owners
  BY <1>1 DEF Steps, OwnerOf
<1> QED BY <1>1, <1>2, ThingFacts DEF Fits

LEMMA MovedFresh == ASSUME TypeInv, TypeInv', Fresh, Moved PROVE Fresh'
<1>1. /\ Working /\ job' = "running" /\ at < at' /\ known' = known /\ at \in 1..Len(Script)
      /\ at' \in 1..Len(Script) + 1 /\ Len(Script) \in Nat /\ Now = Script[at]
  BY NowFacts, ScriptFacts DEF Moved, Working, sweepVars, TypeInv, JobOK, Now
<1> SUFFICES ASSUME NEW n \in at'..Len(Script), NEW y, y = Script[n].obj
             PROVE  /\ Script[n].op = "post" => y \notin known \cup made' /\ ~In(held', y)
                    /\ Script[n].op = "row" => rows'[OwnerOf(y)] = NoRow /\ held'[OwnerOf(y)] = NoRow
  BY <1>1 DEF Fresh, In
<1>2. n \in at..Len(Script) /\ n \in 1..Len(Script) /\ at < n
  BY <1>1
<1>3. /\ Script[n].op = "post" => y \notin known \cup made /\ ~In(held, y) /\ y \in Things
      /\ Script[n].op = "row" => rows[OwnerOf(y)] = NoRow /\ held[OwnerOf(y)] = NoRow
      /\ OwnerOf(y) \in Owners
  BY <1>1, <1>2, ScriptThings DEF Fresh, Working
<1>4. /\ (Twice(Script, at, n) => at = n) /\ ~Tardy(Script, at, n)
  BY <1>1, <1>2, ScriptMakes
<1>5. ASSUME Script[n].op = "post" PROVE y \notin known \cup made' /\ ~In(held', y)
  <2>1. ~Posts(y)
    BY <1>1, <1>2, <1>4, <1>5 DEF Posts, Twice
  <2> QED BY <1>3, <1>5, <2>1 DEF Moved
<1>6. ASSUME Script[n].op = "row"
      PROVE  rows'[OwnerOf(y)] = NoRow /\ held'[OwnerOf(y)] = NoRow
  <2>1. OwnerOf(y) # OwnerOf(Now.obj)
    BY <1>1, <1>2, <1>4, <1>6 DEF Tardy
  <2> QED BY <1>3, <1>6, <2>1 DEF Moved
<1> QED BY <1>5, <1>6

LEMMA MovedKeeps ==
    ASSUME TypeInv, TypeInv', Told, LossInv, Moved
    PROVE  Covered' /\ Gone' /\ Seen' /\ Planned' /\ Backed' /\ Accounted'
<1>1. /\ Working /\ job = "running" /\ job' = "running" /\ ~Ended /\ ~Ended'
      /\ UNCHANGED <<sandbox, overlap, known, sweeper, work>>
      /\ at \in 1..Len(Script) /\ Now = Script[at]
  BY NowFacts DEF Moved, Working, sweepVars, Now, Ended
<1>2. \A x \in Things : x \in cloud' => x \in cloud \/ (x \notin known /\
                            (In(held', x) \/ x \in made' \cup excused'))
  <2>1. \A x \in Things : Posts(x) => x \notin known
    <3>1. at \in at..Len(Script)
      BY <1>1
    <3> QED BY <1>1, <3>1 DEF Posts, LossInv, Ledger, Fresh
  <2> QED BY <2>1 DEF Moved
<1>3. Covered'
  BY DEF Covered, Moved, In
<1>4. Gone'
  BY <1>1 DEF Gone, Moved, LossInv, Ledger
<1>5. Seen'
  BY <1>1 DEF Seen, Told
<1>6. Planned'
  <2>1. ASSUME sweeper # "none", NEW x \in Things, x \in known, x \in cloud'
        PROVE  x \in excused' \/ Occurs(work, "delete", x)
    BY <1>2, <2>1 DEF LossInv, Ledger, Planned, Moved
  <2> QED BY <1>1, <2>1 DEF Planned, Occurs
<1>7. Backed'
  <2>1. ASSUME sandbox, NEW x \in Things, x \in known, x \in cloud'
        PROVE  x \in excused' \/ In(rows', x)
    BY <1>2, <2>1 DEF LossInv, Ledger, Backed, Moved
  <2> QED BY <1>1, <2>1 DEF Backed, In
<1>8. Accounted'
  <2>1. ASSUME NEW x \in Things, x \in cloud'
        PROVE  x \in excused' \/ In(rows', x) \/ In(held', x) \/ x \in made'
    BY <1>1, <1>2, <2>1 DEF LossInv, Ledger, Accounted, Moved
  <2> QED BY <1>1, <2>1 DEF Accounted, In
<1> QED BY <1>3, <1>4, <1>5, <1>6, <1>7, <1>8

\* What is made is saved at once, as long as nobody tears down.
LEMMA SettledWork ==
    ASSUME TypeInv, TypeInv', Told, LossInv, GetOrCreateRow \/ Create \/ Save PROVE Settled'
<1> SUFFICES ASSUME ~overlap, NEW x \in Things, In(held', x), ~In(rows', x), job' = "running"
             PROVE  Working' /\ Now'.op = "save" /\ Now'.obj = x
  BY DEF Settled, In, GetOrCreateRow, Create, Save
<1> DEFINE o == OwnerOf(Now.obj)
<1>1. /\ Working /\ job = "running" /\ sandbox /\ o \in Owners /\ at \in 1..Len(Script)
      /\ OwnerOf(x) \in Owners /\ Now = Script[at]
      /\ rows = [p \in Owners |-> rows[p]] /\ held = [p \in Owners |-> held[p]]
  BY NowFacts, ThingFacts DEF GetOrCreateRow, Create, Save, Told, Working, Ended, Now, TypeInv, Copies, PlainOK
<1>2. In(held, x) /\ ~In(rows, x) => Now.op = "save" /\ Now.obj = x
  BY <1>1 DEF LossInv, Ledger, Settled
<1>3. CASE GetOrCreateRow
  <2>1. /\ rows' = [rows EXCEPT ![o] = IF @ = NoRow THEN {} ELSE @]
        /\ held' = [held EXCEPT ![o] = rows'[o]] /\ Now.op = "row"
    BY <1>1, <1>3 DEF GetOrCreateRow
  <2> HIDE DEF o
  <2>2. \A p \in Owners : /\ p # o => rows'[p] = rows[p] /\ held'[p] = held[p]
                          /\ p = o => held'[p] = rows'[p]
    BY <1>1, <2>1
  <2> QED BY <1>1, <1>2, <2>1, <2>2 DEF In
<1>4. CASE Save
  <2> DEFINE ids == held[o] \cup made
  <2>1. /\ rows' = [rows EXCEPT ![o] = ids] /\ held' = [held EXCEPT ![o] = ids] /\ Now.op = "save"
    BY <1>1, <1>4 DEF Save
  <2> HIDE DEF ids
  <2>2. \A p \in Owners : /\ p # o => rows'[p] = rows[p] /\ held'[p] = held[p]
                          /\ p = o => held'[p] = rows'[p]
    <3> HIDE DEF o
    <3> QED BY <1>1, <2>1
  <2>3. Now.obj = x => OwnerOf(x) = o
    OBVIOUS
  <2> HIDE DEF o
  <2> QED BY <1>1, <1>2, <2>1, <2>2, <2>3 DEF In
<1>5. CASE Create
  <2> DEFINE y == Now.obj
  <2>1. Now.op = "post" /\ rows' = rows /\ held[o] # NoRow
    BY <1>1, <1>5, NowFacts DEF Create
  <2>2. ~In(held, x)
    BY <1>2, <2>1 DEF In
  <2>3. CASE \E lost : Raise(lost)
    BY <1>1, <2>2, <2>3, RaiseKeeps DEF LossInv, Ledger
  <2>4. CASE held' = held
    BY <2>2, <2>4
  <2>5. CASE at' = at + 1 /\ y[1] # "route" /\ held' = [held EXCEPT ![o] = @ \cup {y}]
    <3>1. SavedNext(Script, at)
      BY <1>1, <2>1, <2>5, ScriptMakes
    <3>2. x = y
      <4> HIDE DEF y, o
      <4>1. \A p \in Owners : held'[p] = IF p = o THEN held[o] \cup {y} ELSE held[p]
        BY <1>1, <2>5
      <4> QED BY <1>1, <2>1, <2>2, <4>1 DEF In
    <3>3. at' <= Len(Script) /\ Now' = Script[at + 1]
      BY <1>1, <2>5, <3>1, ScriptFacts DEF SavedNext, Now
    <3> QED BY <1>1, <3>1, <3>2, <3>3 DEF Working, SavedNext
  <2> QED BY <1>5, <2>3, <2>4, <2>5 DEF Create
<1> QED BY <1>3, <1>4, <1>5

LEMMA LossWork ==
    ASSUME TypeInv, TypeInv', Told, LossInv, GetOrCreateRow \/ Create \/ Save
    PROVE  Ledger'
<1>1. Moved
  BY RowMoves, CreateMoves, SaveMoves DEF LossInv, Ledger
<1> QED BY <1>1, MovedFresh, MovedKeeps, SettledWork DEF LossInv, Ledger

\* A queued job has nothing, and nobody knows of anything.
LEMMA NothingYet ==
    ASSUME TypeInv, MadeOnce, Ledger, job = "queued"
    PROVE  /\ made = {} /\ known = {}
           /\ \A x \in Things : ~In(rows, x) /\ ~In(held, x)
           /\ \A o \in Owners : rows[o] = NoRow /\ held[o] = NoRow
<1>1. made = {} /\ known = {} /\ \A o \in Owners : rows[o] = NoRow /\ held[o] = NoRow
  BY DEF TypeInv, JobOK, Working, MadeOnce, Ledger, Fresh
<1> QED BY <1>1, ThingFacts DEF In

LEMMA LossJobStart == ASSUME TypeInv, MadeOnce, Ledger, JobStart PROVE Ledger'
<1>1. /\ job = "queued" /\ job' \in {"running", "finished"} /\ ~Ended
      /\ UNCHANGED <<sandbox, rows, cloud, at, held, made, sweeper, work, known, overlap, excused>>
  BY DEF JobStart, sweepVars, Ended
<1>2. /\ made = {} /\ known = {}
      /\ \A x \in Things : ~In(rows, x) /\ ~In(held, x)
      /\ \A o \in Owners : rows[o] = NoRow /\ held[o] = NoRow
  BY <1>1, NothingYet
<1>3. Covered' /\ Settled' /\ Accounted'
  BY <1>1, <1>2 DEF Ledger, Covered, Settled, Accounted, In
<1>4. Fresh'
  <2>1. at \in 1..Len(Script) + 1 /\ Len(Script) \in Nat
    BY ScriptFacts DEF TypeInv, JobOK
  <2>2. ASSUME NEW n \in at..Len(Script)
        PROVE  /\ Script[n].op = "post" => Script[n].obj \notin known \cup made /\ ~In(held, Script[n].obj)
               /\ Script[n].op = "row" => /\ rows[OwnerOf(Script[n].obj)] = NoRow
                                          /\ held[OwnerOf(Script[n].obj)] = NoRow
    <3>1. n \in 1..Len(Script)
      BY <2>1
    <3> QED BY <1>2, <3>1, ScriptThings
  <2> QED BY <1>1, <2>2 DEF Fresh, In
<1>5. Gone' /\ Seen' /\ Planned' /\ Backed'
  BY <1>1 DEF Ledger, Gone, Seen, Planned, Backed, In, Occurs
<1> QED BY <1>3, <1>4, <1>5 DEF Ledger

\* The job ends with the sandbox there: what it holds is in the rows, unless a
\* teardown took a row away, and that teardown knew of it or is to blame.
LEMMA LossEnd ==
    ASSUME TypeInv, Told, Ledger, EndGuard,
           job' = "finished", UNCHANGED sweepVars,
           \/ excused' = excused \cup Unseen(Named(held) \ Named(rows)) /\ sandbox
           \/ excused' = excused \cup cloud
    PROVE  Ledger'
<1>1. /\ job = "running" /\ at > Len(Script) /\ ~Working /\ made = {} /\ ~Ended
      /\ UNCHANGED <<sandbox, rows, cloud, sweeper, work, known, overlap>>
      /\ excused \subseteq excused'
  <2>1. job = "running" /\ at > Len(Script) /\ UNCHANGED <<sandbox, rows, cloud, overlap>>
    BY DEF EndGuard
  <2>2. ~Working
    BY <2>1, ScriptFacts DEF Working, TypeInv, JobOK
  <2> QED BY <2>1, <2>2 DEF TypeInv, JobOK, sweepVars, Ended
<1>2. /\ \A x : x \in Named(rows) <=> x \in Things /\ In(rows, x)
      /\ \A x : x \in Named(held) <=> x \in Things /\ In(held, x)
  BY NamedThing DEF TypeInv
<1>3. Covered' /\ Fresh' /\ Settled' /\ Gone' /\ Seen' /\ Planned' /\ Backed'
  <2>1. Covered' /\ Fresh' /\ Settled' /\ Gone'
    BY <1>1 DEF Ledger, Covered, Fresh, Settled, Gone, Ended
  <2>2. Seen'
    BY <1>1 DEF Seen, Told
  <2>3. Planned' /\ Backed'
    BY <1>1 DEF Ledger, Planned, Backed, In, Occurs
  <2> QED BY <2>1, <2>2, <2>3
<1>4. Accounted'
  <2> SUFFICES ASSUME NEW x \in Things, x \in cloud PROVE x \in excused' \/ In(rows, x)
    BY <1>1 DEF Accounted, In
  <2>1. x \in excused \/ In(rows, x) \/ In(held, x)
    BY <1>1 DEF Ledger, Accounted
  <2>2. CASE excused' = excused \cup cloud
    BY <2>2
  <2>3. CASE /\ In(held, x) /\ ~In(rows, x) /\ sandbox
             /\ excused' = excused \cup Unseen(Named(held) \ Named(rows))
    <3>1. overlap
      BY <1>1, <2>3 DEF Ledger, Settled, TypeInv, PlainOK
    <3>2. x \in known => x \in excused
      BY <2>3 DEF Ledger, Backed
    <3>3. x \in Named(held) \ Named(rows)
      BY <1>2, <2>3
    <3> QED BY <2>3, <3>1, <3>2, <3>3 DEF Unseen
  <2> QED BY <1>1, <2>1, <2>2, <2>3
<1> QED BY <1>3, <1>4 DEF Ledger

LEMMA LossEndGuard == ASSUME TypeInv, Told, Ledger, EndGuard PROVE Ledger'
<1>1. /\ job = "running" /\ at > Len(Script) /\ ~Working /\ made = {} /\ ~Ended
      /\ UNCHANGED <<sandbox, rows, cloud, overlap>>
  <2>1. job = "running" /\ at > Len(Script) /\ UNCHANGED <<sandbox, rows, cloud, overlap>>
    BY DEF EndGuard
  <2>2. ~Working
    BY <2>1, ScriptFacts DEF Working, TypeInv, JobOK
  <2> QED BY <2>1, <2>2 DEF TypeInv, JobOK, Ended
<1>2. CASE job' = "finished"
  BY <1>2, LossEnd DEF EndGuard
<1>3. CASE /\ ~sandbox /\ job' = "sweeping" /\ sweeper' = "guard"
           /\ work' = Sweep(held) /\ known' = Named(held)
           /\ UNCHANGED <<held, made, excused>>
  <2>1. /\ \A x : x \in Named(held) <=> x \in Things /\ In(held, x)
        /\ \A x \in Named(held) : Occurs(Sweep(held), "delete", x)
    BY NamedThing, SweepOrdered DEF TypeInv
  <2>2. ~Ended' /\ \A x \in Things : ~In(rows, x)
    BY <1>3, ThingFacts DEF Ended, Ledger, Gone, In
  <2>3. Covered' /\ Fresh' /\ Settled' /\ Gone' /\ Backed'
    BY <1>1, <1>3, <2>2 DEF Ledger, Covered, Fresh, Settled, Gone, Backed, In
  <2>4. Accounted'
    BY <1>1, <1>3, <2>2 DEF Ledger, Accounted, In
  <2>5. Seen'
    <3>1. \A x \in cloud \cap Things : x \in known' \cup excused
      BY <1>1, <1>3, <2>1, <2>2 DEF Ledger, Accounted
    <3> QED BY <1>1, <1>3, <3>1 DEF Seen
  <2>6. Planned'
    <3> DEFINE W == Sweep(held)
    <3>1. \A x \in known' : Occurs(W, "delete", x)
      BY <1>3, <2>1
    <3>2. work' = W
      BY <1>3
    <3> HIDE DEF W
    <3> QED BY <3>1, <3>2 DEF Planned, Occurs
  <2> QED BY <2>3, <2>4, <2>5, <2>6 DEF Ledger
<1> QED BY <1>2, <1>3 DEF EndGuard

LEMMA LossJobCrash == ASSUME TypeInv, Told, Ledger, JobCrash PROVE Ledger'
<1>1. /\ job \in {"running", "sweeping"} /\ ~Ended /\ Ended' /\ job' = "failed"
      /\ excused' = excused \cup ((cloud \cap (Named(held) \cup made)) \ Named(rows))
      /\ sweeper' = IF sweeper = "guard" THEN "none" ELSE sweeper
      /\ work' = IF sweeper = "guard" THEN << >> ELSE work
      /\ UNCHANGED <<sandbox, rows, cloud, known, overlap>>
  BY DEF JobCrash, Ended
<1>2. /\ \A x : x \in Named(rows) <=> x \in Things /\ In(rows, x)
      /\ \A x : x \in Named(held) <=> x \in Things /\ In(held, x)
  BY NamedThing DEF TypeInv
<1>3. Covered' /\ Fresh' /\ Settled' /\ Gone'
  BY <1>1 DEF Ledger, Covered, Fresh, Settled, Gone
<1>4. Seen'
  BY <1>1 DEF Seen, Told
<1>5. Planned'
  BY <1>1 DEF Ledger, Planned, Occurs
<1>6. Backed'
  BY <1>1 DEF Ledger, Backed, In
<1>7. Accounted'
  BY <1>1, <1>2 DEF Ledger, Accounted, In
<1> QED BY <1>3, <1>4, <1>5, <1>6, <1>7 DEF Ledger

\* Steps that touch neither rows nor copies, and add at most peers.
LEMMA LossQuiet ==
    ASSUME Ledger, UNCHANGED <<sandbox, rows, held, made, at, job, known, overlap>>,
           excused \subseteq excused', \A x \in Things : x \in cloud' => x \in cloud
    PROVE  /\ Covered' /\ Fresh' /\ Settled' /\ Backed' /\ Accounted'
           /\ sweeper' = sweeper \/ sweeper' = "none" => Seen'
<1>1. Covered' /\ Fresh' /\ Settled'
  BY DEF Ledger, Covered, Fresh, Settled, In, Ended, Working, Now
<1>2. Backed' /\ Accounted'
  BY DEF Ledger, Backed, Accounted, In, Ended
<1>3. sweeper' = sweeper \/ sweeper' = "none" => Seen'
  BY DEF Ledger, Seen
<1> QED BY <1>1, <1>2, <1>3

LEMMA LossAside ==
    ASSUME TypeInv, Ledger, UserStage \/ TeardownCrash \/ \E o \in Owners : Register(o)
    PROVE  Ledger'
<1>1. /\ UNCHANGED <<sandbox, rows, held, made, at, job, known, overlap, excused>>
      /\ (UNCHANGED <<work, sweeper>>) \/ (sweeper' = "none" /\ work' = << >>)
  BY DEF UserStage, TeardownCrash, Register, provVars, sweepVars
<1>2. \A x \in Things : x \in cloud' => x \in cloud
  <2>1. cloud' = cloud \/ \E o \in Owners : cloud' = cloud \cup {Peer(o)}
    BY DEF UserStage, TeardownCrash, Register
  <2>2. \A o \in Owners : Peer(o) \notin Things
    BY ThingFacts, OwnObjects DEF Kind
  <2> QED BY <2>1, <2>2
<1>3. Covered' /\ Fresh' /\ Settled' /\ Backed' /\ Accounted' /\ Seen'
  BY <1>1, <1>2, LossQuiet
<1>4. Gone'
  BY <1>1 DEF Ledger, Gone
<1>5. Planned'
  BY <1>1, <1>2 DEF Ledger, Planned, Occurs
<1> QED BY <1>3, <1>4, <1>5 DEF Ledger

LEMMA LossTeardownStart ==
    ASSUME TypeInv, MadeOnce, Ledger, TeardownStart PROVE Ledger'
<1>1. /\ sandbox /\ sweeper' = "teardown" /\ overlap' = (overlap \/ ~Ended)
      /\ UNCHANGED <<sandbox, rows, cloud, job, at, held, made>>
      /\ \/ work' = Sweep(rows) /\ known' = Named(rows) /\ excused' = excused
         \/ work' = << >> /\ known' = {} /\ excused' = excused \cup Named(rows)
  BY DEF TeardownStart, provVars
<1>2. /\ \A x : x \in Named(rows) <=> x \in Things /\ In(rows, x)
      /\ \A x \in Named(rows) : Occurs(Sweep(rows), "delete", x)
  BY NamedThing, SweepOrdered DEF TypeInv
<1>3. Covered' /\ Gone' /\ Accounted'
  BY <1>1 DEF Ledger, Covered, Gone, Accounted, In, Ended
<1>4. Settled'
  <2>1. job = "running" => overlap'
    BY <1>1 DEF Ended
  <2> QED BY <1>1, <2>1 DEF Settled
<1>5. Fresh'
  <2>1. \A x \in known' : x \in Things /\ In(rows, x)
    BY <1>1, <1>2
  <2>2. job = "queued" => known' = {}
    BY <2>1, NothingYet
  <2>3. job = "running" => \A x \in known' : In(held, x)
    BY <2>1 DEF Ledger, Covered, Ended
  <2> QED BY <1>1, <2>2, <2>3 DEF Ledger, Fresh, In
<1>6. Seen'
  <2>1. ASSUME ~overlap', NEW x \in cloud \cap Things PROVE x \in known' \cup excused'
    <3>1. x \in excused \/ In(rows, x)
      BY <1>1, <2>1 DEF Ledger, Accounted
    <3> QED BY <1>1, <1>2, <3>1
  <2> QED BY <1>1, <2>1 DEF Seen
<1>7. Planned'
  <2> DEFINE W == Sweep(rows)
  <2>1. \A x \in Named(rows) : Occurs(W, "delete", x)
    BY <1>2
  <2>2. known' = {} \/ (known' = Named(rows) /\ work' = W)
    BY <1>1
  <2> HIDE DEF W
  <2> QED BY <2>1, <2>2 DEF Planned, Occurs
<1>8. Backed'
  BY <1>1, <1>2 DEF Backed, In
<1> QED BY <1>3, <1>4, <1>5, <1>6, <1>7, <1>8 DEF Ledger

LEMMA LossGiveUp == ASSUME TypeInv, Ledger, GiveUp PROVE Ledger'
<1>1. /\ work' = << >>
      /\ excused' = excused \cup
            {x \in cloud : \E i \in 1..Len(work) : OwnerOf(work[i].obj) = OwnerOf(x)}
      /\ UNCHANGED <<sandbox, rows, cloud, held, made, at, job, known, overlap, sweeper>>
  BY DEF GiveUp, provVars
<1>2. Covered' /\ Fresh' /\ Settled' /\ Backed' /\ Accounted' /\ Seen'
  BY <1>1, LossQuiet
<1>3. Gone'
  BY <1>1 DEF Ledger, Gone
<1>4. Planned'
  <2>1. ASSUME sweeper # "none", NEW x \in known \cap cloud \cap Things PROVE x \in excused'
    <3>1. x \in excused \/ Occurs(work, "delete", x)
      BY <2>1 DEF Ledger, Planned
    <3>2. Occurs(work, "delete", x) => \E i \in 1..Len(work) : OwnerOf(work[i].obj) = OwnerOf(x)
      BY DEF Occurs
    <3> QED BY <1>1, <3>1, <3>2
  <2> QED BY <1>1, <2>1 DEF Planned
<1> QED BY <1>2, <1>3, <1>4 DEF Ledger

\* A group is refused only for what is excused or was never seen: the others
\* that use it come before it.
LEMMA RefusedGroup ==
    ASSUME TypeInv, Told, Sorted(work), LossInv, work # << >>, Head(work).op = "delete"
    PROVE  Users(Head(work).obj) \subseteq excused \cup Unseen(cloud)
<1> DEFINE W == work
           V == Tail(W)
           x == Head(W).obj
<1> SUFFICES ASSUME NEW u \in Users(x), u \notin excused, u \notin Unseen(cloud) PROVE FALSE
  OBVIOUS
<1>1. u \in cloud /\ u[1] \in {"route", "policy", "dns"} /\ x \in Refs(u)
  BY DEF Users
<1>2. u \in Things /\ OwnerOf(u) \in Owners
  BY <1>1, ThingFacts DEF TypeInv, ObjectsOK
<1>3. W \in Seq(SweepStep)
  BY WorkSeq
<1>4. sweeper # "none"
  BY DEF LossInv, Ledger, Gone
<1>5. u \in known
  <2>1. CASE overlap
    BY <1>1, <2>1 DEF Unseen
  <2>2. CASE ~overlap
    <3>1. sweeper \in {"teardown", "guard"}
      BY <1>4 DEF TypeInv, PlainOK
    <3> QED BY <1>1, <1>2, <2>2, <3>1 DEF LossInv, Ledger, Seen
  <2> QED BY <2>1, <2>2 DEF TypeInv, PlainOK
<1>6. Occurs(W, "delete", u)
  BY <1>1, <1>2, <1>4, <1>5 DEF LossInv, Ledger, Planned
<1>7. /\ x = Group(OwnerOf(x)) /\ OwnerOf(x) \in Owners
      /\ x = Group(OwnerOf(u)) \/ (x = Group(Access) /\ OwnerOf(u) # Access)
  <2>1. \A o \in Owners : OwnerOf(Group(o)) = o
    BY OwnObjects
  <2>2. x = Group(OwnerOf(u)) \/ x = Group(Access)
    BY <1>1 DEF Refs
  <2>3. Access \in Owners
    BY DEF Owners
  <2> HIDE DEF x
  <2> QED BY <1>2, <2>1, <2>2, <2>3
<1>8. Rank(Head(W)) = 3 /\ Group(OwnerOf(x))[1] = "group"
  <2>1. Head(W) \in SweepStep
    BY <1>3, TailFacts
  <2> QED BY <1>7, <2>1, RankOf, OwnObjects
<1>9. PICK n \in 1..Len(V) : V[n].op = "delete" /\ V[n].obj = u
  <2>1. Occurs(V, "delete", u) \/ u = x
    BY <1>3, <1>6, TailFacts
  <2>2. u # x
    BY <1>1, <1>7, <1>8
  <2> QED BY <2>1, <2>2 DEF Occurs
<1>10. Rank(V[n]) = 0
  BY <1>1, <1>9 DEF Rank
<1>11. OwnerOf(x) # OwnerOf(u)
  <2>1. OwnerOf(V[n].obj) = OwnerOf(x) => Rank(Head(W)) <= Rank(V[n])
    BY <1>3, TailFacts
  <2> HIDE DEF x, V
  <2> QED BY <1>8, <1>9, <1>10, <2>1 DEF W
<1>12. OwnerOf(x) = Access /\ OwnerOf(u) # Access
  <2>1. /\ x = Group(OwnerOf(u)) => OwnerOf(x) = OwnerOf(u)
        /\ x = Group(Access) => OwnerOf(x) = Access
    BY <1>2, OwnObjects DEF Owners
  <2> HIDE DEF x
  <2> QED BY <1>7, <1>11, <2>1
<1>13. OwnerOf(V[n].obj) = Access
  BY <1>3, <1>12, AccessTail DEF LossInv
<1> QED BY <1>9, <1>12, <1>13

LEMMA LossDelete ==
    ASSUME TypeInv, Told, Sorted(work), LossInv, Delete PROVE Ledger'
<1> DEFINE y == Head(work).obj
<1>1. /\ work # << >> /\ Head(work).op = "delete" /\ work' = Tail(work)
      /\ cloud' \subseteq cloud /\ excused \subseteq excused'
      /\ UNCHANGED <<sandbox, rows, held, made, at, job, known, overlap, sweeper>>
  BY DEF Delete, Due, Next1, Fails, Answers, provVars
<1>2. Covered' /\ Fresh' /\ Settled' /\ Backed' /\ Accounted' /\ Seen'
  BY <1>1, LossQuiet DEF LossInv
<1>3. Gone'
  BY <1>1 DEF LossInv, Ledger, Gone
<1>4. y \notin cloud' \/ y \in excused'
  <2>1. Users(y) \subseteq excused \cup Unseen(cloud)
    BY <1>1, RefusedGroup
  <2> QED BY <1>1, <2>1 DEF Delete, Next1
<1>5. \A x : Occurs(work, "delete", x) <=> Occurs(Tail(work), "delete", x) \/ y = x
  BY <1>1, WorkSeq, TailFacts
<1>6. Planned'
  <2>1. ASSUME sweeper # "none", NEW x \in Things, x \in known, x \in cloud'
        PROVE  x \in excused' \/ Occurs(Tail(work), "delete", x)
    <3>1. x \in excused \/ Occurs(work, "delete", x)
      BY <1>1, <2>1 DEF LossInv, Ledger, Planned
    <3> HIDE DEF y
    <3> QED BY <1>1, <1>4, <1>5, <2>1, <3>1
  <2> QED BY <1>1, <2>1 DEF Planned, Occurs
<1> QED BY <1>2, <1>3, <1>6 DEF Ledger

LEMMA LossListPeers ==
    ASSUME TypeInv, Sorted(work), Listed(work), Ledger, ListPeers PROVE Ledger'
<1> DEFINE p == Head(work).obj
           V == DeleteIf(cloud, p) \o Tail(work)
<1>1. /\ work # << >> /\ Head(work).op = "peers" /\ (work' = V \/ work' = Tail(work))
      /\ cloud' = cloud /\ excused \subseteq excused'
      /\ UNCHANGED <<sandbox, rows, held, made, at, job, known, overlap, sweeper>>
  BY DEF ListPeers, Due, Next1, Fails, Answers, provVars
<1>2. Covered' /\ Fresh' /\ Settled' /\ Backed' /\ Accounted' /\ Seen'
  BY <1>1, LossQuiet
<1>3. Gone'
  BY <1>1 DEF Ledger, Gone
<1>4. ASSUME NEW x \in Things, Occurs(work, "delete", x)
      PROVE  Occurs(V, "delete", x) /\ Occurs(Tail(work), "delete", x)
  <2>1. x[1] # "peer"
    BY ThingFacts DEF Kind
  <2>2. Found(V, work, cloud, p)
    BY <1>1, WorkSeq, PeersFound
  <2>3. Occurs(V, "delete", x)
    BY <1>4, <2>1, <2>2 DEF Found
  <2>4. Occurs(Tail(work), "delete", x)
    <3>1. Occurs(work, "delete", x) <=>
              Occurs(Tail(work), "delete", x) \/ (Head(work).op = "delete" /\ Head(work).obj = x)
      BY <1>1, WorkSeq, TailFacts
    <3> QED BY <1>1, <1>4, <3>1
  <2> QED BY <2>3, <2>4
<1> HIDE DEF V
<1>5. Planned'
  <2>1. ASSUME sweeper # "none", NEW x \in Things, x \in known, x \in cloud
        PROVE  x \in excused' \/ Occurs(work, "delete", x)'
    <3>1. x \in excused \/ Occurs(work, "delete", x)
      BY <2>1 DEF Ledger, Planned
    <3>2. ASSUME Occurs(work, "delete", x) PROVE Occurs(work, "delete", x)'
      <4>1. Occurs(V, "delete", x) /\ Occurs(Tail(work), "delete", x)
        BY <1>4, <2>1, <3>2
      <4>2. CASE work' = V
        BY <4>1, <4>2 DEF Occurs
      <4>3. CASE work' = Tail(work)
        BY <4>1, <4>3 DEF Occurs
      <4> QED BY <1>1, <4>2, <4>3
    <3> QED BY <1>1, <3>1, <3>2
  <2> QED BY <1>1, <2>1 DEF Planned
<1> QED BY <1>2, <1>3, <1>5 DEF Ledger

LEMMA LossDeleteRow ==
    ASSUME TypeInv, Told, Sorted(work), Ledger, DeleteRow PROVE Ledger'
<1> DEFINE o == OwnerOf(Head(work).obj)
<1>1. /\ work # << >> /\ Head(work).op = "row" /\ work' = Tail(work)
      /\ rows' = [rows EXCEPT ![o] = NoRow]
      /\ excused' = IF Ended /\ rows[o] # NoRow THEN excused \cup Unseen(rows[o]) ELSE excused
      /\ UNCHANGED <<sandbox, cloud, held, made, at, job, known, overlap, sweeper>>
  BY DEF DeleteRow, Due, Next1, provVars
<1>2. rows = [p \in Owners |-> rows[p]] /\ sweeper # "none" /\ overlap \in BOOLEAN
  BY <1>1 DEF TypeInv, Copies, Ledger, Gone, PlainOK
<1>3. \A p \in Owners : rows'[p] = IF p = o THEN NoRow ELSE rows[p]
  BY <1>1, <1>2
<1>4. /\ \A x \in Things : In(rows', x) <=> In(rows, x) /\ OwnerOf(x) # o
      /\ excused \subseteq excused' /\ Ended' = Ended
  BY <1>1, <1>3, ThingFacts DEF In, Ended
\* What the teardown knows of and the row named is excused by now.
<1>5. ASSUME NEW x \in Things, x \in cloud, x \in known, OwnerOf(x) = o PROVE x \in excused
  <2>1. x \in excused \/ Occurs(work, "delete", x)
    BY <1>2, <1>5 DEF Ledger, Planned
  <2> QED BY <1>1, <1>5, <2>1, WorkSeq, RowLast
<1> HIDE DEF o
<1>6. Covered' /\ Gone' /\ Seen'
  <2>1. Covered'
    <3>1. ~Ended => \A x \in Things : In(rows', x) => In(held, x)
      BY <1>4 DEF Ledger, Covered
    <3> QED BY <1>1, <1>4, <3>1 DEF Covered, In
  <2>2. Gone'
    BY <1>1, <1>2, <1>3 DEF Ledger, Gone
  <2> QED BY <1>1, <1>4, <2>1, <2>2 DEF Ledger, Seen
<1>7. Fresh'
  <2>1. ASSUME job = "running", NEW n \in at..Len(Script), Script[n].op = "row"
        PROVE  rows'[OwnerOf(Script[n].obj)] = NoRow
    <3>1. n \in 1..Len(Script)
      BY <2>1, ScriptFacts DEF TypeInv, JobOK
    <3>2. OwnerOf(Script[n].obj) \in Owners /\ rows[OwnerOf(Script[n].obj)] = NoRow
      BY <2>1, <3>1, ScriptThings DEF Ledger, Fresh
    <3> QED BY <1>3, <3>2
  <2> QED BY <1>1, <2>1 DEF Ledger, Fresh, In
<1>8. Settled'
  <2>1. job = "running" => overlap
    BY <1>2 DEF Told, Ended
  <2> QED BY <1>1, <2>1 DEF Settled
<1>9. Planned'
  <2>1. \A x : Occurs(work, "delete", x) => Occurs(Tail(work), "delete", x)
    <3>1. \A x : Occurs(work, "delete", x) <=>
              Occurs(Tail(work), "delete", x) \/ (Head(work).op = "delete" /\ Head(work).obj = x)
      BY <1>1, WorkSeq, TailFacts
    <3> QED BY <1>1, <3>1
  <2>2. \A x \in known \cap cloud \cap Things : x \in excused' \/ Occurs(Tail(work), "delete", x)
    BY <1>2, <1>4, <2>1 DEF Ledger, Planned
  <2> QED BY <1>1, <2>2 DEF Planned, Occurs
<1>10. Backed'
  <2>1. sandbox => \A x \in known \cap cloud \cap Things : x \in excused' \/ In(rows', x)
    BY <1>4, <1>5 DEF Ledger, Backed
  <2> QED BY <1>1, <2>1 DEF Backed, In
<1>11. Accounted'
  <2>1. ASSUME NEW x \in Things, x \in cloud
        PROVE  x \in excused' \/ In(rows', x) \/ (~Ended /\ (In(held, x) \/ x \in made))
    <3>1. x \in excused \/ In(rows, x) \/ (~Ended /\ (In(held, x) \/ x \in made))
      BY <2>1 DEF Ledger, Accounted
    <3>2. CASE ~(In(rows, x) /\ OwnerOf(x) = o)
      BY <1>4, <3>1, <3>2
    <3>3. CASE In(rows, x) /\ OwnerOf(x) = o /\ ~Ended
      BY <3>3 DEF Ledger, Covered
    <3>4. CASE In(rows, x) /\ OwnerOf(x) = o /\ Ended
      <4>1. CASE x \in known
        BY <1>4, <1>5, <2>1, <3>4, <4>1
      <4>2. CASE x \notin known /\ overlap
        BY <1>1, <3>4, <4>2 DEF In, Unseen
      <4>3. CASE x \notin known /\ ~overlap
        <5>1. sweeper = "teardown"
          BY <1>2, <3>4 DEF Told, Ended, TypeInv, PlainOK
        <5>2. x \in excused
          BY <2>1, <4>3, <5>1 DEF Ledger, Seen
        <5> QED BY <1>4, <5>2
      <4> QED BY <1>2, <4>1, <4>2, <4>3
    <3> QED BY <3>2, <3>3, <3>4
  <2> QED BY <1>1, <1>4, <2>1 DEF Accounted, In
<1> QED BY <1>6, <1>7, <1>8, <1>9, <1>10, <1>11 DEF Ledger

LEMMA LossDeleteSandbox ==
    ASSUME TypeInv, Told, Ledger, DeleteSandbox PROVE Ledger'
<1>1. /\ sweeper = "teardown" /\ work = << >> /\ sandbox' = FALSE /\ sweeper' = "none"
      /\ rows' = [o \in Owners |-> NoRow]
      /\ excused' = IF Ended THEN excused \cup Unseen(Named(rows)) ELSE excused
      /\ UNCHANGED <<cloud, held, made, at, job, work, known, overlap>>
  BY DEF DeleteSandbox, provVars
<1>2. /\ \A o \in Owners : rows'[o] = NoRow
      /\ \A x \in Things : ~In(rows', x)
      /\ excused \subseteq excused' /\ Ended' = Ended /\ overlap \in BOOLEAN
  BY <1>1, ThingFacts DEF In, Ended, TypeInv, PlainOK
<1>3. Covered' /\ Gone' /\ Seen' /\ Planned' /\ Backed'
  <2>1. Covered'
    BY <1>2 DEF Covered, In
  <2>2. Gone'
    BY <1>1, <1>2 DEF Gone
  <2> QED BY <1>1, <2>1, <2>2 DEF Seen, Planned, Backed
<1>4. Fresh'
  <2>1. ASSUME job = "running", NEW n \in at..Len(Script)
        PROVE  rows'[OwnerOf(Script[n].obj)] = NoRow
    <3>1. n \in 1..Len(Script)
      BY <2>1, ScriptFacts DEF TypeInv, JobOK
    <3> QED BY <1>2, <3>1, ScriptThings
  <2> QED BY <1>1, <2>1 DEF Ledger, Fresh, In
<1>5. Settled'
  <2>1. job = "running" => overlap
    BY <1>1 DEF Told, Ended
  <2> QED BY <1>1, <2>1 DEF Settled
<1>6. Accounted'
  <2>1. ASSUME NEW x \in Things, x \in cloud
        PROVE  x \in excused' \/ (~Ended /\ (In(held, x) \/ x \in made))
    <3>1. x \in excused \/ In(rows, x) \/ (~Ended /\ (In(held, x) \/ x \in made))
      BY <2>1 DEF Ledger, Accounted
    <3>2. CASE In(rows, x) /\ ~Ended
      BY <3>2 DEF Ledger, Covered
    <3>3. CASE In(rows, x) /\ Ended
      <4>1. x \in known => x \in excused
        <5>1. ~Occurs(work, "delete", x)
          BY <1>1, SweepEmpty DEF Occurs, About
        <5> QED BY <1>1, <2>1, <5>1 DEF Ledger, Planned
      <4>2. overlap /\ x \notin known => x \in excused'
        <5>1. x \in Named(rows)
          BY <3>3, NamedThing DEF TypeInv
        <5> QED BY <1>1, <3>3, <5>1 DEF Unseen
      <4>3. ~overlap => x \in known \cup excused
        BY <1>1, <2>1 DEF Ledger, Seen
      <4> QED BY <1>2, <4>1, <4>2, <4>3
    <3> QED BY <1>2, <3>1, <3>2, <3>3
  <2> QED BY <1>1, <1>2, <2>1 DEF Accounted, In
<1> QED BY <1>3, <1>4, <1>5, <1>6 DEF Ledger

LEMMA LossGuardEnd == ASSUME TypeInv, Told, Ledger, GuardEnd PROVE Ledger'
<1>1. /\ sweeper = "guard" /\ work = << >> /\ sweeper' = "none" /\ job' = "finished"
      /\ UNCHANGED <<sandbox, rows, cloud, work, known, overlap, excused>>
  BY DEF GuardEnd
<1>2. Covered' /\ Fresh' /\ Settled' /\ Gone' /\ Seen' /\ Planned' /\ Backed'
  BY <1>1 DEF Ledger, Covered, Fresh, Settled, Gone, Seen, Planned, Backed, Ended, In
<1>3. Accounted'
  <2>1. ASSUME NEW x \in Things, x \in cloud PROVE x \in excused
    <3>1. x \in known \cup excused
      BY <1>1, <2>1 DEF Ledger, Seen
    <3>2. ~Occurs(work, "delete", x)
      BY <1>1, SweepEmpty DEF Occurs, About
    <3> QED BY <1>1, <2>1, <3>1, <3>2 DEF Ledger, Planned
  <2> QED BY <1>1, <2>1 DEF Accounted
<1> QED BY <1>2, <1>3 DEF Ledger

LEMMA LossStep == TypeInv /\ TypeInv' /\ PeerInv /\ LossInv /\ [Next]_vars => LossInv'
<1> SUFFICES ASSUME TypeInv, TypeInv', PeerInv, LossInv, [Next]_vars PROVE LossInv'
  OBVIOUS
<1>1. Told /\ MadeOnce /\ Sorted(work) /\ Listed(work) /\ Ledger
  BY DEF PeerInv, LossInv
<1>2. CASE Next
  <2>1. AccessLast(work')
    BY <1>2, AccessStep DEF LossInv
  <2>2. ASSUME JobStart \/ EndGuard \/ JobCrash PROVE Ledger'
    BY <1>1, <2>2, LossJobStart, LossEndGuard, LossJobCrash
  <2>3. ASSUME GetOrCreateRow \/ Create \/ Save PROVE Ledger'
    BY <1>1, <2>3, LossWork
  <2>4. ASSUME UserStage \/ TeardownCrash \/ \E o \in Owners : Register(o) PROVE Ledger'
    BY <1>1, <2>4, LossAside
  <2>5. ASSUME TeardownStart \/ GiveUp \/ DeleteRow PROVE Ledger'
    BY <1>1, <2>5, LossTeardownStart, LossGiveUp, LossDeleteRow
  <2>6. ASSUME Delete \/ ListPeers PROVE Ledger'
    BY <1>1, <2>6, LossDelete, LossListPeers
  <2>7. ASSUME DeleteSandbox \/ GuardEnd PROVE Ledger'
    BY <1>1, <2>7, LossDeleteSandbox, LossGuardEnd
  <2>8. Ledger'
    BY <1>2, <2>2, <2>3, <2>4, <2>5, <2>6, <2>7 DEF Next, Provision, Teardown
  <2> QED BY <2>1, <2>8 DEF LossInv, AccessLast
<1>3. CASE UNCHANGED vars
  <2>1. /\ UNCHANGED <<sandbox, rows, cloud, held, made, at, job, known, overlap, excused>>
        /\ UNCHANGED <<work, sweeper>>
    BY <1>3 DEF vars, provVars, sweepVars
  <2>2. Covered' /\ Fresh' /\ Settled' /\ Backed' /\ Accounted' /\ Seen'
    BY <1>1, <2>1, LossQuiet
  <2>3. Gone' /\ Planned' /\ AccessLast(work)'
    BY <1>1, <2>1 DEF Ledger, Gone, Planned, Occurs, LossInv, AccessLast
  <2> QED BY <2>2, <2>3 DEF LossInv, Ledger
<1> QED BY <1>2, <1>3

LEMMA LossInit == Init => LossInv
<1> SUFFICES ASSUME Init PROVE LossInv
  OBVIOUS
<1>1. /\ cloud = {} /\ known = {} /\ work = << >> /\ sweeper = "none" /\ sandbox /\ job = "queued"
      /\ \A o \in Owners : rows[o] = NoRow /\ held[o] = NoRow
  BY DEF Init
<1>2. AccessLast(work)
  <2>1. \A n \in 1..Len(work) : FALSE
    BY <1>1
  <2> QED BY <2>1 DEF AccessLast
<1>3. \A x \in Things : ~In(rows, x)
  BY <1>1, ThingFacts DEF In
<1>4. Ledger
  BY <1>1, <1>3 DEF Ledger, Covered, Fresh, Settled, Gone, Seen, Planned, Backed, Accounted
<1> QED BY <1>2, <1>4 DEF LossInv

\* Nothing that was made for a sandbox stays on the server with no row, no job
\* and no teardown to delete it, unless it has a named cause: for any number of
\* entrypoints, routes and faults, and however teardowns, the death of processes
\* and the provisioning job interleave.
THEOREM NothingTheorem == Spec => []NothingLost
<1>1. TypeInv /\ LossInv => NothingLost
  BY LossIs DEF LossInv, Ledger
<1>2. TypeInv /\ PeerInv /\ LossInv /\ [Next]_vars => TypeInv' /\ PeerInv' /\ LossInv'
  BY TypeStep, PeerStep, LossStep
<1>3. Init => TypeInv /\ PeerInv /\ LossInv
  BY TypeInit, PeerInit, LossInit
<1> QED BY <1>1, <1>2, <1>3, PTL DEF Spec
=============================================================================
