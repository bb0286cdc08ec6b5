---------------------------- MODULE KernelProofs ----------------------------
(***************************************************************************)
(* What the functions of kernel.c do to a kernel state that satisfies the  *)
(* invariant KernelOK, for any number of threads and wait queues.  A lemma *)
(* is about one function of the code, and takes the functions it calls     *)
(* from their lemmas.  First come the lists it is built on, for any number *)
(* of nodes: the circular lists of dlist.c, the order of the threads in a  *)
(* wait queue, the lists of items with a timeout, and the singly linked    *)
(* lists of slist.c.                                                       *)
(***************************************************************************)
EXTENDS Kernel, FiniteSetTheorems, SequenceTheorems, WellFoundedInduction, TLAPS

-------------------------------------------------------------------------------
(* Circular lists: insertion adds one node to a list, removal takes one away, *)
(* and lists that share no node with the list operated on are left alone      *)

\* A ring only depends on the pointers of its own nodes.
LEMMA RingFrame ==
  ASSUME NEW d, NEW e, NEW S, Ring(d, S),
         \A x \in S : e.next[x] = d.next[x] /\ e.prev[x] = d.prev[x]
  PROVE  Ring(e, S)
<1>1. \A x \in S : /\ e.next[x] \in S
                   /\ e.prev[x] \in S
                   /\ e.prev[e.next[x]] = x
                   /\ e.next[e.prev[x]] = x
  BY DEF Ring
<1>2. ASSUME NEW T \in SUBSET S, T # {}, \A x \in T : e.next[x] \in T
      PROVE  T = S
  <2>1. \A x \in T : d.next[x] \in T
    BY Zenon, <1>2
  <2> QED BY Zenon, <1>2, <2>1 DEF Ring
<1> QED BY Zenon, <1>1, <1>2 DEF Ring

\* dlist_init makes its node a list of one node and writes no other node.
LEMMA InitPointers ==
  ASSUME NEW N, NEW d \in Structures(N), NEW n \in N
  PROVE  LET e == dlist_init(d, n)
         IN  /\ e \in Structures(N)
             /\ Ring(e, {n})
             /\ \A x \in N \ {n} : e.next[x] = d.next[x] /\ e.prev[x] = d.prev[x]
<1> DEFINE e == dlist_init(d, n)
<1>1. /\ e \in Structures(N)
      /\ e.next[n] = n /\ e.prev[n] = n
      /\ \A x \in N \ {n} : e.next[x] = d.next[x] /\ e.prev[x] = d.prev[x]
  BY ZenonT(30) DEF Structures, dlist_init, SetNext, SetPrev
<1>2. Ring(e, {n})
  <2> HIDE DEF e
  <2> QED BY <1>1 DEF Ring
<1> QED BY Zenon, <1>1, <1>2

\* The pointers after dlist_prepend of a node that is not in the ring of the list.
LEMMA PrependPointers ==
  ASSUME NEW N, NEW d \in Structures(N), NEW l \in N, NEW n \in N, n # l,
         d.next[l] # n
  PROVE  LET e == dlist_prepend(d, l, n)
             h == d.next[l]
         IN  /\ e \in Structures(N)
             /\ e.next = [d.next EXCEPT ![n] = h, ![l] = n]
             /\ e.prev = [d.prev EXCEPT ![n] = l, ![h] = n]
  BY ZenonT(30) DEF Structures, dlist_prepend, SetNext, SetPrev

\* ... after dlist_append ...
LEMMA AppendPointers ==
  ASSUME NEW N, NEW d \in Structures(N), NEW l \in N, NEW n \in N, n # l,
         d.prev[l] # n
  PROVE  LET e == dlist_append(d, l, n)
             p == d.prev[l]
         IN  /\ e \in Structures(N)
             /\ e.next = [d.next EXCEPT ![p] = n, ![n] = l]
             /\ e.prev = [d.prev EXCEPT ![n] = p, ![l] = n]
  BY ZenonT(30) DEF Structures, dlist_append, SetNext, SetPrev

\* ... and after dlist_remove.
LEMMA RemovePointers ==
  ASSUME NEW N, NEW d \in Structures(N), NEW n \in N
  PROVE  LET e == dlist_remove(d, n)
         IN  /\ e \in Structures(N)
             /\ e.next = [d.next EXCEPT ![d.prev[n]] = d.next[n]]
             /\ e.prev = [d.prev EXCEPT ![d.next[n]] = d.prev[n]]
  BY ZenonT(30) DEF Structures, dlist_remove, SetNext, SetPrev

\* A node linked in between two neighbours of a ring makes a ring with them;
\* insertion at the head and at the tail are two cases of it.
LEMMA RingInsert ==
  ASSUME NEW N, NEW d \in Structures(N), NEW e \in Structures(N),
         NEW S \in SUBSET N, Ring(d, S),
         NEW p \in S, NEW n \in N \ S,
         e.next = [d.next EXCEPT ![p] = n, ![n] = d.next[p]],
         e.prev = [d.prev EXCEPT ![n] = p, ![d.next[p]] = n]
  PROVE  Ring(e, S \cup {n})
<1> DEFINE q == d.next[p]
<1>0. q \in S /\ n # p /\ n # q /\ d.prev[q] = p
  BY DEF Ring
<1>1. /\ e.next[p] = n /\ e.next[n] = q
      /\ e.prev[n] = p /\ e.prev[q] = n
      /\ \A x \in S \ {p} : e.next[x] = d.next[x]
      /\ \A x \in S \ {q} : e.prev[x] = d.prev[x]
  BY <1>0 DEF Structures
<1>2. ASSUME NEW x \in S \cup {n}
      PROVE  /\ e.next[x] \in S \cup {n}
             /\ e.prev[x] \in S \cup {n}
             /\ e.prev[e.next[x]] = x
             /\ e.next[e.prev[x]] = x
  <2>1. CASE x = n
    BY Zenon, <1>0, <1>1, <2>1
  <2>2. CASE x \in S
    <3>1. e.next[x] \in S \cup {n} /\ e.prev[e.next[x]] = x
      <4>1. CASE x = p
        BY Zenon, <1>0, <1>1, <4>1
      <4>2. CASE x # p
        <5>1. d.next[x] \in S /\ d.next[x] # q
          BY Zenon, <1>0, <2>2, <4>2 DEF Ring
        <5> QED BY <1>1, <2>2, <4>2, <5>1 DEF Ring
      <4> QED BY Zenon, <4>1, <4>2
    <3>2. e.prev[x] \in S \cup {n} /\ e.next[e.prev[x]] = x
      <4>1. CASE x = q
        BY Zenon, <1>0, <1>1, <4>1
      <4>2. CASE x # q
        <5>1. d.prev[x] \in S /\ d.prev[x] # p
          BY Zenon, <1>0, <2>2, <4>2 DEF Ring
        <5> QED BY <1>1, <2>2, <4>2, <5>1 DEF Ring
      <4> QED BY Zenon, <4>1, <4>2
    <3> QED BY Zenon, <3>1, <3>2
  <2> QED BY Zenon, <2>1, <2>2
<1>3. ASSUME NEW T \in SUBSET (S \cup {n}), T # {}, \A x \in T : e.next[x] \in T
      PROVE  T = S \cup {n}
  <2> DEFINE U == T \ {n}
  <2>1. U \in SUBSET S /\ U # {}
    BY Zenon, <1>0, <1>1, <1>3
  <2>2. \A x \in U : d.next[x] \in U
    <3> SUFFICES ASSUME NEW x \in U PROVE d.next[x] \in U
      BY Zenon
    <3>1. x \in S /\ d.next[x] \in S
      BY Zenon, <2>1 DEF Ring
    <3>2. CASE x = p
      BY Zenon, <1>0, <1>1, <1>3, <3>2
    <3>3. CASE x # p
      BY Zenon, <1>1, <1>3, <3>1, <3>3
    <3> QED BY Zenon, <3>2, <3>3
  <2>3. U = S
    BY ZenonT(30), <2>1, <2>2 DEF Ring
  <2>4. n \in T
    BY <1>1, <1>3, <2>3
  <2> QED BY Zenon, <2>3, <2>4
<1> QED
  <2> HIDE DEF q
  <2> QED BY ZenonT(30), <1>2, <1>3 DEF Ring

\* dlist_prepend adds a node to the list and writes no node of another list.
LEMMA RingPrepend ==
  ASSUME NEW N, NEW d \in Structures(N), NEW S \in SUBSET N, Ring(d, S),
         NEW l \in S, NEW n \in N \ S
  PROVE  LET e == dlist_prepend(d, l, n)
         IN  /\ e \in Structures(N)
             /\ Ring(e, S \cup {n})
             /\ \A x \in N \ (S \cup {n}) :
                  e.next[x] = d.next[x] /\ e.prev[x] = d.prev[x]
<1> DEFINE e == dlist_prepend(d, l, n)
<1>1. l \in N /\ d.next[l] \in S /\ d.next[l] # n /\ n # l
  BY Zenon DEF Ring
<1>2. /\ e \in Structures(N)
      /\ e.next = [d.next EXCEPT ![n] = d.next[l], ![l] = n]
      /\ e.prev = [d.prev EXCEPT ![n] = l, ![d.next[l]] = n]
  BY SMTT(30), <1>1, PrependPointers
<1> HIDE DEF e
<1>3. e.next = [d.next EXCEPT ![l] = n, ![n] = d.next[l]]
  BY Zenon, <1>1, <1>2 DEF Structures
<1>4. Ring(e, S \cup {n})
  BY Zenon, <1>2, <1>3, RingInsert
<1>5. \A x \in N \ (S \cup {n}) : e.next[x] = d.next[x] /\ e.prev[x] = d.prev[x]
  BY <1>1, <1>2 DEF Structures
<1> QED BY Zenon, <1>2, <1>4, <1>5 DEF e

\* dlist_append does too.
LEMMA RingAppend ==
  ASSUME NEW N, NEW d \in Structures(N), NEW S \in SUBSET N, Ring(d, S),
         NEW l \in S, NEW n \in N \ S
  PROVE  LET e == dlist_append(d, l, n)
         IN  /\ e \in Structures(N)
             /\ Ring(e, S \cup {n})
             /\ \A x \in N \ (S \cup {n}) :
                  e.next[x] = d.next[x] /\ e.prev[x] = d.prev[x]
<1> DEFINE e == dlist_append(d, l, n)
           p == d.prev[l]
<1>1. l \in N /\ p \in S /\ p # n /\ n # l /\ d.next[p] = l
  BY Zenon DEF Ring
<1>2. /\ e \in Structures(N)
      /\ e.next = [d.next EXCEPT ![p] = n, ![n] = l]
      /\ e.prev = [d.prev EXCEPT ![n] = p, ![l] = n]
  BY <1>1, AppendPointers
<1> HIDE DEF e, p
<1>4. Ring(e, S \cup {n})
  BY Zenon, <1>1, <1>2, RingInsert
<1>5. \A x \in N \ (S \cup {n}) : e.next[x] = d.next[x] /\ e.prev[x] = d.prev[x]
  BY <1>1, <1>2 DEF Structures
<1> QED BY Zenon, <1>2, <1>4, <1>5 DEF e

\* dlist_remove takes a node out of its list, down to the empty list, and writes
\* no node of another list.  The node keeps its pointers.
LEMMA RingRemove ==
  ASSUME NEW N, NEW d \in Structures(N), NEW S \in SUBSET N, Ring(d, S),
         NEW n \in S
  PROVE  LET e == dlist_remove(d, n)
         IN  /\ e \in Structures(N)
             /\ Ring(e, S \ {n})
             /\ e.next[n] = d.next[n]
             /\ S # {n} => e.prev[d.next[n]] \in S \ {n}
             /\ \A x \in N \ S : e.next[x] = d.next[x] /\ e.prev[x] = d.prev[x]
<1> DEFINE e == dlist_remove(d, n)
           p == d.prev[n]
           q == d.next[n]
<1>0. /\ n \in N /\ p \in S /\ q \in S /\ p \in N /\ q \in N
      /\ d.next[p] = n /\ d.prev[q] = n
  BY Zenon DEF Ring
<1>1. /\ e \in Structures(N)
      /\ e.next = [d.next EXCEPT ![p] = q]
      /\ e.prev = [d.prev EXCEPT ![q] = p]
  BY <1>0, RemovePointers
<1> HIDE DEF e
<1>2. (p = n \/ q = n) => S = {n}
  <2>1. (p = n \/ q = n) => q = n
    BY Zenon, <1>0
  <2>2. ASSUME q = n PROVE S = {n}
    <3>1. {n} \in SUBSET S /\ {n} # {} /\ \A x \in {n} : d.next[x] \in {n}
      BY Zenon, <2>2
    <3> QED BY ZenonT(30), <3>1 DEF Ring
  <2> QED BY Zenon, <2>1, <2>2
<1>3. /\ \A x \in N \ {p} : e.next[x] = d.next[x]
      /\ \A x \in N \ {q} : e.prev[x] = d.prev[x]
      /\ e.next[p] = q /\ e.prev[q] = p
  BY <1>0, <1>1 DEF Structures
<1>4. \A x \in N \ S : e.next[x] = d.next[x] /\ e.prev[x] = d.prev[x]
  BY Zenon, <1>0, <1>3
<1>5. e.next[n] = d.next[n]
  BY Zenon, <1>0, <1>3
<1>6. CASE S = {n}
  BY Zenon, <1>1, <1>4, <1>5, <1>6 DEF Ring, e
<1>7. CASE S # {n}
  <2>0. p # n /\ q # n
    BY Zenon, <1>2, <1>7
  <2>1. ASSUME NEW x \in S \ {n}
        PROVE  /\ e.next[x] \in S \ {n} /\ e.prev[e.next[x]] = x
               /\ e.prev[x] \in S \ {n} /\ e.next[e.prev[x]] = x
    <3>1. e.next[x] \in S \ {n} /\ e.prev[e.next[x]] = x
      <4>1. CASE x = p
        BY Zenon, <1>0, <1>3, <2>0, <4>1
      <4>2. CASE x # p
        <5>1. d.next[x] \in S \ {n} /\ d.next[x] # q /\ d.prev[d.next[x]] = x
          BY Zenon, <1>0, <2>1, <4>2 DEF Ring
        <5> QED BY Zenon, <1>3, <2>1, <4>2, <5>1
      <4> QED BY Zenon, <4>1, <4>2
    <3>2. e.prev[x] \in S \ {n} /\ e.next[e.prev[x]] = x
      <4>1. CASE x = q
        BY Zenon, <1>0, <1>3, <2>0, <4>1
      <4>2. CASE x # q
        <5>1. d.prev[x] \in S \ {n} /\ d.prev[x] # p /\ d.next[d.prev[x]] = x
          BY Zenon, <1>0, <2>1, <4>2 DEF Ring
        <5> QED BY Zenon, <1>3, <2>1, <4>2, <5>1
      <4> QED BY Zenon, <4>1, <4>2
    <3> QED BY Zenon, <3>1, <3>2
  <2>2. ASSUME NEW T \in SUBSET (S \ {n}), T # {}, \A x \in T : e.next[x] \in T
        PROVE  T = S \ {n}
    <3> DEFINE U == IF p \in T THEN T \cup {n} ELSE T
    <3>1. U \in SUBSET S /\ U # {}
      BY Zenon, <2>2
    <3>2. \A x \in U : d.next[x] \in U
      <4> SUFFICES ASSUME NEW x \in U PROVE d.next[x] \in U
        BY Zenon
      <4>1. CASE x = n
        BY Zenon, <1>3, <2>2, <4>1
      <4>2. CASE x = p
        BY Zenon, <1>0, <2>0, <2>2, <4>2
      <4>3. CASE x # n /\ x # p
        <5>1. x \in T /\ x \in N
          BY Zenon, <4>3
        <5> QED BY Zenon, <1>3, <2>2, <4>3, <5>1
      <4> QED BY Zenon, <4>1, <4>2, <4>3
    <3>3. U = S
      BY Zenon, <3>1, <3>2 DEF Ring
    <3> QED BY Zenon, <2>2, <3>3
  <2>3. Ring(e, S \ {n})
    <3> HIDE DEF p, q
    <3> QED BY Zenon, <2>1, <2>2 DEF Ring
  <2> QED BY Zenon, <1>0, <1>1, <1>3, <1>4, <1>5, <2>0, <2>3 DEF e
<1> QED BY Zenon, <1>6, <1>7

\* A node outside every list: both pointers NULL as DITEM_INIT leaves them, or
\* both to the node itself as dlist_init leaves them.
LEMMA RemoveUnlinked ==
  ASSUME NEW N, NEW d \in Structures(N), NEW n \in N,
         d.next[n] = d.prev[n]
  PROVE  LET e == dlist_remove(d, n)
         IN  /\ e \in Structures(N)
             /\ \A x \in N \ {d.next[n]} :
                  e.next[x] = d.next[x] /\ e.prev[x] = d.prev[x]
             /\ e.next[d.next[n]] = d.next[n] /\ e.prev[d.next[n]] = d.next[n]
  BY ZenonT(30) DEF Structures, dlist_remove, SetNext, SetPrev

-------------------------------------------------------------------------------
(* Sequences: an element inserted, removed or appended *)

LEMMA ElementType ==
  ASSUME NEW E, NEW s \in Seq(E), NEW i \in DOMAIN s
  PROVE  s[i] \in E
OBVIOUS

\* A list with an element inserted, or removed.
Inserted(s, p, e) == SubSeq(s, 1, p - 1) \o <<e>> \o SubSeq(s, p, Len(s))
Removed(s, p) == SubSeq(s, 1, p - 1) \o SubSeq(s, p + 1, Len(s))

\* The elements of a list with an element inserted ...
LEMMA InsertElements ==
  ASSUME NEW E, NEW s \in Seq(E), NEW e \in E, NEW p \in 1 .. Len(s) + 1
  PROVE  LET r == Inserted(s, p, e)
         IN  /\ r \in Seq(E)
             /\ Len(r) = Len(s) + 1
             /\ r[p] = e
             /\ \A i \in 1 .. Len(s) + 1 :
                  /\ i < p => r[i] = s[i]
                  /\ i > p => r[i] = s[i - 1]
<1> DEFINE A == SubSeq(s, 1, p - 1)
           B == <<e>>
           C == SubSeq(s, p, Len(s))
<1>1. Len(s) \in Nat /\ p \in Int /\ p - 1 \in Int /\ \A i \in 1 .. Len(s) : s[i] \in E
  OBVIOUS
<1>2. /\ A \in Seq(E)
      /\ Len(A) = p - 1
      /\ \A i \in 1 .. p - 1 : A[i] = s[i]
  <2>1. \A i \in 1 .. p - 1 : s[i] \in E
    BY <1>1
  <2>2. /\ A \in Seq(E)
        /\ Len(A) = IF 1 <= p - 1 THEN (p - 1) - 1 + 1 ELSE 0
        /\ \A i \in 1 .. (p - 1) - 1 + 1 : A[i] = s[1 + i - 1]
    BY <1>1, <2>1, SubSeqProperties
  <2> QED
    <3> HIDE DEF A
    <3>1. \A i \in 1 .. p - 1 : 1 + i - 1 = i /\ i \in 1 .. (p - 1) - 1 + 1
      BY <1>1
    <3>2. Len(A) = p - 1
      BY <1>1, <2>2
    <3> QED BY Zenon, <2>2, <3>1, <3>2
<1>3. /\ C \in Seq(E)
      /\ Len(C) = Len(s) - p + 1
      /\ \A i \in 1 .. Len(s) - p + 1 : C[i] = s[p + i - 1]
  <2>1. \A i \in p .. Len(s) : s[i] \in E
    BY <1>1
  <2>2. /\ C \in Seq(E)
        /\ Len(C) = IF p <= Len(s) THEN Len(s) - p + 1 ELSE 0
        /\ \A i \in 1 .. Len(s) - p + 1 : C[i] = s[p + i - 1]
    BY <1>1, <2>1, SubSeqProperties
  <2> QED
    <3> HIDE DEF C
    <3> QED BY <1>1, <2>2
<1>4. B \in Seq(E) /\ Len(B) = 1 /\ B[1] = e
  OBVIOUS
<1> HIDE DEF A, B, C
<1>5. /\ A \o B \in Seq(E)
      /\ Len(A \o B) = p
      /\ \A i \in 1 .. p : (A \o B)[i] = IF i < p THEN s[i] ELSE e
  <2>1. /\ A \o B \in Seq(E)
        /\ Len(A \o B) = Len(A) + Len(B)
        /\ \A i \in 1 .. Len(A) + Len(B) :
             (A \o B)[i] = IF i <= Len(A) THEN A[i] ELSE B[i - Len(A)]
    BY ZenonT(30), <1>2, <1>4, ConcatProperties
  <2> QED BY <1>1, <1>2, <1>4, <2>1
<1> DEFINE D == A \o B
<1>6. /\ D \o C \in Seq(E)
      /\ Len(D \o C) = Len(D) + Len(C)
      /\ \A i \in 1 .. Len(D) + Len(C) :
           (D \o C)[i] = IF i <= Len(D) THEN D[i] ELSE C[i - Len(D)]
  <2>1. D \in Seq(E)
    BY Zenon, <1>5
  <2> HIDE DEF D
  <2> QED BY ZenonT(30), <1>3, <2>1, ConcatProperties
<1>7. Inserted(s, p, e) = D \o C
  BY Zenon DEF Inserted, A, B, C
<1>8. Len(D) = p /\ \A i \in 1 .. p : D[i] = IF i < p THEN s[i] ELSE e
  BY Zenon, <1>5
<1> HIDE DEF D
<1>9. Len(D \o C) = Len(s) + 1
  BY <1>1, <1>3, <1>6, <1>8
<1>10. ASSUME NEW i \in 1 .. Len(s) + 1
       PROVE  /\ i < p => (D \o C)[i] = s[i]
              /\ i = p => (D \o C)[i] = e
              /\ i > p => (D \o C)[i] = s[i - 1]
  <2>1. CASE i <= p
    BY <1>1, <1>3, <1>6, <1>8, <2>1
  <2>2. CASE i > p
    <3>1. (D \o C)[i] = C[i - p] /\ i - p \in 1 .. Len(s) - p + 1
      BY <1>1, <1>3, <1>6, <1>8, <2>2
    <3>2. C[i - p] = s[p + (i - p) - 1] /\ p + (i - p) - 1 = i - 1
      BY <1>1, <1>3, <3>1
    <3> QED BY SMTT(30), <1>1, <2>2, <3>1, <3>2
  <2>3. i <= p \/ i > p
    BY <1>1
  <2> QED BY ZenonT(30), <2>1, <2>2, <2>3
<1>11. p \in 1 .. Len(s) + 1
  BY Zenon
<1> QED BY Zenon, <1>6, <1>7, <1>9, <1>10, <1>11

\* ... and with an element removed.
LEMMA RemoveElements ==
  ASSUME NEW E, NEW s \in Seq(E), NEW p \in 1 .. Len(s)
  PROVE  LET r == Removed(s, p)
         IN  /\ r \in Seq(E)
             /\ Len(r) = Len(s) - 1
             /\ \A i \in 1 .. Len(s) - 1 :
                  r[i] = IF i < p THEN s[i] ELSE s[i + 1]
<1> DEFINE A == SubSeq(s, 1, p - 1)
           C == SubSeq(s, p + 1, Len(s))
<1>1. Len(s) \in Nat /\ p \in Int /\ p - 1 \in Int /\ p + 1 \in Int
      /\ \A i \in 1 .. Len(s) : s[i] \in E
  OBVIOUS
<1>2. /\ A \in Seq(E)
      /\ Len(A) = p - 1
      /\ \A i \in 1 .. p - 1 : A[i] = s[i]
  <2>1. \A i \in 1 .. p - 1 : s[i] \in E
    BY <1>1
  <2>2. /\ A \in Seq(E)
        /\ Len(A) = IF 1 <= p - 1 THEN (p - 1) - 1 + 1 ELSE 0
        /\ \A i \in 1 .. (p - 1) - 1 + 1 : A[i] = s[1 + i - 1]
    BY <1>1, <2>1, SubSeqProperties
  <2> QED
    <3> HIDE DEF A
    <3>1. \A i \in 1 .. p - 1 : 1 + i - 1 = i /\ i \in 1 .. (p - 1) - 1 + 1
      BY <1>1
    <3>2. Len(A) = p - 1
      BY <1>1, <2>2
    <3> QED BY Zenon, <2>2, <3>1, <3>2
<1>3. /\ C \in Seq(E)
      /\ Len(C) = Len(s) - p
      /\ \A i \in 1 .. Len(s) - p : C[i] = s[p + i]
  <2>1. \A i \in p + 1 .. Len(s) : s[i] \in E
    BY <1>1
  <2>2. /\ C \in Seq(E)
        /\ Len(C) = IF p + 1 <= Len(s) THEN Len(s) - (p + 1) + 1 ELSE 0
        /\ \A i \in 1 .. Len(s) - (p + 1) + 1 : C[i] = s[(p + 1) + i - 1]
    BY <1>1, <2>1, SubSeqProperties
  <2> QED
    <3> HIDE DEF C
    <3> QED BY <1>1, <2>2
<1> HIDE DEF A, C
<1>4. /\ A \o C \in Seq(E)
      /\ Len(A \o C) = Len(A) + Len(C)
      /\ \A i \in 1 .. Len(A) + Len(C) :
           (A \o C)[i] = IF i <= Len(A) THEN A[i] ELSE C[i - Len(A)]
  BY ZenonT(30), <1>2, <1>3, ConcatProperties
<1>5. Removed(s, p) = A \o C
  BY Zenon DEF Removed, A, C
<1>6. Len(A \o C) = Len(s) - 1
  BY <1>1, <1>2, <1>3, <1>4
<1>7. ASSUME NEW i \in 1 .. Len(s) - 1
      PROVE  (A \o C)[i] = IF i < p THEN s[i] ELSE s[i + 1]
  <2>1. CASE i < p
    BY <1>1, <1>2, <1>3, <1>4, <2>1
  <2>2. CASE i >= p
    <3>1. (A \o C)[i] = C[i - (p - 1)] /\ i - (p - 1) \in 1 .. Len(s) - p
      BY <1>1, <1>2, <1>3, <1>4, <2>2
    <3>2. C[i - (p - 1)] = s[p + (i - (p - 1))] /\ p + (i - (p - 1)) = i + 1
      BY <1>1, <1>3, <3>1
    <3> QED BY <1>1, <2>2, <3>1, <3>2
  <2>3. i < p \/ i >= p
    BY <1>1
  <2> QED BY ZenonT(30), <2>1, <2>2, <2>3
<1> QED BY Zenon, <1>4, <1>5, <1>6, <1>7

\* The members of a sequence.
Elems(s) == {s[i] : i \in 1 .. Len(s)}

LEMMA ElemsAppend ==
  ASSUME NEW N, NEW s \in Seq(N), NEW n \in N
  PROVE  Elems(Append(s, n)) = Elems(s) \cup {n}
<1> DEFINE a == Append(s, n)
<1>1. /\ Len(s) \in Nat /\ Len(a) = Len(s) + 1 /\ a[Len(s) + 1] = n
      /\ \A i \in 1 .. Len(s) : a[i] = s[i]
  OBVIOUS
<1> HIDE DEF a
<1>2. ASSUME NEW x PROVE x \in Elems(a) <=> x \in Elems(s) \cup {n}
  <2>1. ASSUME NEW i \in 1 .. Len(a), x = a[i] PROVE x \in Elems(s) \cup {n}
    <3>1. CASE i = Len(s) + 1
      BY Zenon, <1>1, <2>1, <3>1
    <3>2. CASE i # Len(s) + 1
      <4>1. i \in 1 .. Len(s) /\ x = s[i]
        BY <1>1, <2>1, <3>2
      <4> QED BY Zenon, <4>1 DEF Elems
    <3> QED BY Zenon, <3>1, <3>2
  <2>2. ASSUME NEW i \in 1 .. Len(s), x = s[i] PROVE x \in Elems(a)
    <3>1. i \in 1 .. Len(a) /\ x = a[i]
      BY <1>1, <2>2
    <3> QED BY Zenon, <3>1 DEF Elems
  <2>3. n \in Elems(a)
    <3>1. Len(s) + 1 \in 1 .. Len(a)
      BY <1>1
    <3> QED BY Zenon, <1>1, <3>1 DEF Elems
  <2> QED BY Zenon, <2>1, <2>2, <2>3 DEF Elems
<1> QED BY Zenon, <1>2 DEF a

\* A non-empty set of naturals has a least member: the induction over the places of
\* a list rests on it.
LEMMA LeastNat ==
  ASSUME NEW T \in SUBSET Nat, T # {}
  PROVE  \E m \in T : \A j \in T : m <= j
<1> DEFINE R == OpToRel(<, Nat)
<1>1. IsWellFoundedOn(R, Nat)
  BY Zenon, NatLessThanWellFounded
<1>2. \A i, j \in Nat : i < j => <<i, j>> \in R
  BY Zenon DEF OpToRel
<1> HIDE DEF R
<1>3. PICK m \in T : \A j \in T : ~ (<<j, m>> \in R)
  BY Zenon, <1>1, WFMin
<1>4. \A j \in T : ~ (j < m)
  BY Zenon, <1>2, <1>3
<1> QED BY <1>4

-------------------------------------------------------------------------------
(* The line of the threads in a wait queue *)

\* The nodes of the run queue and of the wait queues.
RqNodes == Threads \cup {Idle, NULL}
WqNodes == Threads \cup Queues \cup {NULL}

LEMMA Disjoint ==
  /\ Idle \notin Threads /\ NULL \notin Threads /\ NULL \notin Queues /\ NULL # Idle
  /\ \A q \in Queues : q \notin Threads /\ q # Idle /\ q # NULL
BY Zenon, KernelAssumption

\* The threads that wait on q are the elements of l, each linked to the next.
Lined(s, q, l) ==
  /\ l \in Seq(Threads)
  /\ \A i, j \in 1 .. Len(l) : l[i] = l[j] => i = j
  /\ Elems(l) = Waiting(s, q)
  /\ s.wq.next[q] = IF Len(l) = 0 THEN q ELSE l[1]
  /\ \A i \in 1 .. Len(l) : s.wq.next[l[i]] = IF i = Len(l) THEN q ELSE l[i + 1]

\* What Hop computes step by step ...
Hops(d, x, n) ==
  CHOOSE h : h = [i \in 0 .. n |-> IF i = 0 THEN x ELSE d.next[h[i - 1]]]

LEMMA HopHops ==
  ASSUME NEW d, NEW x, NEW n
  PROVE  Hop(d, x, n) = Hops(d, x, n)[n]
BY Zenon DEF Hop, Hops

\* ... is determined by its first node.
Path(d, x, n, V, f) ==
  f \in [0 .. n -> V] /\ f[0] = x /\ \A i \in 1 .. n : f[i] = d.next[f[i - 1]]

LEMMA HopIs ==
  ASSUME NEW d, NEW x, NEW n \in Nat, NEW V, NEW f, Path(d, x, n, V, f)
  PROVE  Hop(d, x, n) = f[n]
<1> USE DEF Path
<1> DEFINE G(h) == [i \in 0 .. n |-> IF i = 0 THEN x ELSE d.next[h[i - 1]]]
           h == Hops(d, x, n)
           T == {i \in 0 .. n : h[i] # f[i]}
<1>1. f = G(f)
  <2>1. ASSUME NEW i \in 0 .. n
        PROVE  f[i] = IF i = 0 THEN x ELSE d.next[f[i - 1]]
    BY <2>1
  <2> QED BY Zenon, <2>1
<1>2. h = G(h)
  BY Zenon, <1>1 DEF Hops
<1>3. \A i \in 0 .. n : h[i] = IF i = 0 THEN x ELSE d.next[h[i - 1]]
  <2> HIDE DEF h
  <2> QED BY Zenon, <1>2
<1> HIDE DEF h
<1>4. T = {}
  <2> SUFFICES ASSUME T # {}
               PROVE  FALSE
    BY Zenon
  <2>1. T \in SUBSET Nat
    OBVIOUS
  <2>2. PICK m \in T : \A j \in T : m <= j
    BY Zenon, <2>1, LeastNat
  <2>3. m \in 0 .. n /\ h[m] # f[m]
    BY Zenon, <2>2
  <2>4. m # 0
    BY Zenon, <1>3, <2>3
  <2>5. m \in 1 .. n /\ m - 1 \in 0 .. n /\ m - 1 \notin T
    BY <2>2, <2>3, <2>4
  <2>6. h[m - 1] = f[m - 1]
    BY Zenon, <2>5
  <2> QED BY Zenon, <1>3, <2>3, <2>4, <2>5, <2>6
<1>5. h[n] = f[n]
  BY <1>4
<1> QED BY Zenon, <1>5, HopHops DEF h

\* The line of the refinement mapping is the one that the pointers make.
LEMMA LineIs ==
  ASSUME NEW s, NEW q \in Queues, NEW l, Lined(s, q, l)
  PROVE  Line(s, q) = l
<1> DEFINE n == Len(l)
           V == Threads \cup Queues
           f == [i \in 0 .. n |-> IF i = 0 THEN q ELSE l[i]]
           d == s.wq
<1>1. /\ n \in Nat /\ l \in Seq(Threads) /\ l = [i \in 1 .. n |-> l[i]]
      /\ \A i \in 1 .. n : l[i] \in Threads
      /\ \A i, j \in 1 .. n : l[i] = l[j] => i = j
      /\ \A i \in 1 .. n : d.next[l[i]] = IF i = n THEN q ELSE l[i + 1]
      /\ d.next[q] = IF n = 0 THEN q ELSE l[1]
      /\ Elems(l) = Waiting(s, q)
  BY DEF Lined
<1>2. Cardinality(Waiting(s, q)) = n
  <2>1. Waiting(s, q) = {l[i] : i \in 1 .. n}
    BY Zenon, <1>1 DEF Elems
  <2>2. l \in Bijection(1 .. n, Waiting(s, q))
    <3>1. l \in [1 .. n -> Waiting(s, q)]
      BY Zenon, <1>1, <2>1
    <3>2. l \in Injection(1 .. n, Waiting(s, q))
      BY Zenon, <1>1, <3>1 DEF Injection, IsInjective
    <3>3. l \in Surjection(1 .. n, Waiting(s, q))
      BY Zenon, <2>1, <3>1 DEF Surjection
    <3> QED BY Zenon, <3>2, <3>3 DEF Bijection
  <2>3. ExistsBijection(1 .. n, Waiting(s, q))
    BY Zenon, <2>2 DEF ExistsBijection
  <2> QED BY Zenon, <1>1, <2>3, FS_CountingElements
<1>3. ASSUME NEW m \in 1 .. n
      PROVE  Hop(d, q, m) = l[m]
  <2> DEFINE g == [i \in 0 .. m |-> IF i = 0 THEN q ELSE l[i]]
  <2>1. m \in Nat /\ g \in [0 .. m -> V] /\ g[0] = q /\ g[m] = l[m]
    BY <1>1
  <2>2. ASSUME NEW i \in 1 .. m
        PROVE  g[i] = d.next[g[i - 1]]
    <3>1. i \in 1 .. n /\ g[i] = l[i] /\ i - 1 \in 0 .. m
      BY <1>1
    <3>2. CASE i = 1
      BY <1>1, <2>1, <3>1, <3>2
    <3>3. CASE i # 1
      <4>1. i - 1 \in 1 .. n /\ i - 1 # n /\ g[i - 1] = l[i - 1] /\ (i - 1) + 1 = i
        BY <1>1, <3>1, <3>3
      <4> QED BY Zenon, <1>1, <3>1, <4>1
    <3> QED BY Zenon, <3>2, <3>3
  <2> HIDE DEF g, d, V
  <2>3. \A i \in 1 .. m : g[i] = d.next[g[i - 1]]
    BY Zenon, <2>2
  <2>4. m \in Nat /\ Path(d, q, m, V, g)
    BY Zenon, <2>1, <2>3 DEF Path
  <2>5. Hop(d, q, m) = g[m]
    BY Zenon, <2>4, HopIs
  <2> QED BY Zenon, <2>1, <2>5
<1> HIDE DEF n, d
<1>4. Line(s, q) = [i \in 1 .. n |-> Hop(d, q, i)]
  BY Zenon, <1>2 DEF Line, d
<1> QED BY <1>1, <1>3, <1>4

\* The line stays as it is if nothing in the queue changes.
LEMMA SameLine ==
  ASSUME NEW s, NEW r, NEW q, NEW l, Lined(s, q, l),
         Waiting(r, q) = Waiting(s, q),
         \A x \in {q} \cup Waiting(s, q) : r.wq.next[x] = s.wq.next[x]
  PROVE  Lined(r, q, l)
<1>1. \A i \in 1 .. Len(l) : l[i] \in Waiting(s, q)
  BY Zenon DEF Lined, Elems
<1> QED BY Zenon, <1>1 DEF Lined

\* The prev fields lead back along the line.
LEMMA BackLinks ==
  ASSUME NEW s, WaitQueuesOK(s), NEW q \in Queues, NEW l, Lined(s, q, l)
  PROVE  /\ s.wq.prev[q] = IF Len(l) = 0 THEN q ELSE l[Len(l)]
         /\ \A i \in 1 .. Len(l) : s.wq.prev[l[i]] = IF i = 1 THEN q ELSE l[i - 1]
<1>1. \A x \in {q} \cup Waiting(s, q) : s.wq.prev[s.wq.next[x]] = x
  BY Zenon DEF WaitQueuesOK, Ring
<1>2. Len(l) \in Nat /\ \A i \in 1 .. Len(l) : l[i] \in Waiting(s, q)
  BY DEF Lined, Elems
<1>3. s.wq.prev[q] = IF Len(l) = 0 THEN q ELSE l[Len(l)]
  <2>1. CASE Len(l) = 0
    BY Zenon, <1>1, <2>1 DEF Lined
  <2>2. CASE Len(l) # 0
    <3>1. Len(l) \in 1 .. Len(l)
      BY <1>2, <2>2
    <3> QED BY Zenon, <1>1, <1>2, <2>2, <3>1 DEF Lined
  <2> QED BY Zenon, <2>1, <2>2
<1>4. ASSUME NEW i \in 1 .. Len(l)
      PROVE  s.wq.prev[l[i]] = IF i = 1 THEN q ELSE l[i - 1]
  <2>1. CASE i = 1
    BY <1>1, <1>2, <2>1 DEF Lined
  <2>2. CASE i # 1
    <3>1. i - 1 \in 1 .. Len(l) /\ i - 1 # Len(l) /\ (i - 1) + 1 = i
      BY <1>2, <2>2
    <3>2. s.wq.next[l[i - 1]] = l[i]
      BY Zenon, <3>1 DEF Lined
    <3> QED BY Zenon, <1>1, <1>2, <2>2, <3>1, <3>2
  <2> QED BY Zenon, <2>1, <2>2
<1> QED BY Zenon, <1>3, <1>4

\* The queue of a thread is not another one.
LEMMA NodesApart ==
  ASSUME NEW s, NEW q \in Queues, NEW p \in Queues, p # q, NEW x \in {p} \cup Waiting(s, p)
  PROVE  x \notin {q} \cup Waiting(s, q)
BY Disjoint DEF Waiting

\* z_pend_current_on puts the thread at the end of the line ...
LEMMA JoinLine ==
  ASSUME NEW s \in KernelStates, WaitQueuesOK(s), NEW r, NEW q \in Queues, NEW t \in Threads,
         \A p \in Queues : t \notin Waiting(s, p),
         r.wq = dlist_append(s.wq, q, t),
         Waiting(r, q) = Waiting(s, q) \cup {t},
         \A p \in Queues \ {q} : Waiting(r, p) = Waiting(s, p)
  PROVE  /\ \A l : Lined(s, q, l) => Lined(r, q, Append(l, t))
         /\ \A p \in Queues \ {q} : \A l : Lined(s, p, l) => Lined(r, p, l)
<1> DEFINE d == s.wq
           e == r.wq
           b == d.prev[q]
<1>1. /\ d \in Structures(WqNodes) /\ q \in WqNodes /\ t \in WqNodes /\ t # q
      /\ b \in {q} \cup Waiting(s, q) /\ b # t
  BY Disjoint DEF KernelStates, WqNodes, WaitQueuesOK, Ring
<1>2. e.next = [d.next EXCEPT ![b] = t, ![t] = q]
  <2>1. d.prev[q] # t
    BY Zenon, <1>1
  <2> HIDE DEF d
  <2>2. LET f == dlist_append(d, q, t)
            p == d.prev[q]
        IN  /\ f \in Structures(WqNodes)
            /\ f.next = [d.next EXCEPT ![p] = t, ![t] = q]
            /\ f.prev = [d.prev EXCEPT ![t] = p, ![q] = t]
    BY <1>1, <2>1, AppendPointers
  <2>3. e = dlist_append(d, q, t)
    BY Zenon DEF d
  <2> QED BY Zenon, <2>2, <2>3
<1>3. /\ e.next[t] = q /\ e.next[b] = t
      /\ \A x \in WqNodes : x # b /\ x # t => e.next[x] = d.next[x]
  <2>1. d.next \in [WqNodes -> WqNodes] /\ b \in WqNodes
    BY Zenon, <1>1 DEF Structures, WqNodes, Waiting
  <2> HIDE DEF b, d, e
  <2> QED BY Zenon, <1>1, <1>2, <2>1
<1>4. ASSUME NEW l, Lined(s, q, l)
      PROVE  Lined(r, q, Append(l, t))
  <2> DEFINE n == Len(l)
             a == Append(l, t)
  <2>1. /\ n \in Nat /\ l \in Seq(Threads)
        /\ \A i \in 1 .. n : l[i] \in Waiting(s, q) /\ l[i] \in Threads /\ l[i] # t
        /\ \A i, j \in 1 .. n : l[i] = l[j] => i = j
        /\ d.next[q] = IF n = 0 THEN q ELSE l[1]
        /\ \A i \in 1 .. n : d.next[l[i]] = IF i = n THEN q ELSE l[i + 1]
        /\ Elems(l) = Waiting(s, q)
    BY <1>4 DEF Lined, Elems
  <2>2. b = IF n = 0 THEN q ELSE l[n]
    BY <1>4, BackLinks
  <2>3. /\ a \in Seq(Threads) /\ Len(a) = n + 1 /\ a[n + 1] = t
        /\ \A i \in 1 .. n : a[i] = l[i]
    BY <2>1
  <2>4. \A i, j \in 1 .. Len(a) : a[i] = a[j] => i = j
    <3> SUFFICES ASSUME NEW i \in 1 .. n + 1, NEW j \in 1 .. n + 1, a[i] = a[j]
                 PROVE  i = j
      BY Zenon, <2>3
    <3>1. CASE i \in 1 .. n /\ j \in 1 .. n
      BY Zenon, <2>1, <2>3, <3>1
    <3>2. CASE i = n + 1 \/ j = n + 1
      BY <2>1, <2>3, <3>2
    <3>3. n \in Nat
      BY Zenon, <2>1
    <3> HIDE DEF n, a
    <3>4. (i \in 1 .. n /\ j \in 1 .. n) \/ i = n + 1 \/ j = n + 1
      BY <3>3
    <3> QED BY Zenon, <3>1, <3>2, <3>4
  <2>5. Elems(a) = Waiting(r, q)
    BY <2>1, ElemsAppend
  <2>6. e.next[q] = a[1]
    <3>1. CASE n = 0
      BY <1>3, <2>2, <2>3, <3>1
    <3>2. CASE n # 0
      <4>1. 1 \in 1 .. n /\ n \in 1 .. n
        BY <2>1, <3>2
      <4>2. b # q /\ a[1] = l[1] /\ d.next[q] = l[1]
        BY <2>1, <2>2, <2>3, <3>2, <4>1, Disjoint
      <4> QED BY Zenon, <1>1, <1>3, <4>2
    <3> QED BY Zenon, <3>1, <3>2
  <2>7. ASSUME NEW i \in 1 .. n + 1
        PROVE  e.next[a[i]] = IF i = n + 1 THEN q ELSE a[i + 1]
    <3>1. CASE i = n + 1
      BY Zenon, <1>3, <2>3, <3>1
    <3>2. CASE i \in 1 .. n /\ i = n
      <4>1. a[i] = b /\ a[i + 1] = t /\ i # n + 1
        BY <2>1, <2>2, <2>3, <3>2
      <4> QED BY Zenon, <1>3, <4>1
    <3>3. CASE i \in 1 .. n /\ i # n
      <4>1. /\ i + 1 \in 1 .. n /\ n \in 1 .. n /\ n # 0 /\ i # n + 1
        BY <2>1, <3>3
      <4>2. a[i] = l[i] /\ a[i + 1] = l[i + 1] /\ l[i] # l[n] /\ l[i] # t /\ l[i] \in WqNodes
        BY Zenon, <2>1, <2>3, <3>3, <4>1 DEF WqNodes
      <4>3. e.next[l[i]] = d.next[l[i]]
        BY Zenon, <1>3, <2>2, <4>1, <4>2
      <4> QED BY Zenon, <2>1, <3>3, <4>1, <4>2, <4>3
    <3> QED BY <2>1, <3>1, <3>2, <3>3
  <2>8. Len(a) # 0
    BY <2>1, <2>3
  <2> HIDE DEF a
  <2>9. Lined(r, q, a)
    BY Zenon, <2>3, <2>4, <2>5, <2>6, <2>7, <2>8 DEF Lined
  <2> QED BY Zenon, <2>9 DEF a
<1>5. ASSUME NEW p \in Queues \ {q}, NEW l, Lined(s, p, l)
      PROVE  Lined(r, p, l)
  <2>1. ASSUME NEW x \in {p} \cup Waiting(s, p)
        PROVE  e.next[x] = d.next[x]
    <3>1. x # b /\ x # t /\ x \in WqNodes
      BY <1>1, <2>1, NodesApart, Disjoint DEF WqNodes, Waiting
    <3> QED BY Zenon, <1>3, <3>1
  <2>2. \A x \in {p} \cup Waiting(s, p) : r.wq.next[x] = s.wq.next[x]
    BY Zenon, <2>1
  <2> QED BY Zenon, <1>5, <2>2, SameLine
<1> QED BY Zenon, <1>4, <1>5

\* ... and a thread that is unlinked leaves it, wherever it is in it.
LEMMA LeaveLine ==
  ASSUME NEW s \in KernelStates, WaitQueuesOK(s), NEW r, NEW q \in Queues,
         NEW t \in Waiting(s, q),
         \A x \in WqNodes \ {t} :
           r.wq.next[x] = IF x = s.wq.prev[t] THEN s.wq.next[t] ELSE s.wq.next[x],
         Waiting(r, q) = Waiting(s, q) \ {t},
         \A p \in Queues \ {q} : Waiting(r, p) = Waiting(s, p)
  PROVE  /\ \A l : \A i \in 1 .. Len(l) :
              Lined(s, q, l) /\ l[i] = t => Lined(r, q, Removed(l, i))
         /\ \A p \in Queues \ {q} : \A l : Lined(s, p, l) => Lined(r, p, l)
<1> DEFINE d == s.wq
           e == r.wq
           b == d.prev[t]
<1>1. b \in {q} \cup Waiting(s, q) /\ t \in Threads /\ t # q
  BY Disjoint DEF WaitQueuesOK, Ring, Waiting
<1>2. \A x \in WqNodes \ {t} : e.next[x] = IF x = b THEN d.next[t] ELSE d.next[x]
  BY Zenon
<1>3. ASSUME NEW l, NEW m \in 1 .. Len(l), Lined(s, q, l), l[m] = t
      PROVE  Lined(r, q, Removed(l, m))
  <2> DEFINE n == Len(l)
             a == Removed(l, m)
  <2>1. /\ n \in Nat /\ l \in Seq(Threads)
        /\ \A i \in 1 .. n : l[i] \in Waiting(s, q) /\ l[i] \in Threads /\ l[i] \in WqNodes
        /\ \A i, j \in 1 .. n : l[i] = l[j] => i = j
        /\ d.next[q] = IF n = 0 THEN q ELSE l[1]
        /\ \A i \in 1 .. n : d.next[l[i]] = IF i = n THEN q ELSE l[i + 1]
        /\ Elems(l) = Waiting(s, q)
    BY <1>3 DEF Lined, Elems, WqNodes
  <2>2. b = IF m = 1 THEN q ELSE l[m - 1]
    BY <1>3, BackLinks
  <2>3. /\ a \in Seq(Threads) /\ Len(a) = n - 1
        /\ \A i \in 1 .. n - 1 : a[i] = IF i < m THEN l[i] ELSE l[i + 1]
    <3>1. LET c == Removed(l, m)
          IN  /\ c \in Seq(Threads)
              /\ Len(c) = Len(l) - 1
              /\ \A i \in 1 .. Len(l) - 1 : c[i] = IF i < m THEN l[i] ELSE l[i + 1]
      BY <2>1, RemoveElements
    <3> QED BY Zenon, <3>1
  <2> HIDE DEF a, b, d, e, n
  <2>4. m \in 1 .. n /\ n \in Nat /\ n # 0 /\ l[m] = t
    BY <1>3, <2>1 DEF n
  <2>5. \A i, j \in 1 .. n - 1 : a[i] = a[j] => i = j
    <3> SUFFICES ASSUME NEW i \in 1 .. n - 1, NEW j \in 1 .. n - 1, a[i] = a[j]
                 PROVE  i = j
      BY Zenon
    <3>1. i \in 1 .. n /\ j \in 1 .. n /\ i + 1 \in 1 .. n /\ j + 1 \in 1 .. n
      BY <2>4
    <3>2. /\ a[i] = IF i < m THEN l[i] ELSE l[i + 1]
          /\ a[j] = IF j < m THEN l[j] ELSE l[j + 1]
      BY Zenon, <2>3
    <3>3. CASE i < m /\ j < m
      <4>1. l[i] = l[j]
        BY Zenon, <3>2, <3>3
      <4> QED BY Zenon, <2>1, <3>1, <4>1
    <3>4. CASE ~ (i < m) /\ ~ (j < m)
      <4>1. l[i + 1] = l[j + 1]
        BY Zenon, <3>2, <3>4
      <4>2. i + 1 = j + 1
        BY Zenon, <2>1, <3>1, <4>1
      <4> QED BY <3>1, <4>2
    <3>5. CASE i < m /\ ~ (j < m)
      <4>1. i = j + 1
        BY <2>1, <3>1, <3>2, <3>5
      <4> QED BY <2>4, <3>1, <3>5, <4>1
    <3>6. CASE ~ (i < m) /\ j < m
      <4>1. j = i + 1
        BY <2>1, <3>1, <3>2, <3>6
      <4> QED BY <2>4, <3>1, <3>6, <4>1
    <3> QED BY Zenon, <3>3, <3>4, <3>5, <3>6
  <2>6. Elems(a) = Waiting(r, q)
    <3>1. ASSUME NEW x \in Elems(a)
          PROVE  x \in Elems(l) /\ x # t
      <4>1. PICK i \in 1 .. n - 1 : x = a[i]
        BY Zenon, <2>3 DEF Elems
      <4>2. i \in 1 .. n /\ i + 1 \in 1 .. n
        BY <2>4
      <4>3. PICK j \in 1 .. n : x = l[j] /\ j # m
        <5>1. CASE i < m
          BY <2>3, <4>1, <4>2, <5>1
        <5>2. CASE ~ (i < m)
          <6>1. i + 1 # m
            BY <2>4, <4>2, <5>2
          <6> QED BY Zenon, <2>3, <4>1, <4>2, <5>2, <6>1
        <5> QED BY Zenon, <5>1, <5>2
      <4> QED BY Zenon, <2>1, <2>4, <4>3 DEF Elems, n
    <3>2. ASSUME NEW x \in Elems(l), x # t
          PROVE  x \in Elems(a)
      <4>1. PICK j \in 1 .. n : x = l[j] /\ j # m
        BY Zenon, <2>4, <3>2 DEF Elems, n
      <4>2. CASE j < m
        <5>1. j \in 1 .. n - 1
          BY <2>4, <4>2
        <5> QED BY Zenon, <2>3, <4>1, <4>2, <5>1 DEF Elems
      <4>3. CASE ~ (j < m)
        <5>1. j - 1 \in 1 .. n - 1 /\ ~ (j - 1 < m) /\ (j - 1) + 1 = j
          BY <2>4, <4>1, <4>3
        <5>2. a[j - 1] = l[j]
          BY Zenon, <2>3, <5>1
        <5> QED BY Zenon, <2>3, <4>1, <5>1, <5>2 DEF Elems
      <4> QED BY Zenon, <4>2, <4>3
    <3> QED BY <2>1, <3>1, <3>2
  <2>7. e.next[q] = IF n - 1 = 0 THEN q ELSE a[1]
    <3>1. q \in WqNodes \ {t}
      BY Zenon, <1>1 DEF WqNodes
    <3>2. CASE m = 1
      <4>1. e.next[q] = d.next[t] /\ d.next[t] = IF 1 = n THEN q ELSE l[2]
        BY <1>2, <2>1, <2>2, <2>4, <3>1, <3>2
      <4>2. n - 1 # 0 => a[1] = l[2] /\ n # 1
        BY <2>3, <2>4, <3>2
      <4> QED BY <2>4, <4>1, <4>2
    <3>3. CASE m # 1
      <4>1. m - 1 \in 1 .. n /\ 1 \in 1 .. n /\ n - 1 # 0 /\ 1 \in 1 .. n - 1 /\ 1 < m
        BY <2>4, <3>3
      <4>2. b # q
        BY Zenon, <2>1, <2>2, <3>3, <4>1, Disjoint
      <4>3. e.next[q] = l[1] /\ a[1] = l[1]
        BY Zenon, <1>2, <2>1, <2>3, <2>4, <3>1, <4>1, <4>2
      <4> QED BY Zenon, <4>1, <4>3
    <3> QED BY Zenon, <3>2, <3>3
  <2>8. ASSUME NEW i \in 1 .. n - 1
        PROVE  e.next[a[i]] = IF i = n - 1 THEN q ELSE a[i + 1]
    <3>1. /\ i \in 1 .. n /\ i + 1 \in 1 .. n /\ i # n /\ i \in Nat
          /\ (i = n - 1 <=> i + 1 = n)
          /\ (i # n - 1 => i + 1 \in 1 .. n - 1 /\ (i + 1) + 1 \in 1 .. n)
      BY <2>4
    <3>2. CASE i < m /\ i = m - 1
      <4>1. a[i] = l[i] /\ l[i] = b /\ i + 1 = m /\ m # 1 /\ i # m
        BY <2>2, <2>3, <2>4, <3>1, <3>2
      <4>2. l[i] # t /\ l[i] \in WqNodes
        BY Zenon, <2>1, <2>4, <3>1, <4>1
      <4>3. e.next[a[i]] = d.next[t]
        BY Zenon, <1>2, <4>1, <4>2
      <4>4. d.next[t] = IF m = n THEN q ELSE l[m + 1]
        BY Zenon, <2>1, <2>4
      <4>5. i # n - 1 => a[i + 1] = l[m + 1] /\ m # n
        <5>1. ASSUME i # n - 1
              PROVE  m \in 1 .. n - 1 /\ ~ (m < m) /\ m # n
          BY <2>4, <3>1, <4>1, <5>1
        <5> QED BY Zenon, <2>3, <4>1, <5>1
      <4> QED BY Zenon, <3>1, <4>1, <4>3, <4>4, <4>5
    <3>3. CASE i < m /\ i # m - 1
      <4>1. /\ a[i] = l[i] /\ i # m /\ i # n - 1 /\ i + 1 < m /\ i + 1 \in 1 .. n - 1
            /\ (m # 1 => m - 1 \in 1 .. n)
        BY <2>3, <2>4, <3>1, <3>3
      <4>2. l[i] # t /\ l[i] \in WqNodes /\ l[i] # b
        BY <2>1, <2>2, <2>4, <3>1, <3>3, <4>1, Disjoint
      <4>3. e.next[a[i]] = d.next[l[i]]
        BY Zenon, <1>2, <4>1, <4>2
      <4> QED BY Zenon, <2>1, <2>3, <3>1, <4>1, <4>3
    <3>4. CASE ~ (i < m)
      <4>1. a[i] = l[i + 1] /\ i + 1 # m /\ (m # 1 => m - 1 \in 1 .. n /\ i + 1 # m - 1)
        BY <2>3, <2>4, <3>1, <3>4
      <4>2. l[i + 1] # t /\ l[i + 1] \in WqNodes /\ l[i + 1] # b
        BY <2>1, <2>2, <2>4, <3>1, <4>1, Disjoint
      <4>3. e.next[a[i]] = d.next[l[i + 1]]
        BY Zenon, <1>2, <4>1, <4>2
      <4>4. d.next[l[i + 1]] = IF i + 1 = n THEN q ELSE l[(i + 1) + 1]
        BY Zenon, <2>1, <3>1
      <4>5. i # n - 1 => a[i + 1] = l[(i + 1) + 1]
        <5>1. ~ (i + 1 < m)
          BY <2>4, <3>1, <3>4
        <5> QED BY Zenon, <2>3, <3>1, <5>1
      <4> QED BY Zenon, <3>1, <4>3, <4>4, <4>5
    <3> QED BY Zenon, <3>2, <3>3, <3>4
  <2>9. Lined(r, q, a)
    BY Zenon, <2>3, <2>5, <2>6, <2>7, <2>8 DEF Lined, e
  <2> QED BY Zenon, <2>9 DEF a
<1>4. ASSUME NEW p \in Queues \ {q}, NEW l, Lined(s, p, l)
      PROVE  Lined(r, p, l)
  <2>1. ASSUME NEW x \in {p} \cup Waiting(s, p)
        PROVE  e.next[x] = d.next[x]
    <3>1. x # b /\ x # t /\ x \in WqNodes
      BY <1>1, <2>1, NodesApart DEF WqNodes, Waiting
    <3> QED BY Zenon, <1>2, <3>1
  <2>2. \A x \in {p} \cup Waiting(s, p) : r.wq.next[x] = s.wq.next[x]
    BY Zenon, <2>1
  <2> QED BY Zenon, <1>4, <2>2, SameLine
<1> QED BY Zenon, <1>3, <1>4

\* The lines of all the queues.
LinesOK(s) == \A q \in Queues : Lined(s, q, Line(s, q))

SameLines(s, r) == \A q \in Queues : Line(r, q) = Line(s, q)

\* From s to r the thread t was unlinked from its neighbours.
Unlinked(s, r, t) ==
  \A x \in WqNodes \ {t} :
    r.wq.next[x] = IF x = s.wq.prev[t] THEN s.wq.next[t] ELSE s.wq.next[x]

\* From s to r the i-th thread of the line of q left it.
LeavesLine(s, r, q, i) ==
  /\ i \in DOMAIN Line(s, q)
  /\ Line(r, q) = Removed(Line(s, q), i)
  /\ \A p \in Queues \ {q} : Line(r, p) = Line(s, p)

LEMMA LinesFrame ==
  ASSUME NEW s, NEW r, LinesOK(s),
         \A q \in Queues : Waiting(r, q) = Waiting(s, q),
         \A q \in Queues : \A x \in {q} \cup Waiting(s, q) : r.wq.next[x] = s.wq.next[x]
  PROVE  LinesOK(r) /\ SameLines(s, r)
<1>1. ASSUME NEW q \in Queues
      PROVE  Lined(r, q, Line(s, q))
  BY Zenon, SameLine DEF LinesOK
<1>2. ASSUME NEW q \in Queues
      PROVE  Line(r, q) = Line(s, q)
  BY Zenon, <1>1, LineIs
<1> QED BY Zenon, <1>1, <1>2 DEF LinesOK, SameLines

LEMMA JoinLines ==
  ASSUME NEW s \in KernelStates, WaitQueuesOK(s), LinesOK(s), NEW r, NEW q \in Queues,
         NEW t \in Threads,
         \A p \in Queues : t \notin Waiting(s, p),
         r.wq = dlist_append(s.wq, q, t),
         Waiting(r, q) = Waiting(s, q) \cup {t},
         \A p \in Queues \ {q} : Waiting(r, p) = Waiting(s, p)
  PROVE  /\ LinesOK(r)
         /\ Line(r, q) = Append(Line(s, q), t)
         /\ \A p \in Queues \ {q} : Line(r, p) = Line(s, p)
<1>1. /\ \A l : Lined(s, q, l) => Lined(r, q, Append(l, t))
      /\ \A p \in Queues \ {q} : \A l : Lined(s, p, l) => Lined(r, p, l)
  BY Zenon, JoinLine
<1>2. Lined(r, q, Append(Line(s, q), t))
  BY Zenon, <1>1 DEF LinesOK
<1>3. Line(r, q) = Append(Line(s, q), t)
  BY Zenon, <1>2, LineIs
<1>4. ASSUME NEW p \in Queues \ {q}
      PROVE  Lined(r, p, Line(s, p)) /\ Line(r, p) = Line(s, p)
  <2>1. Lined(r, p, Line(s, p))
    BY Zenon, <1>1 DEF LinesOK
  <2> QED BY Zenon, <2>1, LineIs
<1>5. LinesOK(r)
  BY Zenon, <1>2, <1>3, <1>4 DEF LinesOK
<1> QED BY Zenon, <1>3, <1>4, <1>5

LEMMA LeaveLines ==
  ASSUME NEW s \in KernelStates, WaitQueuesOK(s), LinesOK(s), NEW r, NEW q \in Queues,
         NEW t \in Waiting(s, q), Unlinked(s, r, t),
         r.state = [s.state EXCEPT ![t] = "READY"], r.on = s.on
  PROVE  /\ LinesOK(r)
         /\ \E i \in DOMAIN Line(s, q) : Line(s, q)[i] = t /\ LeavesLine(s, r, q, i)
         /\ t = s.wq.next[q] =>
              Line(s, q)[1] = t /\ LeavesLine(s, r, q, 1)
<1> DEFINE l == Line(s, q)
<1>1. /\ Waiting(r, q) = Waiting(s, q) \ {t}
      /\ \A p \in Queues \ {q} : Waiting(r, p) = Waiting(s, p)
  BY DEF Waiting, KernelStates, ThreadStates
<1>2. /\ \A a : \A i \in 1 .. Len(a) :
           Lined(s, q, a) /\ a[i] = t => Lined(r, q, Removed(a, i))
      /\ \A p \in Queues \ {q} : \A a : Lined(s, p, a) => Lined(r, p, a)
  BY Zenon, <1>1, LeaveLine DEF Unlinked
<1>3. Lined(s, q, l)
  BY Zenon DEF LinesOK
<1> HIDE DEF l
<1>4. /\ Len(l) \in Nat /\ DOMAIN l = 1 .. Len(l)
      /\ Elems(l) = Waiting(s, q)
      /\ s.wq.next[q] = IF Len(l) = 0 THEN q ELSE l[1]
  BY <1>3 DEF Lined
<1>5. PICK m \in 1 .. Len(l) : l[m] = t
  BY Zenon, <1>4 DEF Elems
<1>6. ASSUME NEW p \in Queues \ {q}
      PROVE  Lined(r, p, Line(s, p)) /\ Line(r, p) = Line(s, p)
  <2>1. Lined(r, p, Line(s, p))
    BY Zenon, <1>2 DEF LinesOK
  <2> QED BY Zenon, <2>1, LineIs
<1>7. ASSUME NEW i \in 1 .. Len(l), l[i] = t
      PROVE  LinesOK(r) /\ LeavesLine(s, r, q, i)
  <2>1. Lined(r, q, Removed(l, i))
    BY Zenon, <1>2, <1>3, <1>7
  <2>2. Line(r, q) = Removed(l, i)
    BY Zenon, <2>1, LineIs
  <2>3. LinesOK(r)
    BY Zenon, <1>6, <2>1, <2>2 DEF LinesOK
  <2> QED BY Zenon, <1>4, <1>6, <2>2, <2>3 DEF LeavesLine, l
<1>8. t = s.wq.next[q] => 1 \in 1 .. Len(l) /\ l[1] = t
  <2>1. t # q
    BY Zenon, Disjoint DEF Waiting
  <2> QED BY <1>4, <2>1
<1>9. LinesOK(r) /\ LeavesLine(s, r, q, m)
  BY Zenon, <1>5, <1>7
<1>10. t = s.wq.next[q] => l[1] = t /\ LeavesLine(s, r, q, 1)
  BY Zenon, <1>7, <1>8
<1> QED BY Zenon, <1>4, <1>5, <1>9, <1>10 DEF l

-------------------------------------------------------------------------------
(* Lists with timeouts: the set of items of a list in which no item is twice *)

Lists(S) == Seq([item : S, left : Nat])

\* The place of a new item is in the list or just behind it.
LEMMA PositionRange ==
  ASSUME NEW S, NEW list \in Lists(S), NEW left \in Nat
  PROVE  Position(list, left) \in 1 .. Len(list) + 1
<1> DEFINE I == {i \in DOMAIN list : list[i].left <= left}
<1>1. Len(list) \in Nat /\ DOMAIN list = 1 .. Len(list)
  BY DEF Lists
<1>2. IsFiniteSet(1 .. Len(list)) /\ Cardinality(1 .. Len(list)) = Len(list)
  <2>1. 1 \in Int /\ Len(list) \in Int
    BY <1>1
  <2>2. /\ IsFiniteSet(1 .. Len(list))
        /\ Cardinality(1 .. Len(list)) = IF 1 > Len(list) THEN 0 ELSE Len(list) - 1 + 1
    BY <2>1, FS_Interval, Zenon
  <2> QED BY <1>1, <2>2
<1>3. I \subseteq 1 .. Len(list)
  BY Zenon, <1>1
<1>4. Cardinality(I) \in Nat /\ Cardinality(I) <= Len(list)
  BY <1>1, <1>2, <1>3, FS_Subset, FS_CardinalityType
<1> QED BY <1>1, <1>4 DEF Position

\* tqueue_schedule adds the item it is given.
LEMMA ScheduleItems ==
  ASSUME NEW S, NEW list \in Lists(S), NoRepeat(list),
         NEW item \in S, item \notin Items(list), NEW left \in Nat
  PROVE  LET r == Schedule(list, item, left)
         IN  /\ r \in Lists(S)
             /\ Items(r) = Items(list) \cup {item}
             /\ NoRepeat(r)
<1> DEFINE E == [item : S, left : Nat]
           e == [item |-> item, left |-> left]
           p == Position(list, left)
           r == Inserted(list, p, e)
<1>1. list \in Seq(E) /\ e \in E /\ p \in 1 .. Len(list) + 1
  BY ZenonT(30), PositionRange DEF Lists
<1>2. e.item = item
  BY Zenon
<1>3. r = Schedule(list, item, left)
  BY Zenon DEF Schedule, Inserted
<1> HIDE DEF p, e, E
<1>4. /\ r \in Seq(E)
      /\ Len(r) = Len(list) + 1
      /\ r[p] = e
      /\ \A i \in 1 .. Len(list) + 1 :
           /\ i < p => r[i] = list[i]
           /\ i > p => r[i] = list[i - 1]
  <2>1. /\ r \in Seq(E)
        /\ Len(r) = Len(list) + 1
        /\ r[p] = e
    BY ONLY <1>1, InsertElements
  <2>2. ASSUME NEW i \in 1 .. Len(list) + 1
        PROVE  /\ i < p => r[i] = list[i]
               /\ i > p => r[i] = list[i - 1]
    <3>1. i < p => r[i] = list[i]
      BY ONLY <1>1, InsertElements, i \in 1 .. Len(list) + 1, SMTT(30)
    <3>2. i > p => r[i] = list[i - 1]
      BY ONLY <1>1, InsertElements, i \in 1 .. Len(list) + 1, SMTT(30)
    <3> QED BY ONLY Zenon, <3>1, <3>2
  <2> QED BY ONLY Zenon, <2>1, <2>2
<1> HIDE DEF r
<1>5. /\ DOMAIN r = 1 .. Len(list) + 1 /\ DOMAIN list = 1 .. Len(list)
      /\ Len(list) \in Nat /\ p \in Int
  BY <1>1, <1>4
<1>6. Items(r) = Items(list) \cup {item}
  <2>1. ASSUME NEW i \in DOMAIN r PROVE r[i].item \in Items(list) \cup {item}
    <3>1. i < p => i \in DOMAIN list /\ r[i] = list[i]
      BY <1>1, <1>4, <1>5
    <3>2. i > p => i - 1 \in DOMAIN list /\ r[i] = list[i - 1]
      BY <1>1, <1>4, <1>5
    <3>3. i < p \/ i = p \/ i > p
      BY <1>5
    <3> QED BY Zenon, <1>2, <1>4, <3>1, <3>2, <3>3 DEF Items
  <2>2. ASSUME NEW i \in DOMAIN list PROVE list[i].item \in Items(r)
    <3>1. i < p => i \in DOMAIN r /\ r[i] = list[i]
      BY <1>1, <1>4, <1>5
    <3>2. i >= p => i + 1 \in DOMAIN r /\ r[i + 1] = list[i]
      BY <1>1, <1>4, <1>5
    <3>3. i < p \/ i >= p
      BY <1>5
    <3> QED BY Zenon, <3>1, <3>2, <3>3 DEF Items
  <2>3. item \in Items(r)
    BY Zenon, <1>1, <1>2, <1>4, <1>5 DEF Items
  <2> QED BY Zenon, <2>1, <2>2, <2>3 DEF Items
<1>7. NoRepeat(r)
  <2> SUFFICES ASSUME NEW i \in DOMAIN r, NEW j \in DOMAIN r,
                      r[i].item = r[j].item, i < j
               PROVE  FALSE
    BY <1>5 DEF NoRepeat
  <2>1. \A n \in DOMAIN list : list[n].item # item
    BY Zenon DEF Items
  <2>2. CASE j < p
    <3>1. i \in DOMAIN list /\ j \in DOMAIN list /\ r[i] = list[i] /\ r[j] = list[j]
      BY <1>1, <1>4, <1>5, <2>2
    <3> QED BY <1>5, <3>1 DEF NoRepeat
  <2>3. CASE j = p
    <3>1. i \in DOMAIN list /\ r[i] = list[i]
      BY <1>1, <1>4, <1>5, <2>3
    <3> QED BY Zenon, <1>2, <1>4, <2>1, <2>3, <3>1
  <2>4. CASE j > p
    <3>1. j - 1 \in DOMAIN list /\ r[j] = list[j - 1]
      BY <1>1, <1>4, <1>5, <2>4
    <3>2. i < p => i \in DOMAIN list /\ r[i] = list[i] /\ i # j - 1
      BY <1>1, <1>4, <1>5, <2>4
    <3>3. i > p => i - 1 \in DOMAIN list /\ r[i] = list[i - 1] /\ i - 1 # j - 1
      BY <1>1, <1>4, <1>5, <2>4
    <3>4. i < p \/ i = p \/ i > p
      BY <1>5
    <3> QED BY SMTT(30), <1>2, <1>4, <2>1, <3>1, <3>2, <3>3, <3>4 DEF NoRepeat
  <2> QED BY <1>5, <2>2, <2>3, <2>4
<1> QED BY Zenon, <1>3, <1>4, <1>6, <1>7 DEF Lists, E

\* A list with the element at a position removed.
LEMMA RemoveItems ==
  ASSUME NEW S, NEW list \in Lists(S), NoRepeat(list), NEW p \in DOMAIN list,
         NEW r \in Lists(S), Len(r) = Len(list) - 1,
         \A i \in 1 .. Len(list) - 1 :
           r[i] = IF i < p THEN list[i] ELSE list[i + 1]
  PROVE  Items(r) = Items(list) \ {list[p].item} /\ NoRepeat(r)
<1>1. /\ DOMAIN r = 1 .. Len(list) - 1 /\ DOMAIN list = 1 .. Len(list)
      /\ Len(list) \in Nat /\ p \in 1 .. Len(list)
  BY DEF Lists
<1> DEFINE up(i) == IF i < p THEN i ELSE i + 1
<1>2. \A i \in DOMAIN r : up(i) \in DOMAIN list /\ up(i) # p /\ r[i] = list[up(i)]
  BY <1>1
<1>3. \A i, j \in DOMAIN r : up(i) = up(j) => i = j
  BY <1>1
<1>4. \A n \in DOMAIN list : n # p => \E i \in DOMAIN r : up(i) = n
  <2> SUFFICES ASSUME NEW n \in DOMAIN list, n # p
               PROVE  \E i \in DOMAIN r : up(i) = n
    BY Zenon
  <2>1. n < p => n \in DOMAIN r /\ up(n) = n
    BY <1>1
  <2>2. n > p => n - 1 \in DOMAIN r /\ up(n - 1) = n
    BY <1>1
  <2>3. n < p \/ n > p
    BY <1>1
  <2> QED BY Zenon, <2>1, <2>2, <2>3
<1> HIDE DEF up
<1>5. Items(r) = Items(list) \ {list[p].item}
  BY <1>2, <1>4 DEF Items, NoRepeat
<1>6. NoRepeat(r)
  BY <1>2, <1>3 DEF NoRepeat
<1> QED BY Zenon, <1>5, <1>6

\* tqueue_remove takes away the item it is given, and no other.
LEMMA WithoutItems ==
  ASSUME NEW S, NEW list \in Lists(S), NoRepeat(list), NEW item
  PROVE  LET r == Without(list, item)
         IN  /\ r \in Lists(S)
             /\ Items(r) = Items(list) \ {item}
             /\ NoRepeat(r)
<1>1. CASE item \notin Items(list)
  BY Zenon, <1>1 DEF Without
<1>2. CASE item \in Items(list)
  <2> DEFINE p == CHOOSE i \in DOMAIN list : list[i].item = item
             r == Removed(list, p)
             E == [item : S, left : Nat]
  <2>1. p \in DOMAIN list /\ list[p].item = item
    BY Zenon, <1>2 DEF Items
  <2>2. r = Without(list, item)
    <3>1. Without(list, item) = IF item \in Items(list) THEN r ELSE list
      BY Zenon DEF Without, Removed
    <3> QED BY Zenon, <1>2, <3>1
  <2> HIDE DEF p
  <2>3. list \in Seq(E) /\ p \in 1 .. Len(list)
    BY <2>1 DEF Lists
  <2>4. /\ r \in Seq(E)
        /\ Len(r) = Len(list) - 1
        /\ \A i \in 1 .. Len(list) - 1 :
             r[i] = IF i < p THEN list[i] ELSE list[i + 1]
    BY Zenon, <2>3, RemoveElements
  <2> HIDE DEF r
  <2>5. Items(r) = Items(list) \ {list[p].item} /\ NoRepeat(r)
    BY ZenonT(30), <2>1, <2>4, RemoveItems DEF Lists
  <2> QED BY Zenon, <2>1, <2>2, <2>4, <2>5 DEF Lists
<1> QED BY Zenon, <1>1, <1>2

\* tqueue_pop takes away the first item.
LEMMA TailItems ==
  ASSUME NEW S, NEW list \in Lists(S), NoRepeat(list), list # <<>>
  PROVE  /\ 1 \in DOMAIN list
         /\ list[1].item \in S
         /\ list[1].item \in Items(list)
         /\ Tail(list) \in Lists(S)
         /\ Items(Tail(list)) = Items(list) \ {list[1].item}
         /\ NoRepeat(Tail(list))
<1> DEFINE E == [item : S, left : Nat]
           r == Tail(list)
<1>1. list \in Seq(E) /\ Len(list) \in Nat /\ DOMAIN list = 1 .. Len(list)
  BY DEF Lists
<1>2. Len(list) # 0 /\ 1 \in DOMAIN list
  BY <1>1
<1>3. r \in Seq(E) /\ Len(r) = Len(list) - 1
      /\ \A i \in 1 .. Len(list) - 1 : r[i] = list[i + 1]
  BY <1>1, <1>2
<1> HIDE DEF r
<1>4. \A i \in 1 .. Len(list) - 1 : r[i] = IF i < 1 THEN list[i] ELSE list[i + 1]
  BY <1>3
<1>5. Items(r) = Items(list) \ {list[1].item} /\ NoRepeat(r)
  BY ZenonT(30), <1>2, <1>3, <1>4, RemoveItems DEF Lists
<1>6. list[1].item \in S
  <2>1. list[1] \in E
    <3> HIDE DEF E
    <3> QED BY Zenon, <1>1, <1>2, ElementType
  <2> QED BY Zenon, <2>1
<1>7. list[1].item \in Items(list)
  BY Zenon, <1>2 DEF Items
<1>8. r \in Lists(S)
  BY Zenon, <1>3 DEF Lists
<1> QED BY Zenon, <1>2, <1>5, <1>6, <1>7, <1>8 DEF r

\* tqueue_shift changes no item.
LEMMA ShiftItems ==
  ASSUME NEW S, NEW list \in Lists(S), NoRepeat(list), NEW ticks \in Nat
  PROVE  LET r == Shift(list, ticks)
         IN  /\ r \in Lists(S)
             /\ Items(r) = Items(list)
             /\ NoRepeat(r)
<1> DEFINE r == Shift(list, ticks)
           E == [item : S, left : Nat]
<1>1. Len(list) \in Nat /\ DOMAIN list = 1 .. Len(list) /\ DOMAIN r = DOMAIN list
  BY DEF Lists, Shift
<1>2. ASSUME NEW i \in DOMAIN list
      PROVE  r[i] \in E /\ r[i].item = list[i].item
  <2> DEFINE e == list[i]
             n == IF e.left <= ticks THEN 0 ELSE e.left - ticks
  <2>1. e \in E
    <3>1. list \in Seq(E)
      BY Zenon DEF Lists
    <3> HIDE DEF E
    <3> QED BY Zenon, <3>1, ElementType
  <2>2. r[i] = [e EXCEPT !.left = n]
    BY Zenon DEF Shift
  <2>3. n \in Nat
    BY <2>1
  <2> HIDE DEF e, n, r
  <2> QED BY Zenon, <2>1, <2>2, <2>3 DEF e
<1> HIDE DEF r
<1>3. r \in Seq(E)
  <2>1. r \in [1 .. Len(list) -> E]
    <3>1. r = [i \in 1 .. Len(list) |-> r[i]]
      BY Zenon, <1>1 DEF r, Shift
    <3> QED BY Zenon, <1>1, <1>2, <3>1
  <2> QED BY ZenonT(30), <1>1, <2>1, SeqDef
<1> QED BY SMTT(30), <1>1, <1>2, <1>3 DEF r, Lists, Items, NoRepeat

-------------------------------------------------------------------------------
(* Singly linked lists: the nodes that Reached finds *)

\* The list that starts at head has exactly the nodes of s, in this order.
Listed(next, head, s) ==
  /\ \A i, j \in 1 .. Len(s) : s[i] = s[j] => i = j
  /\ \A i \in 1 .. Len(s) : next[s[i]] = IF i = Len(s) THEN NULL ELSE s[i + 1]
  /\ head = IF Len(s) = 0 THEN NULL ELSE s[1]

\* What Reached computes step by step.
Chain(next, head, n) ==
  CHOOSE at : at = [i \in 1 .. n |-> IF i = 1 THEN head
                          ELSE IF at[i - 1] = NULL THEN NULL ELSE next[at[i - 1]]]

LEMMA ReachedChain ==
  ASSUME NEW next, NEW head
  PROVE  LET N == Cardinality(DOMAIN next) + 1
         IN  Reached(next, head) =
               [i \in 1 .. Cardinality({i \in 1 .. N : Chain(next, head, N)[i] # NULL})
                  |-> Chain(next, head, N)[i]]
BY Zenon DEF Reached, Chain

Walk(next, head, n, f) ==
  \A i \in 1 .. n : f[i] = IF i = 1 THEN head
                          ELSE IF f[i - 1] = NULL THEN NULL ELSE next[f[i - 1]]

\* The walk of Reached along the next fields is determined by its first node.
LEMMA ChainUnique ==
  ASSUME NEW next, NEW head, NEW n \in Nat, NEW V, NEW f \in [1 .. n -> V],
         Walk(next, head, n, f)
  PROVE  Chain(next, head, n) = f
<1> DEFINE Step(at, i) == IF i = 1 THEN head
                          ELSE IF at[i - 1] = NULL THEN NULL ELSE next[at[i - 1]]
           at == Chain(next, head, n)
           T == {i \in 1 .. n : at[i] # f[i]}
<1>1. f = [i \in 1 .. n |-> Step(f, i)]
  <2>1. f = [i \in 1 .. n |-> f[i]] /\ \A i \in 1 .. n : f[i] = Step(f, i)
    BY Zenon DEF Walk
  <2> HIDE DEF Step
  <2> QED BY Zenon, <2>1
<1>2. at = [i \in 1 .. n |-> Step(at, i)]
  BY Zenon, <1>1 DEF Chain
<1>3. T = {}
  <2> SUFFICES ASSUME T # {} PROVE FALSE
    BY Zenon
  <2>1. PICK m \in T : \A j \in T : m <= j
    <3>1. T \in SUBSET Nat
      OBVIOUS
    <3> HIDE DEF T
    <3> QED BY Zenon, <3>1, LeastNat
  <2>2. m \in 1 .. n /\ at[m] # f[m] /\ at[m] = Step(at, m) /\ f[m] = Step(f, m)
    BY Zenon, <1>1, <1>2, <2>1
  <2>3. m # 1
    BY Zenon, <2>2
  <2>4. m - 1 \in 1 .. n /\ m - 1 \notin T
    BY <2>1, <2>2, <2>3
  <2>5. at[m - 1] = f[m - 1]
    BY Zenon, <2>4
  <2> QED BY Zenon, <2>2, <2>3, <2>5
<1>4. \A i \in 1 .. n : at[i] = f[i]
  BY Zenon, <1>3
<1>5. DOMAIN at = 1 .. n /\ DOMAIN f = 1 .. n
  BY Zenon, <1>1, <1>2
<1> HIDE DEF at
<1>6. at = [i \in 1 .. n |-> at[i]] /\ f = [i \in 1 .. n |-> f[i]]
  BY Zenon, <1>1, <1>2
<1>7. [i \in 1 .. n |-> at[i]] = [i \in 1 .. n |-> f[i]]
  BY Zenon, <1>4
<1> QED BY Zenon, <1>6, <1>7 DEF at

LEMMA IntervalCard ==
  ASSUME NEW n \in Nat
  PROVE  IsFiniteSet(1 .. n) /\ Cardinality(1 .. n) = n
<1>1. 1 \in Int /\ n \in Int
  OBVIOUS
<1>2. IsFiniteSet(1 .. n) /\ Cardinality(1 .. n) = IF 1 > n THEN 0 ELSE n - 1 + 1
  BY Zenon, <1>1, FS_Interval
<1> QED BY <1>2

\* A sequence of different members of a finite set is not longer than the set.
LEMMA ShortSeq ==
  ASSUME NEW N, IsFiniteSet(N), NEW s \in Seq(N),
         \A i, j \in 1 .. Len(s) : s[i] = s[j] => i = j
  PROVE  Len(s) \in Nat /\ Cardinality(N) \in Nat /\ Len(s) <= Cardinality(N)
<1>1. Len(s) \in Nat /\ Cardinality(N) \in Nat /\ s \in [1 .. Len(s) -> N]
  BY FS_CardinalityType
<1>2. IsFiniteSet(1 .. Len(s)) /\ Cardinality(1 .. Len(s)) = Len(s)
  BY Zenon, <1>1, IntervalCard
<1>3. s \in Injection(1 .. Len(s), N)
  BY Zenon, <1>1 DEF Injection, IsInjective
<1> QED BY <1>1, <1>2, <1>3, FS_Injection

\* Reached finds the nodes of a list.
LEMMA ReachedListed ==
  ASSUME NEW N, IsFiniteSet(N), NULL \notin N, NEW next, DOMAIN next = N,
         NEW s \in Seq(N), NEW head, Listed(next, head, s)
  PROVE  Reached(next, head) = s
<1> DEFINE n == Cardinality(N) + 1
           f == [i \in 1 .. n |-> IF i <= Len(s) THEN s[i] ELSE NULL]
<1>1. Len(s) \in Nat /\ n \in Nat /\ Len(s) < n
  <2>1. Len(s) \in Nat /\ Cardinality(N) \in Nat /\ Len(s) <= Cardinality(N)
    BY Zenon, ShortSeq DEF Listed
  <2> QED BY <2>1
<1>2. \A i \in 1 .. Len(s) : s[i] \in N /\ s[i] # NULL
  OBVIOUS
<1> HIDE DEF n
<1>3. ASSUME NEW i \in 1 .. n
      PROVE  f[i] = IF i = 1 THEN head
                    ELSE IF f[i - 1] = NULL THEN NULL ELSE next[f[i - 1]]
  <2>1. CASE i = 1
    BY <1>1, <2>1 DEF Listed
  <2>2. CASE i # 1 /\ i <= Len(s)
    <3>1. i - 1 \in 1 .. Len(s) /\ i - 1 # Len(s) /\ (i - 1) + 1 = i
      BY <1>1, <2>2
    <3>2. next[s[i - 1]] = s[i]
      BY Zenon, <3>1 DEF Listed
    <3>3. f[i - 1] = s[i - 1] /\ f[i] = s[i] /\ s[i - 1] # NULL
      BY <1>1, <1>2, <2>2, <3>1
    <3> QED BY Zenon, <2>2, <3>2, <3>3
  <2>3. CASE i = Len(s) + 1 /\ i # 1
    <3>1. Len(s) \in 1 .. Len(s) /\ i - 1 = Len(s)
      BY <1>1, <2>3
    <3>2. next[s[Len(s)]] = NULL
      BY Zenon, <3>1 DEF Listed
    <3>3. f[i - 1] = s[Len(s)] /\ f[i] = NULL
      BY <1>1, <2>3, <3>1
    <3> QED BY Zenon, <2>3, <3>2, <3>3
  <2>4. CASE i > Len(s) + 1
    <3>1. f[i - 1] = NULL /\ f[i] = NULL /\ i # 1
      BY <1>1, <2>4
    <3> QED BY Zenon, <3>1
  <2> QED BY <1>1, <2>1, <2>2, <2>3, <2>4
<1>4. f \in [1 .. n -> N \cup {NULL}]
  BY <1>2
<1>5. f = Chain(next, head, n)
  <2>1. Walk(next, head, n, f)
    BY Zenon, <1>3 DEF Walk
  <2> HIDE DEF f
  <2> QED BY Zenon, <1>1, <1>4, <2>1, ChainUnique
<1>6. {i \in 1 .. n : f[i] # NULL} = 1 .. Len(s)
  BY <1>1, <1>2
<1>7. Cardinality({i \in 1 .. n : f[i] # NULL}) = Len(s)
  BY Zenon, <1>1, <1>6, IntervalCard
<1>8. Reached(next, head) = [i \in 1 .. Len(s) |-> f[i]]
  <2> HIDE DEF f
  <2>1. Reached(next, head) =
          [i \in 1 .. Cardinality({i \in 1 .. n : Chain(next, head, n)[i] # NULL})
             |-> Chain(next, head, n)[i]]
    BY Zenon, ReachedChain DEF n
  <2> QED BY Zenon, <1>5, <1>7, <2>1
<1>9. [i \in 1 .. Len(s) |-> f[i]] = [i \in 1 .. Len(s) |-> s[i]]
  BY <1>1
<1> QED BY <1>8, <1>9

-------------------------------------------------------------------------------
(* The operations on a list that is threaded through the memory next *)

\* A list only depends on the next fields of its nodes.
LEMMA ListedFrame ==
  ASSUME NEW next, NEW mem, NEW head, NEW N, NEW s \in Seq(N), Listed(next, head, s),
         \A i \in 1 .. Len(s) : mem[s[i]] = next[s[i]]
  PROVE  Listed(mem, head, s)
BY Zenon DEF Listed

\* slist_append puts the node at the end, and only writes into it and into the last
\* node of the list.
LEMMA AppendListed ==
  ASSUME NEW N, NULL \notin N, NEW next \in [N -> N \cup {NULL}], NEW s \in Seq(N),
         NEW l, Listed(next, l.head, s), Len(s) # 0 => l.tail = s[Len(s)],
         NEW n \in N, \A i \in 1 .. Len(s) : s[i] # n
  PROVE  LET mem == slist_append_next(next, l, n)
             r   == slist_append(l, n)
         IN  /\ mem \in [N -> N \cup {NULL}]
             /\ Append(s, n) \in Seq(N)
             /\ Listed(mem, r.head, Append(s, n))
             /\ r.tail = n
             /\ \A x \in N : x # n /\ (\A i \in 1 .. Len(s) : s[i] # x) => mem[x] = next[x]
<1> DEFINE mem == slist_append_next(next, l, n)
           r == slist_append(l, n)
           a == Append(s, n)
<1>1. /\ Len(s) \in Nat /\ a \in Seq(N) /\ Len(a) = Len(s) + 1
      /\ \A i \in 1 .. Len(s) : a[i] = s[i] /\ s[i] \in N /\ s[i] # NULL
      /\ a[Len(s) + 1] = n
  OBVIOUS
<1>2. l.head = NULL <=> Len(s) = 0
  BY <1>1 DEF Listed
<1>3. r.tail = n /\ r.head = a[1]
  BY <1>1, <1>2 DEF slist_append, Listed
<1>4. /\ mem \in [N -> N \cup {NULL}]
      /\ mem[n] = NULL
      /\ Len(s) # 0 => mem[s[Len(s)]] = n
      /\ \A x \in N : x # n /\ (Len(s) # 0 => x # s[Len(s)]) => mem[x] = next[x]
  <2>1. CASE Len(s) = 0
    <3>1. mem = [next EXCEPT ![n] = NULL]
      BY Zenon, <1>2, <2>1 DEF slist_append_next
    <3> HIDE DEF mem
    <3> QED BY Zenon, <2>1, <3>1
  <2>2. CASE Len(s) # 0
    <3>1. mem = [[next EXCEPT ![n] = NULL] EXCEPT ![s[Len(s)]] = n]
      BY Zenon, <1>2, <2>2 DEF slist_append_next
    <3>2. s[Len(s)] \in N /\ s[Len(s)] # n
      BY <1>1, <2>2
    <3> HIDE DEF mem
    <3> QED BY Zenon, <2>2, <3>1, <3>2
  <2> QED BY Zenon, <2>1, <2>2
<1> HIDE DEF mem, r, a
<1>5. \A i, j \in 1 .. Len(a) : a[i] = a[j] => i = j
  <2> SUFFICES ASSUME NEW i \in 1 .. Len(a), NEW j \in 1 .. Len(a), a[i] = a[j]
               PROVE  i = j
    BY Zenon
  <2>1. CASE i \in 1 .. Len(s) /\ j \in 1 .. Len(s)
    BY <1>1, <2>1 DEF Listed
  <2>2. CASE i = Len(s) + 1 /\ j \in 1 .. Len(s)
    BY Zenon, <1>1, <2>2
  <2>3. CASE j = Len(s) + 1 /\ i \in 1 .. Len(s)
    BY Zenon, <1>1, <2>3
  <2>4. CASE i = Len(s) + 1 /\ j = Len(s) + 1
    BY Zenon, <2>4
  <2> QED BY <1>1, <2>1, <2>2, <2>3, <2>4
<1>6. ASSUME NEW i \in 1 .. Len(a)
      PROVE  mem[a[i]] = IF i = Len(a) THEN NULL ELSE a[i + 1]
  <2>1. CASE i = Len(s) + 1
    BY Zenon, <1>1, <1>4, <2>1
  <2>2. CASE i = Len(s)
    BY <1>1, <1>4, <2>2
  <2>3. CASE i < Len(s)
    <3>1. i \in 1 .. Len(s) /\ i + 1 \in 1 .. Len(s) /\ i # Len(s)
      BY <1>1, <2>3
    <3>2. s[i] # n /\ s[i] # s[Len(s)] /\ s[i] \in N /\ next[s[i]] = s[i + 1]
      BY <1>1, <3>1 DEF Listed
    <3>3. mem[s[i]] = s[i + 1]
      BY Zenon, <1>4, <3>2
    <3> QED BY Zenon, <1>1, <3>1, <3>3
  <2> QED BY <1>1, <2>1, <2>2, <2>3
<1>7. Listed(mem, r.head, a)
  BY <1>1, <1>3, <1>5, <1>6 DEF Listed
<1>8. \A x \in N : x # n /\ (\A i \in 1 .. Len(s) : s[i] # x) => mem[x] = next[x]
  BY <1>1, <1>4
<1> QED BY Zenon, <1>1, <1>3, <1>4, <1>7, <1>8 DEF mem, r, a

\* Without its first node a list is the list of the others.
LEMMA TailListed ==
  ASSUME NEW N, NEW next, NEW s \in Seq(N), NEW head, Listed(next, head, s), Len(s) # 0
  PROVE  /\ head = s[1] /\ s[1] \in N
         /\ Tail(s) \in Seq(N) /\ Len(Tail(s)) = Len(s) - 1
         /\ \A i \in 1 .. Len(s) - 1 : Tail(s)[i] = s[i + 1]
         /\ Listed(next, next[head], Tail(s))
<1> DEFINE b == Tail(s)
<1>1. /\ Len(s) \in Nat \ {0} /\ b \in Seq(N) /\ Len(b) = Len(s) - 1
      /\ \A i \in 1 .. Len(b) : b[i] = s[i + 1]
      /\ s[1] \in N
  OBVIOUS
<1>2. head = s[1]
  BY Zenon, <1>1 DEF Listed
<1> HIDE DEF b
<1>3. \A i, j \in 1 .. Len(b) : b[i] = b[j] => i = j
  <2> SUFFICES ASSUME NEW i \in 1 .. Len(b), NEW j \in 1 .. Len(b), b[i] = b[j]
               PROVE  i = j
    BY Zenon
  <2>1. i + 1 \in 1 .. Len(s) /\ j + 1 \in 1 .. Len(s) /\ s[i + 1] = s[j + 1]
    BY <1>1
  <2>2. i + 1 = j + 1
    BY Zenon, <2>1 DEF Listed
  <2> QED BY <2>2
<1>4. ASSUME NEW i \in 1 .. Len(b)
      PROVE  next[b[i]] = IF i = Len(b) THEN NULL ELSE b[i + 1]
  <2>1. i + 1 \in 1 .. Len(s) /\ b[i] = s[i + 1] /\ (i + 1 = Len(s) <=> i = Len(b))
    BY <1>1
  <2>2. next[s[i + 1]] = IF i + 1 = Len(s) THEN NULL ELSE s[(i + 1) + 1]
    BY Zenon, <2>1 DEF Listed
  <2>3. i # Len(b) => b[i + 1] = s[(i + 1) + 1]
    BY <1>1
  <2> QED BY Zenon, <2>1, <2>2, <2>3
<1>5. next[head] = IF Len(b) = 0 THEN NULL ELSE b[1]
  <2>1. 1 \in 1 .. Len(s) /\ (1 = Len(s) <=> Len(b) = 0)
    BY <1>1
  <2>2. next[s[1]] = IF 1 = Len(s) THEN NULL ELSE s[1 + 1]
    BY Zenon, <2>1 DEF Listed
  <2>3. Len(b) # 0 => b[1] = s[1 + 1]
    BY <1>1
  <2> QED BY Zenon, <1>2, <2>1, <2>2, <2>3
<1>6. Listed(next, next[head], b)
  BY Zenon, <1>3, <1>4, <1>5 DEF Listed
<1> QED BY Zenon, <1>1, <1>2, <1>6 DEF b

\* The list record l is the chain of s.
HasList(next, l, s) == Listed(next, l.head, s) /\ (Len(s) # 0 => l.tail = s[Len(s)])

\* slist_get takes the first node off a list that has one.
LEMMA GetListed ==
  ASSUME NEW N, NULL \notin N, NEW next, NEW s \in Seq(N), NEW l, HasList(next, l, s),
         Len(s) # 0
  PROVE  HasList(next, slist_get(next, l), Tail(s))
<1>1. /\ l.head = s[1] /\ s[1] \in N
      /\ Tail(s) \in Seq(N) /\ Len(Tail(s)) = Len(s) - 1
      /\ \A i \in 1 .. Len(s) - 1 : Tail(s)[i] = s[i + 1]
      /\ Listed(next, next[l.head], Tail(s)) /\ l.tail = s[Len(s)]
  BY TailListed DEF HasList
<1>2. slist_get(next, l) = [head |-> next[l.head],
                            tail |-> IF next[l.head] = NULL THEN NULL ELSE l.tail]
  BY Zenon, <1>1 DEF slist_get
<1>3. ASSUME Len(Tail(s)) # 0
      PROVE  next[l.head] # NULL /\ Tail(s)[Len(Tail(s))] = s[Len(s)]
  <2>1. next[l.head] = Tail(s)[1] /\ Len(Tail(s)) \in Nat /\ Len(s) \in Nat
    <3> DEFINE b == Tail(s)
    <3>1. b \in Seq(N) /\ Len(b) # 0 /\ Listed(next, next[l.head], b)
      BY Zenon, <1>1, <1>3
    <3> HIDE DEF b
    <3>2. next[l.head] = b[1] /\ Len(b) \in Nat
      BY <3>1 DEF Listed
    <3> QED BY <3>2 DEF b
  <2>2. 1 \in 1 .. Len(Tail(s)) /\ Len(s) - 1 \in 1 .. Len(s) - 1
    BY <1>1, <1>3, <2>1
  <2>3. Tail(s)[1] \in N
    <3> DEFINE b == Tail(s)
    <3>1. b \in Seq(N) /\ 1 \in 1 .. Len(b)
      BY Zenon, <1>1, <2>2
    <3> HIDE DEF b
    <3>2. b[1] \in N
      BY <3>1
    <3> QED BY Zenon, <3>2 DEF b
  <2> QED BY <1>1, <2>1, <2>2, <2>3
<1> QED BY <1>1, <1>2, <1>3 DEF HasList

\* The memory next of the nodes N has the chain s from head on.
HasChain(N, next, head, s) ==
  next \in [N -> N \cup {NULL}] /\ s \in Seq(N) /\ Listed(next, head, s)

\* A node pushed in front of a list.
LEMMA PushListed ==
  ASSUME NEW N, NULL \notin N, NEW next, NEW s, NEW head, HasChain(N, next, head, s),
         NEW n \in N, \A i \in 1 .. Len(s) : s[i] # n
  PROVE  HasChain(N, [next EXCEPT ![n] = head], n, <<n>> \o s)
<1>0. next \in [N -> N \cup {NULL}] /\ s \in Seq(N) /\ Listed(next, head, s)
  BY Zenon DEF HasChain
<1> DEFINE a == <<n>> \o s
           mem == [next EXCEPT ![n] = head]
<1>1. /\ Len(s) \in Nat /\ a \in Seq(N) /\ Len(a) = Len(s) + 1
      /\ a[1] = n
      /\ \A i \in 1 .. Len(s) : a[i + 1] = s[i]
      /\ \A i \in 1 .. Len(a) : i # 1 => i - 1 \in 1 .. Len(s) /\ a[i] = s[i - 1]
      /\ \A i \in 1 .. Len(s) : s[i] \in N
  BY <1>0
<1>2. head \in N \cup {NULL}
  BY <1>0, <1>1 DEF Listed
<1>3. /\ mem \in [N -> N \cup {NULL}] /\ mem[n] = head
      /\ \A i \in 1 .. Len(s) : mem[s[i]] = next[s[i]]
  BY Zenon, <1>0, <1>1, <1>2
<1> HIDE DEF a, mem
<1>4. \A i, j \in 1 .. Len(a) : a[i] = a[j] => i = j
  <2> SUFFICES ASSUME NEW i \in 1 .. Len(a), NEW j \in 1 .. Len(a), a[i] = a[j]
               PROVE  i = j
    BY Zenon
  <2>1. CASE i # 1 /\ j # 1
    <3>1. i - 1 \in 1 .. Len(s) /\ j - 1 \in 1 .. Len(s) /\ s[i - 1] = s[j - 1]
      BY Zenon, <1>1, <2>1
    <3>2. i - 1 = j - 1
      BY Zenon, <1>0, <3>1 DEF Listed
    <3> QED BY <3>2
  <2>2. CASE i = 1 \/ j = 1
    BY <1>1, <2>2
  <2> QED BY Zenon, <2>1, <2>2
<1>5. ASSUME NEW i \in 1 .. Len(a)
      PROVE  mem[a[i]] = IF i = Len(a) THEN NULL ELSE a[i + 1]
  <2>1. CASE i = 1
    <3>1. Len(s) # 0 => 1 \in 1 .. Len(s)
      BY <1>1
    <3>2. Len(s) # 0 => a[1 + 1] = s[1]
      BY Zenon, <1>1, <3>1
    <3> QED BY <1>0, <1>1, <1>3, <2>1, <3>2 DEF Listed
  <2>2. CASE i # 1
    <3>1. i - 1 \in 1 .. Len(s) /\ a[i] = s[i - 1] /\ (i = Len(a) <=> i - 1 = Len(s))
      BY <1>1, <2>2
    <3>2. next[s[i - 1]] = IF i - 1 = Len(s) THEN NULL ELSE s[(i - 1) + 1]
      BY Zenon, <1>0, <3>1 DEF Listed
    <3>3. i # Len(a) => a[i + 1] = s[(i - 1) + 1]
      BY <1>1
    <3> QED BY Zenon, <1>3, <3>1, <3>2, <3>3
  <2> QED BY Zenon, <2>1, <2>2
<1>6. Listed(mem, n, a)
  BY <1>1, <1>4, <1>5 DEF Listed
<1>7. HasChain(N, mem, n, a)
  BY Zenon, <1>1, <1>3, <1>6 DEF HasChain
<1> QED BY Zenon, <1>7 DEF a, mem

LEMMA ElemsTail ==
  ASSUME NEW N, NEW s \in Seq(N), Len(s) # 0,
         \A i, j \in 1 .. Len(s) : s[i] = s[j] => i = j
  PROVE  Elems(Tail(s)) = Elems(s) \ {s[1]} /\ s[1] \in Elems(s)
<1> DEFINE b == Tail(s)
<1>1. /\ Len(s) \in Nat /\ Len(b) = Len(s) - 1 /\ Len(s) >= 1
      /\ \A i \in 1 .. Len(s) - 1 : b[i] = s[i + 1]
  OBVIOUS
<1> HIDE DEF b
<1>2. ASSUME NEW x PROVE x \in Elems(b) <=> x \in Elems(s) /\ x # s[1]
  <2>1. ASSUME NEW i \in 1 .. Len(b), x = b[i] PROVE x \in Elems(s) /\ x # s[1]
    <3>1. i + 1 \in 1 .. Len(s) /\ x = s[i + 1] /\ 1 \in 1 .. Len(s) /\ i + 1 # 1
      BY <1>1, <2>1
    <3> QED BY Zenon, <3>1 DEF Elems
  <2>2. ASSUME NEW i \in 1 .. Len(s), x = s[i], x # s[1] PROVE x \in Elems(b)
    <3>1. i - 1 \in 1 .. Len(b) /\ x = b[i - 1]
      BY <1>1, <2>2
    <3> QED BY Zenon, <3>1 DEF Elems
  <2> QED BY Zenon, <2>1, <2>2 DEF Elems
<1>3. s[1] \in Elems(s)
  <2>1. 1 \in 1 .. Len(s)
    BY <1>1
  <2> QED BY Zenon, <2>1 DEF Elems
<1> QED BY Zenon, <1>2, <1>3 DEF b

LEMMA ElemsPush ==
  ASSUME NEW N, NEW s \in Seq(N), NEW n \in N
  PROVE  Elems(<<n>> \o s) = Elems(s) \cup {n}
<1> DEFINE a == <<n>> \o s
<1>1. /\ Len(s) \in Nat /\ Len(a) = Len(s) + 1 /\ a[1] = n
      /\ \A i \in 1 .. Len(s) : a[i + 1] = s[i]
  OBVIOUS
<1> HIDE DEF a
<1>2. ASSUME NEW x PROVE x \in Elems(a) <=> x \in Elems(s) \cup {n}
  <2>1. ASSUME NEW i \in 1 .. Len(a), x = a[i] PROVE x \in Elems(s) \cup {n}
    <3>1. CASE i = 1
      BY Zenon, <1>1, <2>1, <3>1
    <3>2. CASE i # 1
      <4>1. i - 1 \in 1 .. Len(s) /\ (i - 1) + 1 = i
        BY <1>1, <2>1, <3>2
      <4>2. x = s[i - 1]
        BY Zenon, <1>1, <2>1, <4>1
      <4> QED BY Zenon, <4>1, <4>2 DEF Elems
    <3> QED BY Zenon, <3>1, <3>2
  <2>2. ASSUME NEW i \in 1 .. Len(s), x = s[i] PROVE x \in Elems(a)
    <3>1. i + 1 \in 1 .. Len(a) /\ x = a[i + 1]
      BY <1>1, <2>2
    <3> QED BY Zenon, <3>1 DEF Elems
  <2>3. n \in Elems(a)
    <3>1. 1 \in 1 .. Len(a)
      BY <1>1
    <3> QED BY Zenon, <1>1, <3>1 DEF Elems
  <2> QED BY <2>1, <2>2, <2>3 DEF Elems
<1> QED BY Zenon, <1>2 DEF a

-------------------------------------------------------------------------------
(* The run queue, the timeouts and the wait queues *)

\* ready_count, a uint8_t, can count the threads of any set.
LEMMA Countable ==
  ASSUME NEW T \in SUBSET Threads
  PROVE  IsFiniteSet(T) /\ Cardinality(T) \in 0 .. 255
<1>1. IsFiniteSet(T) /\ Cardinality(T) <= Cardinality(Threads)
  BY Zenon, KernelAssumption, FS_Subset
<1>2. Cardinality(T) \in Nat /\ Cardinality(Threads) \in Nat
  BY Zenon, <1>1, KernelAssumption, FS_CardinalityType
<1> QED BY <1>1, <1>2, KernelAssumption

\* z_schedule adds one thread to the READY threads and to the run queue.
LEMMA ScheduleThread ==
  ASSUME NEW s \in KernelStates, IdleOK(s), RunQueueOK(s),
         NEW t \in Threads, t \notin Ready(s)
  PROVE  LET r == z_schedule(s, t)
         IN  /\ r \in KernelStates /\ IdleOK(r) /\ RunQueueOK(r)
             /\ Ready(r) = Ready(s) \cup {t}
             /\ r.state = [s.state EXCEPT ![t] = "READY"]
             /\ r.run_queue = IF Ready(s) = {} THEN t ELSE s.run_queue
             /\ r.expired = s.expired /\ r.canceled = s.canceled
             /\ r.wakeup = s.wakeup /\ r.timeouts = s.timeouts
             /\ r.current = s.current /\ r.wq = s.wq /\ r.on = s.on
<1> DEFINE r == z_schedule(s, t)
           d == IF Ready(s) = {} THEN dlist_init(s.rq, t)
                                 ELSE dlist_prepend(s.rq, s.run_queue, t)
           st == [s.state EXCEPT ![t] = "READY"]
           n == s.ready_count + 1
           first == IF Ready(s) = {} THEN t ELSE s.run_queue
<1>1. /\ IsFiniteSet(Ready(s)) /\ Cardinality(Ready(s)) \in 0 .. 255
      /\ Cardinality(Ready(s) \cup {t}) \in 0 .. 255
      /\ Cardinality(Ready(s) \cup {t}) = Cardinality(Ready(s)) + 1
  <2>1. Ready(s) \in SUBSET Threads /\ Ready(s) \cup {t} \in SUBSET Threads
    BY Zenon DEF Ready
  <2> QED BY Zenon, <2>1, Countable, FS_AddElement
<1>2. s.ready_count = 0 <=> Ready(s) = {}
  BY Zenon, <1>1, FS_EmptySet DEF RunQueueOK
<1>3. s.ready_count \in 0 .. 255 /\ (s.ready_count + 1) % 256 = s.ready_count + 1
      /\ s.ready_count + 1 = Cardinality(Ready(s) \cup {t})
  BY <1>1 DEF RunQueueOK
<1>4. d \in Structures(RqNodes) /\ Ring(d, Ready(s) \cup {t})
  <2>1. s.rq \in Structures(RqNodes) /\ t \in RqNodes /\ Ready(s) \in SUBSET RqNodes
    BY Zenon DEF KernelStates, RqNodes, Ready
  <2>2. CASE Ready(s) = {}
    BY <2>1, <2>2, InitPointers
  <2>3. CASE Ready(s) # {}
    <3>1. s.run_queue \in Ready(s) /\ Ring(s.rq, Ready(s)) /\ t \in RqNodes \ Ready(s)
      BY Zenon, <2>1, <2>3 DEF RunQueueOK
    <3> QED BY Zenon, <2>1, <2>3, <3>1, RingPrepend
  <2> QED BY Zenon, <2>2, <2>3
<1>5. /\ st \in ThreadStates
      /\ n \in 0 .. 255
      /\ first \in Threads \cup {Idle}
  BY Zenon, <1>1, <1>3 DEF KernelStates, ThreadStates
<1>6. r = [s EXCEPT !.state = st, !.ready_count = n, !.rq = d, !.run_queue = first]
  BY ZenonT(30), <1>2, <1>3 DEF z_schedule
<1>7. /\ r \in KernelStates
      /\ r.state = st /\ r.run_queue = first
      /\ r.expired = s.expired /\ r.canceled = s.canceled
      /\ r.wakeup = s.wakeup /\ r.timeouts = s.timeouts
      /\ r.current = s.current /\ r.wq = s.wq /\ r.on = s.on
      /\ r.rq = d /\ r.ready_count = n
  <2> HIDE DEF st, n, first, d, r
  <2>1. d \in Structures(Threads \cup {Idle, NULL})
    BY Zenon, <1>4 DEF RqNodes
  <2> QED BY ZenonT(30), <1>5, <1>6, <2>1 DEF KernelStates
<1> HIDE DEF r
<1>8. Ready(r) = Ready(s) \cup {t}
  BY <1>7 DEF Ready, KernelStates, ThreadStates
<1>9. IdleOK(r)
  BY <1>7, Disjoint DEF IdleOK, KernelStates, ThreadStates
<1>10. RunQueueOK(r)
  BY Zenon, <1>3, <1>4, <1>7, <1>8 DEF RunQueueOK
<1> QED BY Zenon, <1>7, <1>8, <1>9, <1>10 DEF r

\* z_scheduler leaves the run queue a run queue and makes its first thread, or
\* the idle thread, the current one.
LEMMA SwitchThread ==
  ASSUME NEW s \in KernelStates, IdleOK(s), RunQueueOK(s)
  PROVE  LET r == z_scheduler(s)
         IN  /\ r \in KernelStates /\ IdleOK(r) /\ RunQueueOK(r)
             /\ CurrentOK(r)
             /\ Ready(r) = Ready(s)
             /\ r.state = s.state /\ r.wakeup = s.wakeup
             /\ r.timeouts = s.timeouts /\ r.wq = s.wq /\ r.on = s.on
             /\ r.expired = s.expired \ {s.current}
             /\ r.canceled = s.canceled \ {s.current}
<1> DEFINE r == z_scheduler(s)
           first == IF s.state[s.current] = "READY" THEN s.rq.next[s.run_queue]
                                                    ELSE s.run_queue
<1>1. r = [s EXCEPT !.expired = @ \ {s.current}, !.canceled = @ \ {s.current},
                    !.run_queue = first, !.current = first]
  BY Zenon DEF z_scheduler
<1>2. IF Ready(s) = {} THEN first = Idle ELSE first \in Ready(s)
  <2>1. CASE s.state[s.current] = "READY"
    <3>1. s.current \in Ready(s)
      BY Zenon, <2>1 DEF Ready, IdleOK, KernelStates
    <3> QED BY Zenon, <2>1, <3>1 DEF RunQueueOK, Ring
  <2>2. CASE s.state[s.current] # "READY"
    BY Zenon, <2>2 DEF RunQueueOK
  <2> QED BY Zenon, <2>1, <2>2
<1>3. first \in Threads \cup {Idle}
  BY Zenon, <1>2 DEF Ready
<1> HIDE DEF first
<1>4. r \in KernelStates
  <2>1. s.expired \ {s.current} \in SUBSET Threads
        /\ s.canceled \ {s.current} \in SUBSET Threads
    BY Zenon DEF KernelStates
  <2> HIDE DEF r
  <2> QED BY ZenonT(30), <1>1, <1>3, <2>1 DEF KernelStates
<1>5. /\ r.state = s.state /\ r.wakeup = s.wakeup
      /\ r.timeouts = s.timeouts /\ r.wq = s.wq /\ r.on = s.on
      /\ r.expired = s.expired \ {s.current}
      /\ r.canceled = s.canceled \ {s.current}
      /\ r.rq = s.rq /\ r.ready_count = s.ready_count
      /\ r.run_queue = first /\ r.current = first
  BY Zenon, <1>1 DEF KernelStates
<1> HIDE DEF r
<1>6. Ready(r) = Ready(s) /\ IdleOK(r)
  BY Zenon, <1>5 DEF Ready, IdleOK
<1>7. RunQueueOK(r) /\ CurrentOK(r)
  BY Zenon, <1>2, <1>5, <1>6 DEF RunQueueOK, CurrentOK
<1> QED BY Zenon, <1>4, <1>5, <1>6, <1>7 DEF r

\* z_cancel_scheduled_wake_up takes the thread, and no other, off the timeouts.
LEMMA CancelWakeUp ==
  ASSUME NEW s \in KernelStates, TimeoutsOK(s), NEW t \in Threads
  PROVE  LET r == z_cancel_scheduled_wake_up(s, t)
         IN  /\ r \in KernelStates
             /\ r.wakeup = s.wakeup \ {t}
             /\ Items(r.timeouts) = r.wakeup /\ NoRepeat(r.timeouts)
             /\ r.state = s.state /\ r.run_queue = s.run_queue
             /\ r.rq = s.rq /\ r.ready_count = s.ready_count
             /\ r.expired = s.expired /\ r.canceled = s.canceled
             /\ r.current = s.current /\ r.wq = s.wq /\ r.on = s.on
<1> DEFINE r == z_cancel_scheduled_wake_up(s, t)
           l == Without(s.timeouts, t)
<1>1. s.timeouts \in Lists(Threads)
  BY Zenon DEF KernelStates, TimeoutLists, Lists
<1>2. l \in TimeoutLists /\ Items(l) = Items(s.timeouts) \ {t} /\ NoRepeat(l)
  BY ZenonT(30), <1>1, WithoutItems DEF TimeoutsOK, Lists, TimeoutLists
<1> HIDE DEF l
<1>3. CASE t \in s.wakeup
  <2>1. s.wakeup \ {t} \in SUBSET Threads
    BY Zenon DEF KernelStates
  <2>2. r = [s EXCEPT !.wakeup = s.wakeup \ {t}, !.timeouts = l]
    BY Zenon, <1>3 DEF z_cancel_scheduled_wake_up, l
  <2> HIDE DEF r
  <2>3. r \in KernelStates
    BY ZenonT(30), <1>2, <2>1, <2>2 DEF KernelStates
  <2>4. /\ r.wakeup = s.wakeup \ {t} /\ r.timeouts = l
        /\ r.state = s.state /\ r.run_queue = s.run_queue
        /\ r.rq = s.rq /\ r.ready_count = s.ready_count
        /\ r.expired = s.expired /\ r.canceled = s.canceled
        /\ r.current = s.current /\ r.wq = s.wq /\ r.on = s.on
    BY Zenon, <2>2 DEF KernelStates
  <2> QED BY Zenon, <1>2, <2>3, <2>4 DEF TimeoutsOK, r
<1>4. CASE t \notin s.wakeup
  BY Zenon, <1>4 DEF z_cancel_scheduled_wake_up, TimeoutsOK
<1> QED BY Zenon, <1>3, <1>4

\* z_wake_up makes a thread READY and takes it off the timeouts.
LEMMA WakeUpThread ==
  ASSUME NEW s \in KernelStates, IdleOK(s), RunQueueOK(s), TimeoutsOK(s),
         NEW t \in Threads, t \notin Ready(s)
  PROVE  LET r == z_wake_up(s, t)
         IN  /\ r \in KernelStates /\ IdleOK(r) /\ RunQueueOK(r) /\ TimeoutsOK(r)
             /\ Ready(r) = Ready(s) \cup {t}
             /\ r.state = [s.state EXCEPT ![t] = "READY"]
             /\ r.run_queue = IF Ready(s) = {} THEN t ELSE s.run_queue
             /\ r.wakeup = s.wakeup \ {t}
             /\ r.expired = s.expired /\ r.canceled = s.canceled
             /\ r.current = s.current /\ r.wq = s.wq /\ r.on = s.on
<1> DEFINE c == z_cancel_scheduled_wake_up(s, t)
           r == z_wake_up(s, t)
<1>1. /\ c \in KernelStates
      /\ c.wakeup = s.wakeup \ {t}
      /\ Items(c.timeouts) = c.wakeup /\ NoRepeat(c.timeouts)
      /\ c.state = s.state /\ c.run_queue = s.run_queue
      /\ c.rq = s.rq /\ c.ready_count = s.ready_count
      /\ c.expired = s.expired /\ c.canceled = s.canceled
      /\ c.current = s.current /\ c.wq = s.wq /\ c.on = s.on
  BY Zenon, CancelWakeUp
<1>2. r = z_schedule(c, t)
  BY Zenon DEF z_wake_up
<1> HIDE DEF c, r
<1>3. Ready(c) = Ready(s) /\ IdleOK(c) /\ RunQueueOK(c)
  BY <1>1 DEF Ready, IdleOK, RunQueueOK
<1>4. /\ r \in KernelStates /\ IdleOK(r) /\ RunQueueOK(r)
      /\ Ready(r) = Ready(c) \cup {t}
      /\ r.state = [c.state EXCEPT ![t] = "READY"]
      /\ r.run_queue = IF Ready(c) = {} THEN t ELSE c.run_queue
      /\ r.expired = c.expired /\ r.canceled = c.canceled
      /\ r.wakeup = c.wakeup /\ r.timeouts = c.timeouts
      /\ r.current = c.current /\ r.wq = c.wq /\ r.on = c.on
  BY <1>1, <1>2, <1>3, ScheduleThread
<1>5. TimeoutsOK(r)
  <2>1. ASSUME NEW u \in s.wakeup \ {t} PROVE r.state[u] = "PENDING"
    BY <1>1, <1>4 DEF TimeoutsOK, KernelStates, ThreadStates
  <2> QED BY Zenon, <1>1, <1>4, <2>1 DEF TimeoutsOK
<1> QED BY Zenon, <1>1, <1>3, <1>4, <1>5 DEF r

\* A thread that leaves its wait queue and becomes READY leaves the wait queues
\* as they have to be.
LEMMA LeaveQueue ==
  ASSUME NEW s \in KernelStates, NEW r \in KernelStates, WaitQueuesOK(s),
         NEW q \in Queues, NEW t \in Waiting(s, q),
         Ring(r.wq, ({q} \cup Waiting(s, q)) \ {t}),
         \A x \in WqNodes \ ({q} \cup Waiting(s, q)) :
           r.wq.next[x] = s.wq.next[x] /\ r.wq.prev[x] = s.wq.prev[x],
         r.state = [s.state EXCEPT ![t] = "READY"], r.on = s.on
  PROVE  WaitQueuesOK(r)
<1> SUFFICES ASSUME NEW p \in Queues
             PROVE  Ring(r.wq, {p} \cup Waiting(r, p))
  BY Zenon DEF WaitQueuesOK
<1>1. CASE p = q
  <2>1. {q} \cup Waiting(r, q) = ({q} \cup Waiting(s, q)) \ {t}
    BY Disjoint DEF Waiting, KernelStates, ThreadStates
  <2> QED BY Zenon, <1>1, <2>1
<1>2. CASE p # q
  <2>1. Waiting(r, p) = Waiting(s, p)
    BY Zenon, <1>2 DEF Waiting, KernelStates, ThreadStates
  <2>2. \A x \in {p} \cup Waiting(s, p) : x \in WqNodes \ ({q} \cup Waiting(s, q))
    BY Zenon, <1>2, Disjoint DEF Waiting, WqNodes
  <2>3. Ring(s.wq, {p} \cup Waiting(s, p))
    BY Zenon DEF WaitQueuesOK
  <2> QED BY <2>1, <2>2, <2>3, RingFrame
<1> QED BY Zenon, <1>1, <1>2

\* The first node of a wait queue that is not empty is a thread waiting on it.
LEMMA FirstWaits ==
  ASSUME NEW s \in KernelStates, WaitQueuesOK(s), NEW q \in Queues,
         ~ DLIST_EMPTY(s.wq, q)
  PROVE  s.wq.next[q] \in Waiting(s, q)
BY Zenon DEF WaitQueuesOK, Ring, DLIST_EMPTY

\* An empty wait queue has no waiting thread.
LEMMA NobodyWaits ==
  ASSUME NEW s \in KernelStates, WaitQueuesOK(s), NEW q \in Queues,
         DLIST_EMPTY(s.wq, q)
  PROVE  Waiting(s, q) = {}
<1>1. Ring(s.wq, {q} \cup Waiting(s, q))
  BY Zenon DEF WaitQueuesOK
<1>2. \A x \in {q} : s.wq.next[x] \in {q}
  BY Zenon DEF DLIST_EMPTY
<1>3. {q} = {q} \cup Waiting(s, q)
  <2>1. {q} \in SUBSET ({q} \cup Waiting(s, q)) /\ {q} # {}
    BY Zenon
  <2> QED BY ZenonT(30), <1>1, <1>2, <2>1 DEF Ring
<1> QED BY Zenon, <1>3, Disjoint DEF Waiting

\* z_unpend_first_thread wakes up the first thread of the wait queue.
LEMMA UnpendFirst ==
  ASSUME NEW S \in SUBSET Threads, NEW s, KernelOK(s, S), NEW q \in Queues,
         ~ DLIST_EMPTY(s.wq, q)
  PROVE  LET t == s.wq.next[q]
             r == z_unpend_first_thread(s, q)
         IN  /\ t \in Waiting(s, q)
             /\ KernelOK(r, S)
             /\ Ready(r) = Ready(s) \cup {t}
             /\ r.state = [s.state EXCEPT ![t] = "READY"]
             /\ r.run_queue = IF Ready(s) = {} THEN t ELSE s.run_queue
             /\ r.wakeup = s.wakeup \ {t}
             /\ r.expired = s.expired /\ r.canceled = s.canceled
             /\ r.current = s.current /\ r.on = s.on
<1> DEFINE t == s.wq.next[q]
           r == z_unpend_first_thread(s, q)
           d == dlist_remove(s.wq, t)
           e == dlist_init(d, t)
           c == [s EXCEPT !.wq = e]
           Q == {q} \cup Waiting(s, q)
<1>1. s \in KernelStates /\ IdleOK(s) /\ RunQueueOK(s) /\ WaitQueuesOK(s)
      /\ TimeoutsOK(s) /\ LinksOK(s, S)
  BY Zenon DEF KernelOK
<1>2. t \in Waiting(s, q)
  BY Zenon, <1>1, FirstWaits
<1>3. t \in Threads /\ s.state[t] = "PENDING" /\ s.on[t] = q /\ t \notin Ready(s)
  BY Zenon, <1>2 DEF Waiting, Ready
<1>4. /\ d \in Structures(WqNodes)
      /\ Ring(d, Q \ {t})
      /\ \A x \in WqNodes \ Q : d.next[x] = s.wq.next[x] /\ d.prev[x] = s.wq.prev[x]
  <2>1. s.wq \in Structures(WqNodes) /\ Q \in SUBSET WqNodes /\ Ring(s.wq, Q)
    BY Zenon, <1>1 DEF KernelStates, WqNodes, Waiting, WaitQueuesOK
  <2>2. t \in Q
    BY Zenon, <1>2
  <2> HIDE DEF Q, t
  <2> QED BY <2>1, <2>2, RingRemove
<1>5. /\ e \in Structures(WqNodes)
      /\ e.next[t] = t /\ e.prev[t] = t
      /\ \A x \in WqNodes \ {t} : e.next[x] = d.next[x] /\ e.prev[x] = d.prev[x]
  <2>1. t \in WqNodes
    BY Zenon, <1>3 DEF WqNodes
  <2> HIDE DEF d, t
  <2>2. Ring(e, {t})
    BY Zenon, <1>4, <2>1, InitPointers
  <2> QED BY <1>4, <2>1, <2>2, InitPointers DEF Ring
<1>6. Ring(e, Q \ {t})
  <2>1. \A x \in Q \ {t} : x \in WqNodes \ {t}
    BY SMTT(30) DEF WqNodes, Waiting
  <2> HIDE DEF Q, d, e, t
  <2> QED BY <1>4, <1>5, <2>1, RingFrame
<1>7. \A x \in WqNodes \ Q : e.next[x] = s.wq.next[x] /\ e.prev[x] = s.wq.prev[x]
  BY ZenonT(30), <1>2, <1>4, <1>5
<1> HIDE DEF d, e
<1>8. /\ c \in KernelStates /\ c.wq = e
      /\ c.state = s.state /\ c.run_queue = s.run_queue
      /\ c.rq = s.rq /\ c.ready_count = s.ready_count
      /\ c.expired = s.expired /\ c.canceled = s.canceled
      /\ c.wakeup = s.wakeup /\ c.timeouts = s.timeouts
      /\ c.current = s.current /\ c.on = s.on
  BY Zenon, <1>1, <1>5 DEF KernelStates, WqNodes
<1>9. r = z_wake_up(c, t)
  BY Zenon DEF z_unpend_first_thread, e, d
<1> HIDE DEF c, r, t
<1>10. Ready(c) = Ready(s) /\ IdleOK(c) /\ RunQueueOK(c) /\ TimeoutsOK(c)
  BY <1>1, <1>8 DEF Ready, IdleOK, RunQueueOK, TimeoutsOK
<1>11. /\ r \in KernelStates /\ IdleOK(r) /\ RunQueueOK(r) /\ TimeoutsOK(r)
       /\ Ready(r) = Ready(c) \cup {t}
       /\ r.state = [c.state EXCEPT ![t] = "READY"]
       /\ r.run_queue = IF Ready(c) = {} THEN t ELSE c.run_queue
       /\ r.wakeup = c.wakeup \ {t}
       /\ r.expired = c.expired /\ r.canceled = c.canceled
       /\ r.current = c.current /\ r.wq = c.wq /\ r.on = c.on
  BY Zenon, <1>3, <1>8, <1>9, <1>10, WakeUpThread
<1>12. WaitQueuesOK(r)
  BY SMTT(30), <1>1, <1>2, <1>6, <1>7, <1>8, <1>11, LeaveQueue
<1>13. LinksOK(r, S)
  <2>1. ASSUME NEW u \in S, r.state[u] # "PENDING" \/ r.on[u] = NULL
        PROVE  r.wq.next[u] = r.wq.prev[u] /\ r.wq.next[u] \in {u, NULL}
    <3>1. CASE u = t
      BY Zenon, <1>5, <1>8, <1>11, <3>1
    <3>2. CASE u # t
      <4>1. s.state[u] # "PENDING" \/ s.on[u] = NULL
        BY <1>1, <1>3, <1>8, <1>11, <2>1, <3>2 DEF KernelStates, ThreadStates
      <4>2. u \in WqNodes \ Q
        BY Zenon, <4>1, Disjoint DEF WqNodes, Waiting
      <4> QED BY <1>1, <1>7, <1>8, <1>11, <4>1, <4>2 DEF LinksOK
    <3> QED BY Zenon, <3>1, <3>2
  <2>2. ASSUME NEW u \in r.wakeup PROVE u \in S <=> r.on[u] = NULL
    BY <1>1, <1>8, <1>11 DEF LinksOK
  <2> QED BY Zenon, <2>1, <2>2 DEF LinksOK
<1> QED BY Zenon, <1>2, <1>8, <1>10, <1>11, <1>12, <1>13 DEF KernelOK, r, t

\* KernelOK is about these fields of the state only.
LEMMA KernelFrame ==
  ASSUME NEW S, NEW s, KernelOK(s, S), NEW r \in KernelStates,
         r.state = s.state, r.rq = s.rq, r.ready_count = s.ready_count,
         r.run_queue = s.run_queue, r.wq = s.wq, r.on = s.on,
         r.wakeup = s.wakeup, r.timeouts = s.timeouts
  PROVE  KernelOK(r, S) /\ Ready(r) = Ready(s)
<1>1. Ready(r) = Ready(s) /\ \A q \in Queues : Waiting(r, q) = Waiting(s, q)
  BY Zenon DEF Ready, Waiting
<1>2. s \in KernelStates /\ IdleOK(s) /\ RunQueueOK(s) /\ WaitQueuesOK(s)
      /\ TimeoutsOK(s) /\ LinksOK(s, S)
  BY Zenon DEF KernelOK
<1>3. IdleOK(r) /\ RunQueueOK(r)
  BY Zenon, <1>1, <1>2 DEF IdleOK, RunQueueOK
<1>4. WaitQueuesOK(r) /\ TimeoutsOK(r)
  BY Zenon, <1>1, <1>2 DEF WaitQueuesOK, TimeoutsOK
<1>5. LinksOK(r, S)
  BY Zenon, <1>2 DEF LinksOK
<1> QED BY Zenon, <1>1, <1>3, <1>4, <1>5 DEF KernelOK

\* z_cancel_first_pending wakes up the first thread of the wait queue, too.
LEMMA CancelFirst ==
  ASSUME NEW S \in SUBSET Threads, NEW s, KernelOK(s, S), NEW q \in Queues,
         ~ DLIST_EMPTY(s.wq, q)
  PROVE  LET t == s.wq.next[q]
             r == z_cancel_first_pending(s, q)
         IN  /\ t \in Waiting(s, q)
             /\ KernelOK(r, S)
             /\ Ready(r) = Ready(s) \cup {t}
             /\ r.state = [s.state EXCEPT ![t] = "READY"]
             /\ r.run_queue = IF Ready(s) = {} THEN t ELSE s.run_queue
             /\ r.wakeup = s.wakeup \ {t}
             /\ r.expired = s.expired /\ r.canceled = s.canceled \cup {t}
             /\ r.current = s.current /\ r.on = s.on
<1> DEFINE t == s.wq.next[q]
           c == z_unpend_first_thread(s, q)
           r == z_cancel_first_pending(s, q)
<1>1. /\ t \in Waiting(s, q)
      /\ KernelOK(c, S)
      /\ Ready(c) = Ready(s) \cup {t}
      /\ c.state = [s.state EXCEPT ![t] = "READY"]
      /\ c.run_queue = IF Ready(s) = {} THEN t ELSE s.run_queue
      /\ c.wakeup = s.wakeup \ {t}
      /\ c.expired = s.expired /\ c.canceled = s.canceled
      /\ c.current = s.current /\ c.on = s.on
  BY ZenonT(30), UnpendFirst
<1>2. r = [c EXCEPT !.canceled = c.canceled \cup {t}]
  BY Zenon DEF z_cancel_first_pending
<1> HIDE DEF c, r, t
<1>3. c \in KernelStates /\ c.canceled \cup {t} \in SUBSET Threads
  BY Zenon, <1>1 DEF KernelOK, KernelStates, Waiting
<1>4. r \in KernelStates
  BY <1>2, <1>3 DEF KernelStates
<1>5. /\ r.state = c.state /\ r.rq = c.rq /\ r.ready_count = c.ready_count
      /\ r.run_queue = c.run_queue /\ r.wq = c.wq /\ r.on = c.on
      /\ r.wakeup = c.wakeup /\ r.timeouts = c.timeouts
      /\ r.current = c.current /\ r.expired = c.expired
      /\ r.canceled = c.canceled \cup {t}
  BY Zenon, <1>2, <1>3 DEF KernelStates
<1>6. KernelOK(r, S) /\ Ready(r) = Ready(c)
  BY ZenonT(30), <1>1, <1>4, <1>5, KernelFrame
<1> QED BY Zenon, <1>1, <1>5, <1>6 DEF r, t

\* A turn of the loop of z_sched_enter wakes up the thread whose time is up, and
\* takes it out of the wait queue it is in, if any.
LEMMA ExpireFirst ==
  ASSUME NEW S \in SUBSET Threads, NEW s, KernelOK(s, S), HasExpired(s.timeouts)
  PROVE  LET t == s.timeouts[1].item
             r == Expire(s)
         IN  /\ t \in Threads /\ s.state[t] = "PENDING" /\ t \in s.wakeup
             /\ KernelOK(r, S)
             /\ Ready(r) = Ready(s) \cup {t}
             /\ r.state = [s.state EXCEPT ![t] = "READY"]
             /\ r.run_queue = IF Ready(s) = {} THEN t ELSE s.run_queue
             /\ r.wakeup = s.wakeup \ {t}
             /\ r.expired = s.expired \cup {t} /\ r.canceled = s.canceled
             /\ r.current = s.current /\ r.on = s.on
<1> DEFINE t == s.timeouts[1].item
           l == Tail(s.timeouts)
           e == dlist_remove(s.wq, t)
           w == s.wakeup \ {t}
           xp == s.expired \cup {t}
           c == [s EXCEPT !.timeouts = l, !.expired = xp, !.wakeup = w, !.wq = e]
           r == Expire(s)
<1>1. s \in KernelStates /\ IdleOK(s) /\ RunQueueOK(s) /\ WaitQueuesOK(s)
      /\ TimeoutsOK(s) /\ LinksOK(s, S)
  BY Zenon DEF KernelOK
<1>2. /\ t \in Threads /\ t \in Items(s.timeouts)
      /\ l \in TimeoutLists /\ Items(l) = Items(s.timeouts) \ {t} /\ NoRepeat(l)
  BY ZenonT(30), <1>1, TailItems DEF KernelStates, TimeoutLists, Lists, HasExpired, TimeoutsOK
<1>3. r = z_schedule(c, t)
  BY Zenon DEF Expire
<1> HIDE DEF t, l
<1>4. t \in s.wakeup /\ s.state[t] = "PENDING" /\ t \notin Ready(s)
  BY Zenon, <1>1, <1>2 DEF TimeoutsOK, Ready
<1>5. w \in SUBSET Threads /\ xp \in SUBSET Threads
  BY Zenon, <1>1, <1>2 DEF KernelStates
<1>6. s.wq \in Structures(WqNodes) /\ t \in WqNodes
  BY Zenon, <1>1, <1>2 DEF KernelStates, WqNodes
<1>7. e \in Structures(WqNodes)
  BY ZenonT(30), <1>6, RemovePointers
<1> HIDE DEF w, xp, e, c, r
<1>8. c \in KernelStates
  BY ZenonT(30), <1>1, <1>2, <1>5, <1>7 DEF KernelStates, WqNodes, c
<1>9. /\ c.wq = e /\ c.timeouts = l /\ c.wakeup = w /\ c.expired = xp
      /\ c.state = s.state /\ c.run_queue = s.run_queue
      /\ c.rq = s.rq /\ c.ready_count = s.ready_count
      /\ c.canceled = s.canceled /\ c.current = s.current /\ c.on = s.on
  BY Zenon, <1>1 DEF KernelStates, c
<1>10. Ready(c) = Ready(s) /\ IdleOK(c) /\ RunQueueOK(c)
  BY <1>1, <1>9 DEF Ready, IdleOK, RunQueueOK
<1>11. /\ r \in KernelStates /\ IdleOK(r) /\ RunQueueOK(r)
       /\ Ready(r) = Ready(c) \cup {t}
       /\ r.state = [c.state EXCEPT ![t] = "READY"]
       /\ r.run_queue = IF Ready(c) = {} THEN t ELSE c.run_queue
       /\ r.expired = c.expired /\ r.canceled = c.canceled
       /\ r.wakeup = c.wakeup /\ r.timeouts = c.timeouts
       /\ r.current = c.current /\ r.wq = c.wq /\ r.on = c.on
  BY Zenon, <1>2, <1>3, <1>4, <1>8, <1>10, ScheduleThread
<1>12. TimeoutsOK(r)
  <2>1. Items(r.timeouts) = r.wakeup /\ NoRepeat(r.timeouts)
    BY Zenon, <1>1, <1>2, <1>9, <1>11 DEF TimeoutsOK, w
  <2>2. ASSUME NEW u \in s.wakeup \ {t} PROVE r.state[u] = "PENDING"
    BY <1>1, <1>9, <1>11 DEF TimeoutsOK, KernelStates, ThreadStates
  <2> QED BY Zenon, <1>9, <1>11, <2>1, <2>2 DEF TimeoutsOK, w
<1>13. ASSUME s.on[t] = NULL
       PROVE  WaitQueuesOK(r) /\ LinksOK(r, S)
  <2>1. t \in S /\ s.wq.next[t] = s.wq.prev[t] /\ s.wq.next[t] \in {t, NULL}
    BY Zenon, <1>1, <1>4, <1>13 DEF LinksOK
  <2>2. \A y \in WqNodes \ {s.wq.next[t]} :
          e.next[y] = s.wq.next[y] /\ e.prev[y] = s.wq.prev[y]
    BY <1>6, <2>1, RemoveUnlinked DEF e
  <2>3. /\ e.next[s.wq.next[t]] = s.wq.next[t]
        /\ e.prev[s.wq.next[t]] = s.wq.next[t]
    BY <1>6, <2>1, RemoveUnlinked DEF e
  <2>4. WaitQueuesOK(r)
    <3> SUFFICES ASSUME NEW p \in Queues
                 PROVE  Ring(r.wq, {p} \cup Waiting(r, p))
      BY Zenon DEF WaitQueuesOK
    <3>1. Waiting(r, p) = Waiting(s, p)
      BY <1>1, <1>9, <1>11, <1>13, Disjoint DEF Waiting, KernelStates, ThreadStates
    <3>2. \A y \in {p} \cup Waiting(s, p) : y \in WqNodes \ {s.wq.next[t]}
      BY <1>2, <1>13, <2>1, Disjoint DEF Waiting, WqNodes
    <3>3. Ring(s.wq, {p} \cup Waiting(s, p))
      BY Zenon, <1>1 DEF WaitQueuesOK
    <3> QED BY <1>9, <1>11, <2>2, <3>1, <3>2, <3>3, RingFrame
  <2>5. LinksOK(r, S)
    <3>1. ASSUME NEW u \in S, r.state[u] # "PENDING" \/ r.on[u] = NULL
          PROVE  r.wq.next[u] = r.wq.prev[u] /\ r.wq.next[u] \in {u, NULL}
      <4>1. CASE u = t
        <5>1. s.wq.next[t] = t \/ t \in WqNodes \ {s.wq.next[t]}
          BY Zenon, <1>6
        <5> QED BY <1>9, <1>11, <2>1, <2>2, <2>3, <4>1, <5>1
      <4>2. CASE u # t
        <5>1. s.state[u] # "PENDING" \/ s.on[u] = NULL
          BY <1>1, <1>9, <1>11, <3>1, <4>2 DEF KernelStates, ThreadStates
        <5>2. u \in WqNodes \ {s.wq.next[t]}
          BY Zenon, <2>1, <4>2, Disjoint DEF WqNodes
        <5> QED BY <1>1, <1>9, <1>11, <2>2, <5>1, <5>2 DEF LinksOK
      <4> QED BY Zenon, <4>1, <4>2
    <3>2. ASSUME NEW u \in r.wakeup PROVE u \in S <=> r.on[u] = NULL
      BY <1>1, <1>9, <1>11 DEF LinksOK, w
    <3> QED BY Zenon, <3>1, <3>2 DEF LinksOK
  <2> QED BY Zenon, <2>4, <2>5
<1>14. ASSUME s.on[t] # NULL
       PROVE  WaitQueuesOK(r) /\ LinksOK(r, S)
  <2> DEFINE q == s.on[t]
             Q == {q} \cup Waiting(s, q)
  <2>1. q \in Queues /\ t \in Waiting(s, q) /\ t \in Q
    BY Zenon, <1>1, <1>2, <1>4, <1>14 DEF KernelStates, Waiting
  <2>2. t \notin S
    BY Zenon, <1>1, <1>4, <1>14 DEF LinksOK
  <2>3. Q \in SUBSET WqNodes /\ Ring(s.wq, Q)
    BY Zenon, <1>1, <2>1 DEF WaitQueuesOK, Waiting, WqNodes
  <2> HIDE DEF q
  <2>4. /\ Ring(e, Q \ {t})
        /\ \A y \in WqNodes \ Q : e.next[y] = s.wq.next[y] /\ e.prev[y] = s.wq.prev[y]
    <3>1. t \in Q
      BY Zenon, <2>1
    <3> HIDE DEF Q
    <3>2. /\ dlist_remove(s.wq, t) \in Structures(WqNodes)
          /\ Ring(dlist_remove(s.wq, t), Q \ {t})
          /\ \A y \in WqNodes \ Q : /\ dlist_remove(s.wq, t).next[y] = s.wq.next[y]
                                  /\ dlist_remove(s.wq, t).prev[y] = s.wq.prev[y]
      BY <1>6, <2>3, <3>1, RingRemove
    <3> QED BY Zenon, <3>2 DEF e
  <2>5. WaitQueuesOK(r)
    <3>1. /\ r.wq = e /\ r.on = s.on /\ r \in KernelStates
          /\ r.state = [s.state EXCEPT ![t] = "READY"]
      BY Zenon, <1>9, <1>11
    <3>2. /\ Ring(r.wq, ({q} \cup Waiting(s, q)) \ {t})
          /\ \A x \in WqNodes \ ({q} \cup Waiting(s, q)) :
               r.wq.next[x] = s.wq.next[x] /\ r.wq.prev[x] = s.wq.prev[x]
      BY ZenonT(30), <2>4, <3>1
    <3> QED BY ZenonT(30), <1>1, <2>1, <3>1, <3>2, LeaveQueue
  <2>6. LinksOK(r, S)
    <3>1. ASSUME NEW u \in S, r.state[u] # "PENDING" \/ r.on[u] = NULL
          PROVE  r.wq.next[u] = r.wq.prev[u] /\ r.wq.next[u] \in {u, NULL}
      <4>1. s.state[u] # "PENDING" \/ s.on[u] = NULL
        BY <1>1, <1>9, <1>11, <2>2, <3>1 DEF KernelStates, ThreadStates
      <4>2. u \in WqNodes \ Q
        BY Zenon, <2>1, <4>1, Disjoint DEF WqNodes, Waiting
      <4> QED BY <1>1, <1>9, <1>11, <2>4, <4>1, <4>2 DEF LinksOK
    <3>2. ASSUME NEW u \in r.wakeup PROVE u \in S <=> r.on[u] = NULL
      BY <1>1, <1>9, <1>11 DEF LinksOK, w
    <3> QED BY <3>1, <3>2 DEF LinksOK
  <2> QED BY <2>5, <2>6
<1>15. KernelOK(r, S)
  BY Zenon, <1>11, <1>12, <1>13, <1>14 DEF KernelOK
<1>16. r.wakeup = s.wakeup \ {t} /\ r.expired = s.expired \cup {t}
  BY Zenon, <1>9, <1>11 DEF w, xp
<1> QED BY Zenon, <1>2, <1>4, <1>9, <1>10, <1>11, <1>15, <1>16 DEF r, t

\* z_suspend takes a READY thread out of the run queue.  The new first thread is
\* READY if the removed thread was the current and the first one, or was neither.
LEMMA DequeueThread ==
  ASSUME NEW s \in KernelStates, RunQueueOK(s), NEW t \in Ready(s),
         s.run_queue = t <=> s.current = t
  PROVE  \E d \in Structures(RqNodes), n \in 0 .. 255, first \in Threads \cup {Idle} :
           /\ z_suspend(s, t) = [s EXCEPT !.rq = d, !.ready_count = n,
                                          !.run_queue = first]
           /\ Ring(d, Ready(s) \ {t})
           /\ n = Cardinality(Ready(s) \ {t})
           /\ IF Ready(s) \ {t} = {} THEN first = Idle ELSE first \in Ready(s) \ {t}
<1> DEFINE d == dlist_remove(s.rq, t)
           n == (s.ready_count - 1) % 256
           first == IF n = 0 THEN Idle
                    ELSE IF t = s.current THEN d.prev[d.next[t]] ELSE s.run_queue
           R == Ready(s) \ {t}
<1>1. s.state[t] = "READY" /\ t \in Threads
  BY Zenon DEF Ready
<1>2. z_suspend(s, t) = [s EXCEPT !.rq = d, !.ready_count = n, !.run_queue = first]
  BY Zenon, <1>1 DEF z_suspend
<1>3. /\ IsFiniteSet(R) /\ Cardinality(R) \in 0 .. 255
      /\ Cardinality(R) = Cardinality(Ready(s)) - 1
      /\ Cardinality(Ready(s)) \in 0 .. 255
  <2>1. Ready(s) \in SUBSET Threads /\ R \in SUBSET Threads
    BY Zenon DEF Ready
  <2>2. IsFiniteSet(R) /\ Cardinality(R) \in 0 .. 255
    BY Zenon, <2>1, Countable
  <2>3. IsFiniteSet(Ready(s)) /\ Cardinality(Ready(s)) \in 0 .. 255
    BY SMTT(30), <2>1, Countable
  <2> QED BY Zenon, <2>2, <2>3, FS_RemoveElement
<1>4. n = Cardinality(R) /\ n \in 0 .. 255
  BY <1>3 DEF RunQueueOK
<1>5. n = 0 <=> R = {}
  BY <1>3, <1>4, FS_EmptySet
<1>6. /\ d \in Structures(RqNodes)
      /\ Ring(d, R)
      /\ d.next[t] = s.rq.next[t]
      /\ Ready(s) # {t} => d.prev[s.rq.next[t]] \in R
  <2>1. s.rq \in Structures(RqNodes) /\ Ready(s) \in SUBSET RqNodes
    BY Zenon DEF KernelStates, RqNodes, Ready
  <2>2. Ring(s.rq, Ready(s)) /\ t \in Ready(s)
    BY Zenon DEF RunQueueOK
  <2> DEFINE A == Ready(s)
             g == s.rq
             e == dlist_remove(g, t)
  <2>3. g \in Structures(RqNodes) /\ A \in SUBSET RqNodes /\ Ring(g, A) /\ t \in A
    BY SMTT(30), <2>1, <2>2
  <2> HIDE DEF A, g
  <2>4. /\ e \in Structures(RqNodes)
        /\ Ring(e, A \ {t})
        /\ e.next[t] = g.next[t]
        /\ A # {t} => e.prev[g.next[t]] \in A \ {t}
    BY <2>3, RingRemove
  <2> QED BY Zenon, <2>4 DEF A, g
<1>7. IF R = {} THEN first = Idle ELSE first \in R
  <2>1. CASE R = {}
    BY Zenon, <1>5, <2>1
  <2>2. CASE R # {} /\ t = s.current
    BY Zenon, <1>5, <1>6, <2>2
  <2>3. CASE R # {} /\ t # s.current
    BY Zenon, <1>5, <2>3 DEF RunQueueOK
  <2> HIDE DEF R, first
  <2> QED BY Zenon, <2>1, <2>2, <2>3
<1>8. first \in Threads \cup {Idle}
  BY Zenon, <1>7 DEF Ready
<1> HIDE DEF d, n, first
<1> QED BY ZenonT(30), <1>2, <1>4, <1>6, <1>7, <1>8

\* z_pend_current: the current thread is PENDING, with a scheduled wake-up if it
\* has a timeout, and another thread is current.
LEMMA PendCurrent ==
  ASSUME NEW s \in KernelStates, IdleOK(s), RunQueueOK(s), TimeoutsOK(s),
         CurrentOK(s), s.current \in Threads, NEW timeout \in Nat \cup {K_FOREVER}
  PROVE  LET t == s.current
             r == z_pend_current(s, timeout)
         IN  /\ r \in KernelStates /\ IdleOK(r) /\ RunQueueOK(r) /\ TimeoutsOK(r)
             /\ CurrentOK(r)
             /\ s.state[t] = "READY"
             /\ r.state = [s.state EXCEPT ![t] = "PENDING"]
             /\ r.wakeup = IF timeout = K_FOREVER THEN s.wakeup ELSE s.wakeup \cup {t}
             /\ r.expired = s.expired \ {t} /\ r.canceled = s.canceled \ {t}
             /\ r.wq = s.wq /\ r.on = s.on
<1> DEFINE t == s.current
           r == z_pend_current(s, timeout)
           st == [s.state EXCEPT ![t] = "PENDING"]
           w == IF timeout = K_FOREVER THEN s.wakeup ELSE s.wakeup \cup {t}
           l == IF timeout = K_FOREVER THEN s.timeouts
                                       ELSE Schedule(s.timeouts, t, timeout)
<1>1. t \in Ready(s) /\ s.run_queue = t /\ t \in Threads /\ s.state[t] = "READY"
  BY SMTT(30), Disjoint DEF CurrentOK, Ready
<1>2. PICK d \in Structures(RqNodes), n \in 0 .. 255, first \in Threads \cup {Idle} :
        /\ z_suspend(s, t) = [s EXCEPT !.rq = d, !.ready_count = n, !.run_queue = first]
        /\ Ring(d, Ready(s) \ {t})
        /\ n = Cardinality(Ready(s) \ {t})
        /\ IF Ready(s) \ {t} = {} THEN first = Idle ELSE first \in Ready(s) \ {t}
  BY ZenonT(30), <1>1, DequeueThread
<1> DEFINE e == IF timeout = K_FOREVER THEN d ELSE SetPrev(SetNext(d, t, NULL), t, NULL)
           a == z_suspend(s, t)
           c == [z_schedule_wake_up(a, timeout) EXCEPT !.state = [@ EXCEPT ![t] = "PENDING"]]
<1>3. t \notin s.wakeup
  BY Zenon, <1>1 DEF TimeoutsOK
<1>4. l \in TimeoutLists /\ Items(l) = w /\ NoRepeat(l)
  <2>1. s.timeouts \in Lists(Threads) /\ Items(s.timeouts) = s.wakeup /\ NoRepeat(s.timeouts)
    BY Zenon DEF KernelStates, TimeoutLists, Lists, TimeoutsOK
  <2>2. CASE timeout = K_FOREVER
    BY Zenon, <2>1, <2>2 DEF Lists, TimeoutLists
  <2>3. CASE timeout # K_FOREVER
    <3>1. timeout \in Nat /\ t \notin Items(s.timeouts)
      BY Zenon, <1>3, <2>1, <2>3
    <3> HIDE DEF t
    <3>2. LET ll == Schedule(s.timeouts, t, timeout)
          IN  ll \in Lists(Threads) /\ Items(ll) = s.wakeup \cup {t} /\ NoRepeat(ll)
      BY <1>1, <2>1, <3>1, ScheduleItems
    <3> QED BY Zenon, <2>3, <3>2 DEF Lists, TimeoutLists
  <2> QED BY Zenon, <2>2, <2>3
<1>5. st \in ThreadStates /\ w \in SUBSET Threads
  BY Zenon, <1>1 DEF KernelStates, ThreadStates
<1>6. e \in Structures(RqNodes) /\ Ring(e, Ready(s) \ {t})
  <2>1. t \in RqNodes /\ NULL \in RqNodes
    BY Zenon, <1>1 DEF RqNodes
  <2>2. e \in Structures(RqNodes)
        /\ \A x \in RqNodes \ {t} : e.next[x] = d.next[x] /\ e.prev[x] = d.prev[x]
    BY ZenonT(30), <2>1 DEF Structures, SetNext, SetPrev
  <2>3. \A x \in Ready(s) \ {t} : x \in RqNodes \ {t}
    BY Zenon DEF Ready, RqNodes
  <2> HIDE DEF e
  <2> QED BY <1>2, <2>2, <2>3, RingFrame
<1>7. r = z_scheduler(c)
  <2> HIDE DEF c
  <2> QED BY Zenon DEF z_pend_current, c
<1>8. /\ c \in KernelStates
      /\ c.state = st /\ c.rq = e /\ c.ready_count = n /\ c.run_queue = first
      /\ c.wakeup = w /\ c.timeouts = l /\ c.current = t
      /\ c.expired = s.expired /\ c.canceled = s.canceled /\ c.wq = s.wq /\ c.on = s.on
  <2>1. /\ a \in KernelStates /\ a.current = t /\ a.wakeup = s.wakeup /\ a.rq = d
        /\ a.timeouts = s.timeouts /\ a.state = s.state
        /\ a.ready_count = n /\ a.run_queue = first
        /\ a.expired = s.expired /\ a.canceled = s.canceled /\ a.wq = s.wq /\ a.on = s.on
    <3>1. d \in Structures(Threads \cup {Idle, NULL})
      BY Zenon DEF RqNodes
    <3>2. a = [s EXCEPT !.rq = d, !.ready_count = n, !.run_queue = first]
      BY Zenon, <1>2
    <3> HIDE DEF a
    <3>3. a \in KernelStates
      BY ZenonT(30), <3>1, <3>2 DEF KernelStates
    <3> QED BY <3>2, <3>3 DEF KernelStates
  <2> HIDE DEF a
  <2>2. CASE timeout = K_FOREVER
    <3>1. c = [a EXCEPT !.state = st] /\ w = s.wakeup /\ l = s.timeouts /\ e = d
      BY Zenon, <2>1, <2>2 DEF z_schedule_wake_up
    <3> HIDE DEF w, l, e, st, c
    <3> QED BY <1>5, <2>1, <3>1 DEF KernelStates
  <2>3. CASE timeout # K_FOREVER
    <3>1. c = [[a EXCEPT !.wakeup = w, !.rq = e, !.timeouts = l] EXCEPT
                 !.state = [@ EXCEPT ![t] = "PENDING"]]
      BY Zenon, <2>1, <2>3 DEF z_schedule_wake_up
    <3>2. [a EXCEPT !.wakeup = w, !.rq = e, !.timeouts = l].state = s.state
      BY Zenon, <2>1 DEF KernelStates
    <3>3. c = [a EXCEPT !.wakeup = w, !.rq = e, !.timeouts = l, !.state = st]
      BY ZenonT(30), <3>1, <3>2
    <3> HIDE DEF w, l, e, st, c
    <3>4. e \in Structures(Threads \cup {Idle, NULL})
      BY Zenon, <1>6 DEF RqNodes
    <3>5. c \in KernelStates
      BY ZenonT(30), <1>4, <1>5, <2>1, <3>3, <3>4 DEF KernelStates
    <3>6. /\ c.state = st /\ c.rq = e /\ c.wakeup = w /\ c.timeouts = l
          /\ c.ready_count = a.ready_count /\ c.run_queue = a.run_queue
          /\ c.current = a.current /\ c.expired = a.expired
          /\ c.canceled = a.canceled /\ c.wq = a.wq /\ c.on = a.on
      BY Zenon, <2>1, <3>3 DEF KernelStates
    <3> QED BY Zenon, <2>1, <3>5, <3>6
  <2> QED BY Zenon, <2>2, <2>3
<1> HIDE DEF c, r, e, l
<1>9. Ready(c) = Ready(s) \ {t}
  BY Zenon, <1>8 DEF Ready, KernelStates, ThreadStates
<1>10. IdleOK(c)
  BY Zenon, <1>1, <1>8, Disjoint DEF IdleOK, KernelStates, ThreadStates
<1>11. RunQueueOK(c)
  BY Zenon, <1>2, <1>6, <1>8, <1>9 DEF RunQueueOK
<1>12. TimeoutsOK(c)
  <2>1. \A u \in w : st[u] = "PENDING"
    BY Zenon, <1>1, <1>5 DEF TimeoutsOK, KernelStates, ThreadStates
  <2> QED BY Zenon, <1>4, <1>8, <2>1 DEF TimeoutsOK
<1>13. /\ r \in KernelStates /\ IdleOK(r) /\ RunQueueOK(r)
       /\ CurrentOK(r)
       /\ Ready(r) = Ready(c)
       /\ r.state = c.state /\ r.wakeup = c.wakeup
       /\ r.timeouts = c.timeouts /\ r.wq = c.wq /\ r.on = c.on
       /\ r.expired = c.expired \ {c.current}
       /\ r.canceled = c.canceled \ {c.current}
  BY <1>7, <1>8, <1>10, <1>11, SwitchThread
<1>14. TimeoutsOK(r)
  BY Zenon, <1>12, <1>13 DEF TimeoutsOK
<1> QED BY Zenon, <1>1, <1>8, <1>13, <1>14 DEF r

\* k_sleep by a thread of S.
LEMMA SleepCurrent ==
  ASSUME NEW S \in SUBSET Threads, NEW s, KernelOK(s, S), CurrentOK(s),
         s.current \in S, s.on[s.current] = NULL, NEW timeout \in Nat
  PROVE  LET t == s.current
             r == z_pend_current(s, timeout)
         IN  /\ KernelOK(r, S) /\ CurrentOK(r)
             /\ s.state[t] = "READY"
             /\ r.state = [s.state EXCEPT ![t] = "PENDING"]
             /\ r.expired = s.expired \ {t} /\ r.canceled = s.canceled \ {t}
             /\ r.on = s.on
<1> DEFINE t == s.current
           r == z_pend_current(s, timeout)
<1>1. s \in KernelStates /\ IdleOK(s) /\ RunQueueOK(s) /\ WaitQueuesOK(s)
      /\ TimeoutsOK(s) /\ LinksOK(s, S)
  BY Zenon DEF KernelOK
<1>2. t \in S /\ t \in Threads /\ s.on[t] = NULL
  BY Zenon
<1>3. timeout # K_FOREVER /\ timeout \in Nat \cup {K_FOREVER}
  BY Zenon, KernelAssumption
<1>4. /\ r \in KernelStates /\ IdleOK(r) /\ RunQueueOK(r) /\ TimeoutsOK(r)
      /\ CurrentOK(r)
      /\ s.state[t] = "READY"
      /\ r.state = [s.state EXCEPT ![t] = "PENDING"]
      /\ r.wakeup = s.wakeup \cup {t}
      /\ r.expired = s.expired \ {t} /\ r.canceled = s.canceled \ {t}
      /\ r.wq = s.wq /\ r.on = s.on
  BY ZenonT(30), <1>1, <1>3, PendCurrent
<1> HIDE DEF t, r
<1>5. WaitQueuesOK(r)
  <2>1. ASSUME NEW q \in Queues PROVE Waiting(r, q) = Waiting(s, q)
    BY <1>1, <1>2, <1>4, Disjoint DEF Waiting, KernelStates, ThreadStates
  <2> QED BY Zenon, <1>1, <1>4, <2>1 DEF WaitQueuesOK
<1>6. LinksOK(r, S)
  <2>1. ASSUME NEW u \in S, r.state[u] # "PENDING" \/ r.on[u] = NULL
        PROVE  s.state[u] # "PENDING" \/ s.on[u] = NULL
    BY Zenon, <1>1, <1>2, <1>4, <2>1 DEF KernelStates, ThreadStates
  <2> QED BY Zenon, <1>1, <1>2, <1>4, <2>1 DEF LinksOK
<1> QED BY Zenon, <1>4, <1>5, <1>6 DEF KernelOK, t, r

\* From s to r the current thread has started to wait on q.
WaitsOn(s, r, q) ==
  LET t == s.current
  IN  /\ s.state[t] = "READY"
      /\ r.state = [s.state EXCEPT ![t] = "PENDING"]
      /\ r.expired = s.expired \ {t} /\ r.canceled = s.canceled \ {t}
      /\ r.on = [s.on EXCEPT ![t] = q]

\* z_pend_current_on that waits; only the threads outside of S have a timeout.
LEMMA PendOn ==
  ASSUME NEW S \in SUBSET Threads, NEW s, KernelOK(s, S), CurrentOK(s),
         s.current \in Threads, s.on[s.current] = NULL,
         NEW q \in Queues, NEW timeout \in Nat \cup {K_FOREVER}, timeout # K_NO_WAIT,
         timeout # K_FOREVER => s.current \notin S
  PROVE  LET r == z_pend_current_on(s, q, timeout)
         IN  KernelOK(r, S) /\ CurrentOK(r) /\ WaitsOn(s, r, q)
<1> DEFINE t == s.current
           r == z_pend_current_on(s, q, timeout)
           e == dlist_append(s.wq, q, t)
           o == [s.on EXCEPT ![t] = q]
           c == [s EXCEPT !.wq = e, !.on = o]
           Q == {q} \cup Waiting(s, q)
<1>1. s \in KernelStates /\ IdleOK(s) /\ RunQueueOK(s) /\ WaitQueuesOK(s)
      /\ TimeoutsOK(s) /\ LinksOK(s, S)
  BY Zenon DEF KernelOK
<1>2. r = z_pend_current(c, timeout)
  BY Zenon DEF z_pend_current_on
<1>3. t \in Threads /\ s.on[t] = NULL /\ s.state[t] = "READY"
  BY Zenon, <1>1, Disjoint DEF CurrentOK, Ready
<1>4. /\ e \in Structures(WqNodes)
      /\ Ring(e, Q \cup {t})
      /\ \A x \in WqNodes \ (Q \cup {t}) :
           e.next[x] = s.wq.next[x] /\ e.prev[x] = s.wq.prev[x]
  <2> DEFINE g == s.wq
             f == dlist_append(g, q, t)
  <2>1. g \in Structures(WqNodes) /\ Q \in SUBSET WqNodes /\ Ring(g, Q) /\ q \in Q
    BY <1>1 DEF KernelStates, WqNodes, Waiting, WaitQueuesOK
  <2>2. t \in WqNodes \ Q
    BY Zenon, <1>3, Disjoint DEF WqNodes, Waiting
  <2> HIDE DEF Q, t, g
  <2>3. /\ f \in Structures(WqNodes)
        /\ Ring(f, Q \cup {t})
        /\ \A x \in WqNodes \ (Q \cup {t}) :
             f.next[x] = g.next[x] /\ f.prev[x] = g.prev[x]
    BY <2>1, <2>2, RingAppend
  <2> QED BY Zenon, <2>3 DEF g
<1>5. o \in [Threads -> Queues \cup {NULL}]
  BY Zenon, <1>1, <1>3 DEF KernelStates
<1> HIDE DEF e, o, r
<1>6. c \in KernelStates
  <2>1. e \in Structures(Threads \cup Queues \cup {NULL})
    BY Zenon, <1>4 DEF WqNodes
  <2> QED BY ZenonT(30), <1>1, <1>5, <2>1 DEF KernelStates
<1>7. /\ c.wq = e /\ c.on = o
      /\ c.state = s.state /\ c.run_queue = s.run_queue
      /\ c.rq = s.rq /\ c.ready_count = s.ready_count
      /\ c.expired = s.expired /\ c.canceled = s.canceled
      /\ c.wakeup = s.wakeup /\ c.timeouts = s.timeouts /\ c.current = s.current
  BY <1>1 DEF KernelStates
<1> HIDE DEF c
<1>8. /\ Ready(c) = Ready(s) /\ IdleOK(c) /\ RunQueueOK(c) /\ TimeoutsOK(c)
      /\ CurrentOK(c) /\ c.current \in Threads
  BY <1>1, <1>7 DEF Ready, IdleOK, RunQueueOK, TimeoutsOK, CurrentOK
<1>9. /\ r \in KernelStates /\ IdleOK(r) /\ RunQueueOK(r) /\ TimeoutsOK(r)
      /\ CurrentOK(r)
      /\ r.state = [c.state EXCEPT ![c.current] = "PENDING"]
      /\ r.wakeup = IF timeout = K_FOREVER THEN c.wakeup ELSE c.wakeup \cup {c.current}
      /\ r.expired = c.expired \ {c.current} /\ r.canceled = c.canceled \ {c.current}
      /\ r.wq = c.wq /\ r.on = c.on
  BY Zenon, <1>2, <1>6, <1>8, PendCurrent
<1>10. /\ r.state = [s.state EXCEPT ![t] = "PENDING"]
       /\ r.wakeup = IF timeout = K_FOREVER THEN s.wakeup ELSE s.wakeup \cup {t}
       /\ r.expired = s.expired \ {t} /\ r.canceled = s.canceled \ {t}
       /\ r.wq = e /\ r.on = [s.on EXCEPT ![t] = q]
  BY Zenon, <1>7, <1>9 DEF o
<1>11. timeout # K_FOREVER => t \notin S
  BY Zenon
<1> HIDE DEF t
<1>12. WaitQueuesOK(r)
  <2> SUFFICES ASSUME NEW p \in Queues
               PROVE  Ring(r.wq, {p} \cup Waiting(r, p))
    BY Zenon DEF WaitQueuesOK
  <2>1. CASE p = q
    <3>1. {q} \cup Waiting(r, q) = Q \cup {t}
      BY <1>1, <1>3, <1>10 DEF Waiting, KernelStates, ThreadStates
    <3> QED BY ZenonT(30), <1>4, <1>10, <2>1, <3>1
  <2>2. CASE p # q
    <3>1. Waiting(r, p) = Waiting(s, p)
      BY Zenon, <1>1, <1>3, <1>10, <2>2, Disjoint DEF Waiting, KernelStates, ThreadStates
    <3>2. \A x \in {p} \cup Waiting(s, p) : x \in WqNodes \ (Q \cup {t})
      BY <1>3, <2>2, Disjoint DEF Waiting, WqNodes
    <3>3. Ring(s.wq, {p} \cup Waiting(s, p))
      BY Zenon, <1>1 DEF WaitQueuesOK
    <3> HIDE DEF Q
    <3> QED BY <1>4, <1>10, <3>1, <3>2, <3>3, RingFrame
  <2> QED BY Zenon, <2>1, <2>2
<1>13. LinksOK(r, S)
  <2>1. ASSUME NEW u \in S, r.state[u] # "PENDING" \/ r.on[u] = NULL
        PROVE  r.wq.next[u] = r.wq.prev[u] /\ r.wq.next[u] \in {u, NULL}
    <3>1. u # t
      BY <1>1, <1>3, <1>10, <2>1, Disjoint DEF KernelStates, ThreadStates
    <3>2. s.state[u] # "PENDING" \/ s.on[u] = NULL
      BY Zenon, <1>1, <1>10, <2>1, <3>1 DEF KernelStates, ThreadStates
    <3>3. u \in WqNodes \ (Q \cup {t})
      BY Zenon, <3>1, <3>2, Disjoint DEF WqNodes, Waiting
    <3> QED BY Zenon, <1>1, <1>4, <1>10, <3>2, <3>3 DEF LinksOK
  <2>2. ASSUME NEW u \in r.wakeup PROVE u \in S <=> r.on[u] = NULL
    <3>1. CASE u = t
      <4>1. timeout # K_FOREVER
        BY Zenon, <1>1, <1>3, <1>10, <3>1 DEF TimeoutsOK
      <4>2. r.on[t] = q
        BY Zenon, <1>1, <1>3, <1>10 DEF KernelStates
      <4> QED BY Zenon, <1>11, <3>1, <4>1, <4>2, Disjoint
    <3>2. CASE u # t
      <4>1. u \in s.wakeup
        BY Zenon, <1>10, <3>2
      <4>2. r.on[u] = s.on[u]
        <5>1. u \in Threads /\ s.on \in [Threads -> Queues \cup {NULL}]
          BY Zenon, <1>1, <4>1 DEF KernelStates
        <5> QED BY Zenon, <1>10, <3>2, <5>1
      <4> QED BY Zenon, <1>1, <4>1, <4>2 DEF LinksOK
    <3> QED BY Zenon, <3>1, <3>2
  <2> QED BY Zenon, <2>1, <2>2 DEF LinksOK
<1>14. WaitsOn(s, r, q)
  BY Zenon, <1>3, <1>10 DEF WaitsOn, t
<1> QED BY Zenon, <1>9, <1>12, <1>13, <1>14 DEF KernelOK, r

\* z_pend_current_on returns to a thread that is READY again.
LEMMA ReturnThread ==
  ASSUME NEW S \in SUBSET Threads, NEW s, KernelOK(s, S), NEW t \in Ready(s)
  PROVE  LET r == Returned(s, t)
         IN  /\ KernelOK(r, S)
             /\ Ready(r) = Ready(s)
             /\ r.state = s.state
             /\ r.run_queue = s.run_queue /\ r.current = s.current
             /\ r.expired = s.expired /\ r.canceled = s.canceled
             /\ r.on = [s.on EXCEPT ![t] = NULL]
<1> DEFINE o == [s.on EXCEPT ![t] = NULL]
           r == Returned(s, t)
<1>1. s \in KernelStates /\ IdleOK(s) /\ RunQueueOK(s) /\ WaitQueuesOK(s)
      /\ TimeoutsOK(s) /\ LinksOK(s, S)
  BY Zenon DEF KernelOK
<1>2. t \in Threads /\ s.state[t] = "READY" /\ t \notin s.wakeup
  BY Zenon, <1>1 DEF Ready, TimeoutsOK
<1>3. r = [s EXCEPT !.on = o]
  BY Zenon DEF Returned
<1>4. o \in [Threads -> Queues \cup {NULL}] /\ \A u \in Threads \ {t} : o[u] = s.on[u]
  BY ZenonT(30), <1>1 DEF KernelStates
<1> HIDE DEF r, o
<1>5. r \in KernelStates
  BY <1>1, <1>3, <1>4 DEF KernelStates
<1>6. /\ r.state = s.state /\ r.run_queue = s.run_queue
      /\ r.rq = s.rq /\ r.ready_count = s.ready_count
      /\ r.expired = s.expired /\ r.canceled = s.canceled
      /\ r.wakeup = s.wakeup /\ r.timeouts = s.timeouts
      /\ r.current = s.current /\ r.wq = s.wq /\ r.on = o
  BY Zenon, <1>1, <1>3 DEF KernelStates
<1>7. /\ Ready(r) = Ready(s) /\ IdleOK(r) /\ RunQueueOK(r) /\ TimeoutsOK(r)
  BY <1>1, <1>6 DEF Ready, IdleOK, RunQueueOK, TimeoutsOK
<1>8. WaitQueuesOK(r)
  <2>1. ASSUME NEW q \in Queues PROVE Waiting(r, q) = Waiting(s, q)
    BY Zenon, <1>2, <1>4, <1>6 DEF Waiting
  <2> QED BY Zenon, <1>1, <1>6, <2>1 DEF WaitQueuesOK
<1>9. LinksOK(r, S)
  <2>1. ASSUME NEW u \in S, r.state[u] # "PENDING" \/ r.on[u] = NULL
        PROVE  s.state[u] # "PENDING" \/ s.on[u] = NULL
    BY Zenon, <1>2, <1>4, <1>6, <2>1
  <2>2. ASSUME NEW u \in r.wakeup PROVE r.on[u] = s.on[u]
    BY Zenon, <1>1, <1>2, <1>4, <1>6 DEF KernelStates
  <2> QED BY Zenon, <1>1, <1>6, <2>1, <2>2 DEF LinksOK
<1> QED BY Zenon, <1>5, <1>6, <1>7, <1>8, <1>9 DEF KernelOK, r, o

\* z_scheduler keeps the whole invariant.
LEMMA SwitchOK ==
  ASSUME NEW S, NEW s, KernelOK(s, S)
  PROVE  LET r == z_scheduler(s)
         IN  /\ KernelOK(r, S) /\ CurrentOK(r)
             /\ Ready(r) = Ready(s)
             /\ r.state = s.state /\ r.on = s.on
             /\ r.expired = s.expired \ {s.current}
             /\ r.canceled = s.canceled \ {s.current}
<1> DEFINE r == z_scheduler(s)
<1>1. s \in KernelStates /\ IdleOK(s) /\ RunQueueOK(s) /\ WaitQueuesOK(s)
      /\ TimeoutsOK(s) /\ LinksOK(s, S)
  BY Zenon DEF KernelOK
<1>2. /\ r \in KernelStates /\ IdleOK(r) /\ RunQueueOK(r)
      /\ CurrentOK(r)
      /\ Ready(r) = Ready(s)
      /\ r.state = s.state /\ r.wakeup = s.wakeup
      /\ r.timeouts = s.timeouts /\ r.wq = s.wq /\ r.on = s.on
      /\ r.expired = s.expired \ {s.current}
      /\ r.canceled = s.canceled \ {s.current}
  BY Zenon, <1>1, SwitchThread
<1> HIDE DEF r
<1>3. WaitQueuesOK(r)
  BY Zenon, <1>1, <1>2 DEF WaitQueuesOK, Waiting
<1>4. TimeoutsOK(r) /\ LinksOK(r, S)
  BY Zenon, <1>1, <1>2 DEF TimeoutsOK, LinksOK
<1> QED BY Zenon, <1>2, <1>3, <1>4 DEF KernelOK, r

\* The tick interrupt up to the loop of z_sched_enter.
LEMMA TickOK ==
  ASSUME NEW S, KernelOK(k, S), CurrentOK(k), SysTick
  PROVE  /\ KernelOK(k', S) /\ CurrentOK(k')
         /\ k'.state = k.state /\ k'.on = k.on
         /\ k'.expired = k.expired /\ k'.canceled = k.canceled
         /\ ctx' \in {InThread, [in |-> "sched_enter", q |-> NULL]}
<1>1. k \in KernelStates /\ TimeoutsOK(k) /\ SLICE \in Nat \ {0}
  BY Zenon, KernelAssumption DEF KernelOK
<1>2. CASE k.slice > 1
  <2> DEFINE n == k.slice - 1
  <2>1. k' = [k EXCEPT !.slice = n] /\ ctx' = InThread
    BY Zenon, <1>2 DEF SysTick, InterruptsEnabled
  <2>2. n \in 1 .. SLICE
    BY <1>1, <1>2 DEF KernelStates
  <2> HIDE DEF n
  <2>3. k' \in KernelStates
    BY <1>1, <2>1, <2>2 DEF KernelStates
  <2>4. /\ k'.state = k.state /\ k'.rq = k.rq /\ k'.ready_count = k.ready_count
        /\ k'.run_queue = k.run_queue /\ k'.wq = k.wq /\ k'.on = k.on
        /\ k'.wakeup = k.wakeup /\ k'.timeouts = k.timeouts
        /\ k'.current = k.current /\ k'.expired = k.expired /\ k'.canceled = k.canceled
    BY Zenon, <1>1, <2>1 DEF KernelStates
  <2>5. KernelOK(k', S) /\ Ready(k') = Ready(k)
    BY Zenon, <2>3, <2>4, KernelFrame
  <2> QED BY Zenon, <2>1, <2>4, <2>5 DEF CurrentOK
<1>3. CASE ~ (k.slice > 1)
  <2> DEFINE l == Shift(k.timeouts, SLICE)
             r == [k EXCEPT !.slice = SLICE]
  <2>1. k' = [k EXCEPT !.timeouts = l, !.slice = SLICE]
        /\ ctx' = [in |-> "sched_enter", q |-> NULL]
    BY Zenon, <1>3 DEF SysTick
  <2>2. k.timeouts \in Lists(Threads) /\ NoRepeat(k.timeouts)
    BY Zenon, <1>1 DEF KernelStates, TimeoutLists, Lists, TimeoutsOK
  <2>3. l \in TimeoutLists /\ Items(l) = Items(k.timeouts) /\ NoRepeat(l)
    BY ZenonT(30), <1>1, <2>2, ShiftItems DEF Lists, TimeoutLists
  <2> HIDE DEF l
  <2>4. k' \in KernelStates /\ r \in KernelStates
    <3>1. SLICE \in 1 .. SLICE
      BY <1>1
    <3>2. r \in KernelStates
      BY Zenon, <1>1, <3>1 DEF KernelStates
    <3> QED BY ZenonT(30), <1>1, <2>1, <2>3, <3>1, <3>2 DEF KernelStates
  <2>5. /\ k'.state = k.state /\ k'.rq = k.rq /\ k'.ready_count = k.ready_count
        /\ k'.run_queue = k.run_queue /\ k'.wq = k.wq /\ k'.on = k.on
        /\ k'.wakeup = k.wakeup /\ k'.timeouts = l
        /\ k'.current = k.current /\ k'.expired = k.expired /\ k'.canceled = k.canceled
    BY Zenon, <1>1, <2>1 DEF KernelStates
  <2>6. /\ IdleOK(k) /\ RunQueueOK(k) /\ WaitQueuesOK(k) /\ LinksOK(k, S)
    BY Zenon DEF KernelOK
  <2>7. Ready(k') = Ready(k) /\ \A q \in Queues : Waiting(k', q) = Waiting(k, q)
    BY Zenon, <2>5 DEF Ready, Waiting
  <2>8. IdleOK(k') /\ RunQueueOK(k') /\ WaitQueuesOK(k') /\ LinksOK(k', S)
    BY Zenon, <2>5, <2>6, <2>7 DEF IdleOK, RunQueueOK, WaitQueuesOK, LinksOK
  <2>9. TimeoutsOK(k')
    BY Zenon, <1>1, <2>3, <2>5 DEF TimeoutsOK
  <2> QED BY Zenon, <2>1, <2>4, <2>5, <2>7, <2>8, <2>9 DEF KernelOK, CurrentOK
<1> QED BY Zenon, <1>2, <1>3

\* The system starts in a state that satisfies the invariant, whichever order the
\* linker gave to the threads.
LEMMA InitKernel ==
  ASSUME NEW S \in SUBSET Threads, KernelInit
  PROVE  /\ KernelOK(k, S) /\ CurrentOK(k) /\ ctx = InThread
         /\ k.on = [t \in Threads |-> NULL]
         /\ k.state = [t \in Threads \cup {Idle} |->
                         IF t = Idle THEN "IDLE"
                         ELSE IF t \in AutoStart THEN "READY" ELSE "STOPPED"]
         /\ k.wakeup = {} /\ k.expired = {} /\ k.canceled = {}
<1> DEFINE st == [t \in Threads \cup {Idle} |->
                    IF t = Idle THEN "IDLE"
                    ELSE IF t \in AutoStart THEN "READY" ELSE "STOPPED"]
           Node(f, t) == IF t \in AutoStart THEN f[t] ELSE NULL
           RqOf(f) == [t \in Threads \cup {Idle, NULL} |-> Node(f, t)]
           wp == [x \in Threads \cup Queues \cup {NULL} |-> IF x \in Queues THEN x ELSE NULL]
<1>1. PICK next \in [AutoStart -> AutoStart], prev \in [AutoStart -> AutoStart] :
        /\ Ring([next |-> RqOf(next), prev |-> RqOf(prev)], AutoStart)
        /\ k = [state |-> st, expired |-> {}, canceled |-> {}, wakeup |-> {},
                coop |-> Cooperative, locked |-> {},
                rq |-> [next |-> RqOf(next), prev |-> RqOf(prev)],
                ready_count |-> Cardinality(AutoStart),
                run_queue |-> Main, current |-> Main,
                slice |-> SLICE, timeouts |-> <<>>,
                wq |-> [next |-> wp, prev |-> wp],
                on |-> [t \in Threads |-> NULL]]
  BY ZenonT(30) DEF KernelInit
<1> DEFINE rq == [next |-> RqOf(next), prev |-> RqOf(prev)]
           wq == [next |-> wp, prev |-> wp]
<1>2. ctx = InThread
  BY Zenon DEF KernelInit
<1>3. /\ st \in ThreadStates
      /\ \A t \in Threads : st[t] = IF t \in AutoStart THEN "READY" ELSE "STOPPED"
      /\ st[Idle] = "IDLE"
  BY Zenon, Disjoint DEF ThreadStates
<1>4. rq \in Structures(Threads \cup {Idle, NULL})
  BY Zenon, KernelAssumption DEF Structures
<1>5. wq \in Structures(Threads \cup Queues \cup {NULL})
  BY Zenon DEF Structures
<1>6. Cardinality(AutoStart) \in 0 .. 255
  BY Zenon, KernelAssumption, Countable
<1>7. <<>> \in TimeoutLists /\ Items(<<>>) = {} /\ NoRepeat(<<>>)
  BY DEF TimeoutLists, Items, NoRepeat
<1>8. \A q \in Queues : wq.next[q] = q /\ wq.prev[q] = q
  BY Zenon
<1>9. \A t \in Threads : wq.next[t] = NULL /\ wq.prev[t] = NULL
  BY Zenon, Disjoint
<1>10. SLICE \in 1 .. SLICE /\ Main \in Threads /\ Cooperative \in SUBSET Threads
       /\ Main \in AutoStart /\ AutoStart \subseteq Threads
  BY KernelAssumption
<1> HIDE DEF st, rq, wq
<1>11. /\ k.state = st /\ k.expired = {} /\ k.canceled = {} /\ k.wakeup = {}
       /\ k.rq = rq /\ k.ready_count = Cardinality(AutoStart) /\ k.run_queue = Main
       /\ k.current = Main /\ k.timeouts = <<>> /\ k.wq = wq
       /\ k.on = [t \in Threads |-> NULL]
  BY SMTT(30), <1>1 DEF rq, wq
<1>12. k \in KernelStates
  <2> DEFINE o == [t \in Threads |-> NULL]
  <2>1. o \in [Threads -> Queues \cup {NULL}]
    BY Zenon
  <2>2. k = [state |-> st, expired |-> {}, canceled |-> {}, wakeup |-> {},
                coop |-> Cooperative, locked |-> {}, rq |-> rq,
                ready_count |-> Cardinality(AutoStart),
                run_queue |-> Main, current |-> Main,
                slice |-> SLICE, timeouts |-> <<>>, wq |-> wq, on |-> o]
    BY Zenon, <1>1 DEF rq, wq
  <2> HIDE DEF o
  <2> QED BY Zenon, <1>3, <1>4, <1>5, <1>6, <1>7, <1>10, <2>1, <2>2 DEF KernelStates
<1>13. Ready(k) = AutoStart
  BY Zenon, <1>3, <1>10, <1>11 DEF Ready
<1>14. IdleOK(k) /\ CurrentOK(k)
  BY Zenon, <1>3, <1>10, <1>11, <1>13, Disjoint DEF IdleOK, CurrentOK
<1>15. RunQueueOK(k)
  <2>1. Ring(rq, AutoStart)
    BY Zenon, <1>1 DEF rq
  <2> QED BY Zenon, <1>10, <1>11, <1>13, <2>1 DEF RunQueueOK
<1>16. WaitQueuesOK(k)
  <2> SUFFICES ASSUME NEW q \in Queues PROVE Ring(k.wq, {q} \cup Waiting(k, q))
    BY Zenon DEF WaitQueuesOK
  <2>1. {q} \cup Waiting(k, q) = {q}
    BY Zenon, <1>3, <1>11 DEF Waiting
  <2>2. Ring(wq, {q})
    BY <1>8 DEF Ring
  <2> QED BY ZenonT(30), <1>11, <2>1, <2>2
<1>17. TimeoutsOK(k) /\ LinksOK(k, S)
  BY Zenon, <1>7, <1>9, <1>11 DEF TimeoutsOK, LinksOK
<1> QED BY <1>2, <1>11, <1>12, <1>14, <1>15, <1>16, <1>17 DEF KernelOK, st
=============================================================================
