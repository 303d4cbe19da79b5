----------------------------- MODULE QueueProofs -----------------------------
(***************************************************************************)
(* What the operations of the intrusive queues do to the elements and to   *)
(* their order, for queues of any length.                                  *)
(***************************************************************************)
EXTENDS Queues, SequenceTheorems, FiniteSetTheorems, FunctionTheorems, TLAPS

(* A queue of S, and its elements.                                          *)
LEMMA QueueElements ==
    ASSUME NEW S, NEW q \in Seq(S)
    PROVE  /\ DOMAIN q = 1..Len(q) /\ Len(q) \in Nat
           /\ ToSet(q) \subseteq S
           /\ \A i \in 1..Len(q) : q[i] \in ToSet(q)
           /\ \A x \in ToSet(q) : \E i \in 1..Len(q) : q[i] = x
           /\ q = <<>> <=> ToSet(q) = {}
  <1>1. DOMAIN q = 1..Len(q) /\ Len(q) \in Nat
    BY LenProperties
  <1>2. \A i \in 1..Len(q) : q[i] \in S
    BY ElementOfSeq
  <1>3. q # <<>> => 1 \in 1..Len(q)
    BY <1>1, EmptySeq
  <1>4. q = <<>> => Len(q) = 0
    BY EmptySeq
  <1>5. ToSet(q) = {q[i] : i \in 1..Len(q)}
    BY <1>1 DEF ToSet
  <1>6. /\ \A i \in 1..Len(q) : q[i] \in ToSet(q)
        /\ \A x \in ToSet(q) : \E i \in 1..Len(q) : q[i] = x
    BY <1>5
  <1>7. ToSet(q) \subseteq S
    BY <1>2, <1>6
  <1>8. q = <<>> <=> ToSet(q) = {}
    <2>1. CASE q = <<>>
      BY <1>4, <1>6, <2>1
    <2>2. CASE q # <<>>
      BY <1>3, <1>6, <2>2
    <2> QED
      BY <2>1, <2>2
  <1> QED
    BY <1>1, <1>6, <1>7, <1>8

(* Q_INSERT_TAIL of an element that the queue does not hold.                *)
LEMMA AppendQueue ==
    ASSUME NEW S, NEW q \in Seq(S), NEW x \in S
    PROVE  /\ Append(q, x) \in Seq(S)
           /\ ToSet(Append(q, x)) = ToSet(q) \cup {x}
           /\ Len(Append(q, x)) = Len(q) + 1
           /\ NoRepeats(q) /\ x \notin ToSet(q) => NoRepeats(Append(q, x))
  <1> DEFINE r == Append(q, x)
  <1>1. /\ r \in Seq(S) /\ Len(r) = Len(q) + 1
        /\ \A i \in 1..Len(q) : r[i] = q[i]
        /\ r[Len(q) + 1] = x
    BY AppendProperties
  <1>2. DOMAIN q = 1..Len(q) /\ Len(q) \in Nat /\ DOMAIN r = 1..Len(r)
    BY <1>1, LenProperties
  <1> HIDE DEF r
  <1>3. ToSet(r) = ToSet(q) \cup {x}
    BY <1>1, <1>2 DEF ToSet
  <1>4. NoRepeats(q) /\ x \notin ToSet(q) => NoRepeats(r)
    BY <1>1, <1>2 DEF ToSet, NoRepeats
  <1> QED
    BY <1>1, <1>3, <1>4 DEF r

(* Q_INSERT_FRONT of an element that the queue does not hold.               *)
LEMMA PushQueue ==
    ASSUME NEW S, NEW q \in Seq(S), NEW x \in S
    PROVE  /\ <<x>> \o q \in Seq(S)
           /\ ToSet(<<x>> \o q) = ToSet(q) \cup {x}
           /\ Len(<<x>> \o q) = Len(q) + 1
           /\ NoRepeats(q) /\ x \notin ToSet(q) => NoRepeats(<<x>> \o q)
  <1> DEFINE r == <<x>> \o q
  <1>1. /\ r \in Seq(S) /\ Len(r) = Len(q) + 1
        /\ \A i \in 1..(1 + Len(q)) : r[i] = IF i <= 1 THEN x ELSE q[i - 1]
    <2>1. <<x>> \in Seq(S) /\ Len(<<x>>) = 1 /\ \A i \in 1..1 : <<x>>[i] = x
      OBVIOUS
    <2>2. Len(q) \in Nat
      BY LenProperties
    <2> QED
      BY <2>1, <2>2, ConcatProperties
  <1>2. DOMAIN q = 1..Len(q) /\ Len(q) \in Nat /\ DOMAIN r = 1..Len(r)
    BY <1>1, LenProperties
  <1> HIDE DEF r
  <1>3. r[1] = x /\ \A i \in 1..Len(q) : i + 1 \in 1..Len(r) /\ r[i + 1] = q[i]
    BY <1>1, <1>2
  <1>4. ToSet(r) = ToSet(q) \cup {x}
    <2>1. ASSUME NEW i \in 1..Len(r) PROVE r[i] \in ToSet(q) \cup {x}
      BY <1>1, <1>2 DEF ToSet
    <2>2. x \in ToSet(r) /\ \A i \in 1..Len(q) : q[i] \in ToSet(r)
      BY <1>1, <1>2, <1>3 DEF ToSet
    <2> QED
      BY <1>2, <2>1, <2>2 DEF ToSet
  <1>5. ASSUME NoRepeats(q), x \notin ToSet(q) PROVE NoRepeats(r)
    <2>1. \A i \in 1..Len(q) : q[i] # x
      BY <1>2, <1>5 DEF ToSet
    <2>2. \A i \in 2..Len(r) : i - 1 \in 1..Len(q) /\ r[i] = q[i - 1]
      BY <1>1, <1>2
    <2>3. ASSUME NEW i \in 1..Len(r), NEW j \in 1..Len(r), r[i] = r[j] PROVE i = j
      <3>1. CASE i = 1 \/ j = 1
        BY <1>1, <1>2, <1>3, <2>1, <2>2, <2>3, <3>1
      <3>2. CASE i # 1 /\ j # 1
        <4>1. i \in 2..Len(r) /\ j \in 2..Len(r)
          BY <1>1, <1>2, <3>2
        <4>2. i - 1 = j - 1
          BY <1>2, <1>5, <2>2, <2>3, <4>1 DEF NoRepeats
        <4> QED
          BY <4>2
      <3> QED
        BY <3>1, <3>2
    <2> QED
      BY <1>2, <2>3 DEF NoRepeats
  <1> QED
    BY <1>1, <1>4, <1>5 DEF r

(* Q_REMOVE of the front.                                                   *)
LEMMA PopQueue ==
    ASSUME NEW S, NEW q \in Seq(S), q # <<>>
    PROVE  /\ Head(q) \in S /\ Head(q) \in ToSet(q) /\ Head(q) = q[1]
           /\ Tail(q) \in Seq(S)
           /\ Len(Tail(q)) = Len(q) - 1
           /\ ToSet(q) = ToSet(Tail(q)) \cup {Head(q)}
           /\ NoRepeats(q) => /\ NoRepeats(Tail(q))
                              /\ ToSet(Tail(q)) = ToSet(q) \ {Head(q)}
  <1> DEFINE r == Tail(q)
  <1>1. /\ r \in Seq(S) /\ Len(r) = Len(q) - 1
        /\ \A i \in 1..Len(r) : r[i] = q[i + 1]
        /\ Head(q) \in S
    BY HeadTailProperties
  <1>2. /\ DOMAIN q = 1..Len(q) /\ Len(q) \in Nat \ {0}
        /\ DOMAIN r = 1..Len(r) /\ Head(q) = q[1]
    BY <1>1, LenProperties, EmptySeq
  <1> HIDE DEF r
  <1>3. \A i \in 2..Len(q) : i - 1 \in 1..Len(r) /\ r[i - 1] = q[i]
    BY <1>1, <1>2
  <1>4. ToSet(q) = ToSet(r) \cup {Head(q)}
    <2>1. \A i \in 1..Len(q) : q[i] \in ToSet(r) \cup {Head(q)}
      BY <1>1, <1>2, <1>3 DEF ToSet
    <2>2. Head(q) \in ToSet(q) /\ \A i \in 1..Len(r) : r[i] \in ToSet(q)
      BY <1>1, <1>2 DEF ToSet
    <2> QED
      BY <1>2, <2>1, <2>2 DEF ToSet
  <1>5. ASSUME NoRepeats(q) PROVE NoRepeats(r) /\ Head(q) \notin ToSet(r)
    <2>1. \A i \in 1..Len(r) : i + 1 \in 1..Len(q) /\ i + 1 # 1 /\ 1 \in 1..Len(q)
      BY <1>1, <1>2
    <2>2. \A i \in 1..Len(r) : r[i] # Head(q)
      BY <1>1, <1>2, <1>5, <2>1 DEF NoRepeats
    <2>3. ASSUME NEW i \in 1..Len(r), NEW j \in 1..Len(r), r[i] = r[j] PROVE i = j
      <3>1. i + 1 = j + 1
        BY <1>1, <1>2, <1>5, <2>1, <2>3, SMTT(30) DEF NoRepeats
      <3> QED
        BY <3>1
    <2> QED
      BY <1>2, <2>2, <2>3 DEF NoRepeats, ToSet
  <1> QED
    BY <1>1, <1>2, <1>4, <1>5 DEF r

(* Q_REMOVE of any element: the others keep their order.                    *)
LEMMA WithoutQueue ==
    ASSUME NEW S, NEW q \in Seq(S), NoRepeats(q), NEW x
    PROVE  /\ Without(q, x) \in Seq(S)
           /\ NoRepeats(Without(q, x))
           /\ ToSet(Without(q, x)) = ToSet(q) \ {x}
           /\ x \notin ToSet(q) => Without(q, x) = q
           /\ x \in ToSet(q) => Len(Without(q, x)) = Len(q) - 1
           /\ \E k \in 1..(Len(q) + 1) : \A i \in 1..Len(Without(q, x)) :
                  Without(q, x)[i] = IF i < k THEN q[i] ELSE q[i + 1]
  <1>1. /\ DOMAIN q = 1..Len(q) /\ Len(q) \in Nat
        /\ \A i \in 1..Len(q) : q[i] \in S
    BY QueueElements, ElementOfSeq
  <1>2. CASE x \notin ToSet(q)
    <2>1. Without(q, x) = q
      BY <1>2 DEF Without
    <2>2. Len(q) + 1 \in 1..(Len(q) + 1) /\ \A i \in 1..Len(q) : i < Len(q) + 1
      BY <1>1
    <2> QED
      BY <1>1, <1>2, <2>1, <2>2
  <1>3. CASE x \in ToSet(q)
    <2> DEFINE k == CHOOSE i \in DOMAIN q : q[i] = x
               a == SubSeq(q, 1, k - 1)
               b == SubSeq(q, k + 1, Len(q))
               r == a \o b
    <2>1. k \in 1..Len(q) /\ q[k] = x
      BY <1>1, <1>3 DEF ToSet
    <2>2. Without(q, x) = r
      BY <1>3 DEF Without, RemoveAt
    <2> HIDE DEF k
    <2>3. /\ a \in Seq(S) /\ Len(a) = k - 1
          /\ \A i \in 1..(k - 1) : a[i] = q[i]
      <3>1. k - 1 \in Int /\ \A i \in 1..(k - 1) : q[i] \in S
        BY <1>1, <2>1
      <3>2. /\ a \in Seq(S) /\ Len(a) = IF 1 <= k - 1 THEN k - 1 - 1 + 1 ELSE 0
            /\ \A i \in 1..(k - 1 - 1 + 1) : a[i] = q[1 + i - 1]
        BY <3>1, SubSeqProperties
      <3> HIDE DEF a
      <3>3. Len(a) = k - 1 /\ \A i \in 1..(k - 1) : 1 + i - 1 = i
        BY <2>1, <3>2
      <3> QED
        BY <2>1, <3>2, <3>3
    <2>4. /\ b \in Seq(S) /\ Len(b) = Len(q) - k
          /\ \A i \in 1..(Len(q) - k) : b[i] = q[k + i]
      <3>1. k + 1 \in Int /\ Len(q) \in Int /\ \A i \in (k + 1)..Len(q) : q[i] \in S
        BY <1>1, <2>1
      <3>2. /\ b \in Seq(S)
            /\ Len(b) = IF k + 1 <= Len(q) THEN Len(q) - (k + 1) + 1 ELSE 0
            /\ \A i \in 1..(Len(q) - (k + 1) + 1) : b[i] = q[k + 1 + i - 1]
        BY <3>1, SubSeqProperties
      <3> HIDE DEF b
      <3>3. Len(b) = Len(q) - k
        <4>1. Len(q) \in Nat /\ k \in Int /\ 1 <= k /\ k <= Len(q)
          BY <1>1, <2>1
        <4>2. Len(b) = IF k + 1 <= Len(q) THEN Len(q) - (k + 1) + 1 ELSE 0
          BY <3>2
        <4> QED
          BY <4>1, <4>2
      <3>4. ASSUME NEW i \in 1..(Len(q) - k) PROVE b[i] = q[k + i]
        <4>1. i \in 1..(Len(q) - (k + 1) + 1) /\ k + 1 + i - 1 = k + i
          BY <1>1, <2>1
        <4>2. b[i] = q[k + 1 + i - 1]
          BY <3>2, <4>1
        <4> QED
          BY <4>1, <4>2
      <3> QED
        BY <3>2, <3>3, <3>4
    <2>5. /\ r \in Seq(S) /\ Len(r) = Len(a) + Len(b)
          /\ \A i \in 1..(Len(a) + Len(b)) :
                 r[i] = IF i <= Len(a) THEN a[i] ELSE b[i - Len(a)]
      BY <2>3, <2>4, ConcatProperties
    <2> HIDE DEF a, b, r
    <2>6. /\ Len(r) = Len(q) - 1 /\ DOMAIN r = 1..(Len(q) - 1)
          /\ \A i \in 1..(Len(q) - 1) : r[i] = IF i < k THEN q[i] ELSE q[i + 1]
      <3>1. Len(r) = Len(q) - 1 /\ DOMAIN r = 1..(Len(q) - 1)
        BY <1>1, <2>1, <2>3, <2>4, <2>5, LenProperties
      <3>2. ASSUME NEW i \in 1..(Len(q) - 1) PROVE r[i] = IF i < k THEN q[i] ELSE q[i + 1]
        <4>1. i \in 1..(Len(a) + Len(b)) /\ (i <= Len(a) <=> i < k)
          BY <1>1, <2>1, <2>3, <2>4
        <4>2. r[i] = IF i < k THEN a[i] ELSE b[i - Len(a)]
          BY <2>5, <4>1
        <4>3. CASE i < k
          <5>1. i \in 1..(k - 1)
            BY <2>1, <4>3
          <5> QED
            BY <2>3, <4>2, <4>3, <5>1
        <4>4. CASE ~(i < k)
          <5>1. i - (k - 1) \in 1..(Len(q) - k) /\ k + (i - (k - 1)) = i + 1
            BY <1>1, <2>1, <4>4
          <5>2. b[i - Len(a)] = q[k + (i - (k - 1))]
            BY <2>3, <2>4, <5>1
          <5> QED
            BY <4>2, <4>4, <5>1, <5>2
        <4> QED
          BY <4>3, <4>4
      <3> QED
        BY <3>1, <3>2
    <2>7. NoRepeats(r)
      <3>1. Len(q) \in Nat /\ k \in Int /\ 1 <= k /\ k <= Len(q) /\ DOMAIN q = 1..Len(q)
        BY <1>1, <2>1
      <3>2. ASSUME NEW i \in 1..(Len(q) - 1), NEW j \in 1..(Len(q) - 1), r[i] = r[j]
            PROVE i = j
        <4>1. PICK m \in 1..Len(q) : r[i] = q[m] /\ m = IF i < k THEN i ELSE i + 1
          BY <2>6, <3>1
        <4>2. PICK n \in 1..Len(q) : r[j] = q[n] /\ n = IF j < k THEN j ELSE j + 1
          BY <2>6, <3>1
        <4>3. m = n
          BY <1>1, <3>1, <3>2, <4>1, <4>2 DEF NoRepeats
        <4> QED
          BY <3>1, <4>1, <4>2, <4>3
      <3> QED
        BY <2>6, <3>2 DEF NoRepeats
    <2>8. ToSet(r) = ToSet(q) \ {x}
      <3>1. ASSUME NEW i \in 1..(Len(q) - 1) PROVE r[i] \in ToSet(q) \ {x}
        <4>1. PICK j \in 1..Len(q) : j # k /\ r[i] = q[j]
          BY <1>1, <2>1, <2>6
        <4> QED
          BY <1>1, <2>1, <4>1 DEF ToSet, NoRepeats
      <3>2. ASSUME NEW j \in 1..Len(q), q[j] # x PROVE q[j] \in ToSet(r)
        <4>1. CASE j < k
          <5>1. j \in 1..(Len(q) - 1) /\ r[j] = q[j]
            BY <1>1, <2>1, <2>6, <4>1
          <5> QED
            BY <2>6, <5>1 DEF ToSet
        <4>2. CASE ~(j < k)
          <5>1. j - 1 \in 1..(Len(q) - 1) /\ r[j - 1] = q[j]
            BY <1>1, <2>1, <2>6, <3>2, <4>2
          <5> QED
            BY <2>6, <5>1 DEF ToSet
        <4> QED
          BY <4>1, <4>2
      <3> QED
        BY <1>1, <2>6, <3>1, <3>2 DEF ToSet
    <2>9. /\ k \in 1..(Len(q) + 1)
          /\ \A i \in 1..Len(r) : r[i] = IF i < k THEN q[i] ELSE q[i + 1]
      BY <1>1, <2>1, <2>6
    <2>10. \E n \in 1..(Len(q) + 1) : \A i \in 1..Len(r) :
               r[i] = IF i < n THEN q[i] ELSE q[i + 1]
      BY <2>9
    <2> QED
      BY <1>3, <2>2, <2>5, <2>6, <2>7, <2>8, <2>10
  <1> QED
    BY <1>2, <1>3

(* An insertion anywhere: what stood behind moves one place back.           *)
LEMMA InsertQueue ==
    ASSUME NEW S, NEW q \in Seq(S), NEW x \in S, NEW k \in 1..(Len(q) + 1)
    PROVE  /\ InsertAt(q, k, x) \in Seq(S)
           /\ Len(InsertAt(q, k, x)) = Len(q) + 1
           /\ \A i \in 1..(Len(q) + 1) : InsertAt(q, k, x)[i] =
                  IF i < k THEN q[i] ELSE IF i = k THEN x ELSE q[i - 1]
           /\ ToSet(InsertAt(q, k, x)) = ToSet(q) \cup {x}
           /\ NoRepeats(q) /\ x \notin ToSet(q) => NoRepeats(InsertAt(q, k, x))
  <1> DEFINE a == SubSeq(q, 1, k - 1)
             b == SubSeq(q, k, Len(q))
             c == a \o <<x>>
             r == c \o b
  <1>1. /\ DOMAIN q = 1..Len(q) /\ Len(q) \in Nat /\ k \in Int
        /\ \A i \in 1..Len(q) : q[i] \in S
    BY QueueElements, ElementOfSeq
  <1>2. InsertAt(q, k, x) = r
    BY DEF InsertAt
  <1>3. a \in Seq(S) /\ Len(a) = k - 1 /\ \A i \in 1..(k - 1) : a[i] = q[i]
    <2>1. k - 1 \in Int /\ \A i \in 1..(k - 1) : q[i] \in S
      BY <1>1
    <2>2. /\ a \in Seq(S) /\ Len(a) = IF 1 <= k - 1 THEN k - 1 - 1 + 1 ELSE 0
          /\ \A i \in 1..(k - 1 - 1 + 1) : a[i] = q[1 + i - 1]
      BY <2>1, SubSeqProperties
    <2> HIDE DEF a
    <2>3. Len(a) = k - 1 /\ \A i \in 1..(k - 1) : 1 + i - 1 = i
      BY <1>1, <2>2
    <2> QED
      BY <1>1, <2>2, <2>3
  <1>4. /\ b \in Seq(S) /\ Len(b) = Len(q) + 1 - k
        /\ \A i \in 1..(Len(q) + 1 - k) : b[i] = q[k + i - 1]
    <2>1. k \in Int /\ Len(q) \in Int /\ \A i \in k..Len(q) : q[i] \in S
      BY <1>1
    <2>2. /\ b \in Seq(S) /\ Len(b) = IF k <= Len(q) THEN Len(q) - k + 1 ELSE 0
          /\ \A i \in 1..(Len(q) - k + 1) : b[i] = q[k + i - 1]
      BY <2>1, SubSeqProperties
    <2> HIDE DEF b
    <2>3. Len(b) = Len(q) + 1 - k
      BY <1>1, <2>2
    <2> QED
      BY <1>1, <2>2, <2>3
  <1> HIDE DEF a, b
  <1>5. c \in Seq(S) /\ Len(c) = k /\ \A i \in 1..k : c[i] = IF i < k THEN q[i] ELSE x
    <2>1. <<x>> \in Seq(S) /\ Len(<<x>>) = 1 /\ <<x>>[1] = x
      OBVIOUS
    <2>2. /\ c \in Seq(S) /\ Len(c) = Len(a) + 1
          /\ \A i \in 1..(Len(a) + 1) : c[i] = IF i <= Len(a) THEN a[i] ELSE <<x>>[i - Len(a)]
      BY <1>3, <2>1, ConcatProperties
    <2> HIDE DEF c
    <2>3. ASSUME NEW i \in 1..k PROVE c[i] = IF i < k THEN q[i] ELSE x
      <3>1. i \in 1..(Len(a) + 1)
        BY <1>1, <1>3
      <3>2. CASE i < k
        BY <1>1, <1>3, <2>2, <3>1, <3>2
      <3>3. CASE i = k
        <4>1. ~(i <= Len(a)) /\ i - Len(a) = 1
          BY <1>1, <1>3, <3>3
        <4> QED
          BY <2>1, <2>2, <3>1, <3>3, <4>1
      <3> QED
        BY <1>1, <3>2, <3>3
    <2> QED
      BY <1>1, <1>3, <2>2, <2>3
  <1> HIDE DEF c
  <1>6. /\ r \in Seq(S) /\ Len(r) = Len(q) + 1
        /\ \A i \in 1..(Len(q) + 1) : r[i] = IF i < k THEN q[i] ELSE IF i = k THEN x ELSE q[i - 1]
    <2>1. /\ r \in Seq(S) /\ Len(r) = Len(c) + Len(b)
          /\ \A i \in 1..(Len(c) + Len(b)) : r[i] = IF i <= Len(c) THEN c[i] ELSE b[i - Len(c)]
      BY <1>4, <1>5, ConcatProperties
    <2> HIDE DEF r
    <2>2. Len(r) = Len(q) + 1
      BY <1>1, <1>4, <1>5, <2>1
    <2>3. ASSUME NEW i \in 1..(Len(q) + 1)
          PROVE  r[i] = IF i < k THEN q[i] ELSE IF i = k THEN x ELSE q[i - 1]
      <3>1. i \in 1..(Len(c) + Len(b)) /\ (i <= Len(c) <=> i <= k)
        BY <1>1, <1>4, <1>5
      <3>2. CASE i <= k
        <4>1. r[i] = c[i] /\ i \in 1..k
          BY <1>1, <2>1, <3>1, <3>2
        <4> QED
          BY <1>1, <1>5, <3>2, <4>1
      <3>3. CASE ~(i <= k)
        <4>1. r[i] = b[i - k]
          BY <1>5, <2>1, <3>1, <3>3
        <4>2. i - k \in 1..(Len(q) + 1 - k) /\ k + (i - k) - 1 = i - 1
          BY <1>1, <3>3
        <4>3. b[i - k] = q[k + (i - k) - 1]
          BY <1>4, <4>2
        <4> QED
          BY <1>1, <3>3, <4>1, <4>2, <4>3
      <3> QED
        BY <3>2, <3>3
    <2> QED
      BY <2>1, <2>2, <2>3
  <1> HIDE DEF r
  <1>7. DOMAIN r = 1..(Len(q) + 1)
    BY <1>6, LenProperties
  <1>8. ToSet(r) = ToSet(q) \cup {x}
    <2>1. ASSUME NEW i \in 1..(Len(q) + 1) PROVE r[i] \in ToSet(q) \cup {x}
      <3>1. i < k => i \in 1..Len(q)
        BY <1>1
      <3>2. ~(i < k) /\ i # k => i - 1 \in 1..Len(q)
        BY <1>1
      <3> QED
        BY <1>1, <1>6, <3>1, <3>2 DEF ToSet
    <2>2. x \in ToSet(r)
      BY <1>1, <1>6, <1>7 DEF ToSet
    <2>3. ASSUME NEW i \in 1..Len(q) PROVE q[i] \in ToSet(r)
      <3>1. CASE i < k
        <4>1. i \in 1..(Len(q) + 1) /\ r[i] = q[i]
          BY <1>1, <1>6, <3>1
        <4> QED
          BY <1>7, <4>1 DEF ToSet
      <3>2. CASE ~(i < k)
        <4>1. i + 1 \in 1..(Len(q) + 1) /\ ~(i + 1 < k) /\ i + 1 # k /\ i + 1 - 1 = i
          BY <1>1, <3>2
        <4>2. r[i + 1] = q[i]
          BY <1>6, <4>1
        <4> QED
          BY <1>7, <4>1, <4>2 DEF ToSet
      <3> QED
        BY <3>1, <3>2
    <2> QED
      BY <1>1, <1>7, <2>1, <2>2, <2>3 DEF ToSet
  <1>9. ASSUME NoRepeats(q), x \notin ToSet(q) PROVE NoRepeats(r)
    <2>1. \A i \in 1..Len(q) : q[i] # x
      BY <1>1, <1>9 DEF ToSet
    <2> DEFINE back(i) == IF i < k THEN i ELSE i - 1
    <2>2. ASSUME NEW i \in 1..(Len(q) + 1), i # k
          PROVE  back(i) \in 1..Len(q) /\ r[i] = q[back(i)]
      BY <1>1, <1>6, <2>2
    <2>3. \A i, j \in 1..(Len(q) + 1) : i # k /\ j # k /\ back(i) = back(j) => i = j
      BY <1>1
    <2>4. r[k] = x /\ k \in 1..(Len(q) + 1)
      BY <1>1, <1>6
    <2> HIDE DEF back
    <2>5. ASSUME NEW i \in 1..(Len(q) + 1), NEW j \in 1..(Len(q) + 1), r[i] = r[j] PROVE i = j
      <3>1. CASE i = k \/ j = k
        BY <2>1, <2>2, <2>4, <2>5, <3>1
      <3>2. CASE i # k /\ j # k
        BY <1>1, <1>9, <2>2, <2>3, <2>5, <3>2 DEF NoRepeats
      <3> QED
        BY <3>1, <3>2
    <2> QED
      BY <1>7, <2>5 DEF NoRepeats
  <1> QED
    BY <1>2, <1>6, <1>8, <1>9

-----------------------------------------------------------------------------
(* A queue without repetitions is no longer than there are elements.        *)
LEMMA QueueFits ==
    ASSUME NEW S, IsFiniteSet(S), NEW q \in Seq(S), NoRepeats(q)
    PROVE  Len(q) <= Cardinality(S)
  <1> DEFINE f == [i \in 1..Len(q) |-> q[i]]
  <1>1. DOMAIN q = 1..Len(q) /\ Len(q) \in Nat /\ \A i \in 1..Len(q) : q[i] \in S
    BY QueueElements, ElementOfSeq
  <1>2. f \in [1..Len(q) -> S]
    BY <1>1
  <1>3. \A i, j \in 1..Len(q) : f[i] = f[j] => i = j
    BY <1>1 DEF NoRepeats
  <1> HIDE DEF f
  <1>4. f \in Injection(1..Len(q), S)
    BY <1>2, <1>3, Fun_IsInj
  <1>5. Cardinality(1..Len(q)) <= Cardinality(S)
    BY <1>4, FS_Injection
  <1>6. 1 \in Int /\ Len(q) \in Int
    BY <1>1
  <1>7. Cardinality(1..Len(q)) = IF 1 > Len(q) THEN 0 ELSE Len(q) - 1 + 1
    BY <1>6, FS_Interval
  <1>8. Cardinality(1..Len(q)) = Len(q)
    BY <1>1, <1>7
  <1> QED
    BY <1>5, <1>8

(* A queue without repetitions has as many places as elements.              *)
LEMMA QueueSize ==
    ASSUME NEW S, NEW q \in Seq(S), NoRepeats(q)
    PROVE  IsFiniteSet(ToSet(q)) /\ Cardinality(ToSet(q)) = Len(q)
  <1> DEFINE f == [i \in 1..Len(q) |-> q[i]]
             T == ToSet(q)
  <1>1. /\ DOMAIN q = 1..Len(q) /\ Len(q) \in Nat
        /\ \A i \in 1..Len(q) : q[i] \in T
        /\ \A x \in T : \E i \in 1..Len(q) : q[i] = x
    BY QueueElements
  <1>2. f \in [1..Len(q) -> T]
    BY <1>1
  <1>3. \A i, j \in 1..Len(q) : f[i] = f[j] => i = j
    BY <1>1 DEF NoRepeats
  <1>4. \A x \in T : \E i \in 1..Len(q) : f[i] = x
    BY <1>1
  <1> HIDE DEF f, T
  <1>5. ExistsBijection(1..Len(q), T)
    <2>1. f \in Bijection(1..Len(q), T)
      BY <1>2, <1>3, <1>4, Fun_IsBij
    <2> QED
      BY <2>1 DEF ExistsBijection
  <1>6. 1 \in Int /\ Len(q) \in Int
    BY <1>1
  <1>7. /\ IsFiniteSet(1..Len(q))
        /\ Cardinality(1..Len(q)) = IF 1 > Len(q) THEN 0 ELSE Len(q) - 1 + 1
    BY <1>6, FS_Interval
  <1>8. IsFiniteSet(T) /\ Cardinality(T) = Cardinality(1..Len(q))
    BY <1>5, <1>7, FS_Bijection
  <1> QED
    BY <1>1, <1>7, <1>8 DEF T

(* A search from the front finds the first place there is.                  *)
LEMMA LeastPlace ==
    ASSUME NEW T \in SUBSET Nat, T # {}
    PROVE  \E i \in T : \A j \in T : i <= j
  <1> DEFINE R == OpToRel(<, Nat)
  <1>1. IsWellFoundedOn(R, Nat)
    BY NatLessThanWellFounded
  <1>2. \A i, j \in Nat : <<j, i>> \in R <=> j < i
    BY DEF OpToRel
  <1> HIDE DEF R
  <1>3. PICK i \in T : \A j \in T : <<j, i>> \notin R
    BY <1>1, WFMin
  <1>4. ASSUME NEW j \in T PROVE i <= j
    <2>1. i \in Nat /\ j \in Nat
      BY <1>3
    <2>2. ~(j < i)
      BY <1>2, <1>3, <2>1, Zenon
    <2> QED
      BY <2>1, <2>2
  <1> QED
    BY <1>4
=============================================================================
