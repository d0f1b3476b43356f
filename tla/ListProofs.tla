----------------------------- MODULE ListProofs ------------------------------
(****************************************************************************)
(* What the operators of List return and preserve.                          *)
(****************************************************************************)
EXTENDS List, TLAPS

\* The empty list is the one of length 0.
LEMMA EmptyList ==
    ASSUME NEW S
    PROVE  /\ <<>> \in Seq(S) /\ Len(<<>>) = 0
           /\ \A s \in Seq(S) : s # <<>> => Len(s) \in Nat \ {0}
OBVIOUS

\* Two lists with the same nodes in the same places are equal.
LEMMA SameList ==
    ASSUME NEW S, NEW s \in Seq(S), NEW t \in Seq(S), Len(s) = Len(t),
           \A i \in 1..Len(s) : s[i] = t[i]
    PROVE  s = t
OBVIOUS

\* Appending to a list.
LEMMA AppendFacts ==
    ASSUME NEW S, NEW s \in Seq(S), NEW x \in S
    PROVE  /\ Append(s, x) \in Seq(S)
           /\ Append(s, x) # <<>>
           /\ Elems(Append(s, x)) = Elems(s) \cup {x}
           /\ NoDup(s) /\ x \notin Elems(s) => NoDup(Append(s, x))
<1>1. /\ Append(s, x) \in Seq(S)
      /\ Len(Append(s, x)) = Len(s) + 1
      /\ Append(s, x)[Len(s) + 1] = x
      /\ \A i \in 1..Len(s) : Append(s, x)[i] = s[i]
      /\ Len(s) \in Nat
  OBVIOUS
<1>2. Elems(Append(s, x)) = Elems(s) \cup {x}
  BY <1>1 DEF Elems
<1>3. NoDup(s) /\ x \notin Elems(s) => NoDup(Append(s, x))
  BY <1>1 DEF Elems, NoDup
<1>4. Append(s, x) # <<>>
  BY <1>1
<1>. QED BY <1>1, <1>2, <1>3, <1>4

\* The last element of a list and the rest.
LEMMA FrontFacts ==
    ASSUME NEW S, NEW s \in Seq(S), s # <<>>
    PROVE  /\ Front(s) \in Seq(S)
           /\ Last(s) \in S
           /\ Last(s) \in Elems(s)
           /\ NoDup(s) => NoDup(Front(s)) /\ Elems(Front(s)) = Elems(s) \ {Last(s)}
           /\ Len(s) = 1 => Front(s) = <<>>
           /\ Len(s) > 1 => Front(s) # <<>> /\ Front(s)[1] = s[1]
           /\ Len(s) \in Nat \ {0}
<1>1. Len(s) \in Nat \ {0}
  OBVIOUS
<1>2. /\ Front(s) \in Seq(S)
      /\ Len(Front(s)) = Len(s) - 1
      /\ \A i \in 1..(Len(s) - 1) : Front(s)[i] = s[i]
  BY <1>1 DEF Front
<1>3. Last(s) \in S /\ Last(s) \in Elems(s)
  BY <1>1 DEF Last, Elems
<1>4. NoDup(s) => NoDup(Front(s)) /\ Elems(Front(s)) = Elems(s) \ {Last(s)}
  BY <1>1, <1>2 DEF NoDup, Elems, Last
<1>5. Len(s) = 1 => Front(s) = <<>>
  BY <1>2
<1>6. Len(s) > 1 => Front(s) # <<>> /\ Front(s)[1] = s[1]
  BY <1>1, <1>2
<1>. QED BY <1>1, <1>2, <1>3, <1>4, <1>5, <1>6

\* The first element of a list and the rest.
LEMMA TailFacts ==
    ASSUME NEW S, NEW s \in Seq(S), s # <<>>
    PROVE  /\ Head(s) \in S
           /\ Tail(s) \in Seq(S)
           /\ Elems(s) = {Head(s)} \cup Elems(Tail(s))
           /\ NoDup(s) => NoDup(Tail(s)) /\ Head(s) \notin Elems(Tail(s))
<1>1. Len(s) \in Nat \ {0}
  OBVIOUS
<1>2. /\ Tail(s) \in Seq(S)
      /\ Len(Tail(s)) = Len(s) - 1
      /\ \A i \in 1..(Len(s) - 1) : Tail(s)[i] = s[i + 1]
      /\ Head(s) = s[1]
      /\ Head(s) \in S
  BY <1>1
<1>3. Elems(s) \subseteq {Head(s)} \cup Elems(Tail(s))
  <2>. SUFFICES ASSUME NEW i \in 1..Len(s), i # 1
                PROVE  s[i] \in Elems(Tail(s))
    BY <1>2 DEF Elems
  <2>. i - 1 \in 1..(Len(s) - 1) /\ s[i] = Tail(s)[i - 1]
    BY <1>1, <1>2
  <2>. QED BY <1>2 DEF Elems
<1>4. {Head(s)} \cup Elems(Tail(s)) \subseteq Elems(s)
  BY <1>1, <1>2 DEF Elems
<1>5. NoDup(s) => NoDup(Tail(s)) /\ Head(s) \notin Elems(Tail(s))
  BY <1>1, <1>2 DEF NoDup, Elems
<1>. QED BY <1>2, <1>3, <1>4, <1>5

\* Unlinking removes the node and nothing else.
LEMMA UnlinkFacts ==
    ASSUME NEW S, NEW s \in Seq(S), NEW x
    PROVE  /\ Unlink(s, x) \in Seq(S)
           /\ NoDup(s) => Elems(Unlink(s, x)) = Elems(s) \ {x}
           /\ NoDup(s) => NoDup(Unlink(s, x))
<1>1. CASE x \notin Elems(s)
  BY <1>1 DEF Unlink
<1>2. CASE x \in Elems(s)
  <2>. DEFINE k == CHOOSE i \in 1..Len(s) : s[i] = x
              u == [i \in 1..(Len(s) - 1) |-> IF i < k THEN s[i] ELSE s[i + 1]]
  <2>1. k \in 1..Len(s) /\ s[k] = x
    BY <1>2 DEF Elems
  <2>2. Unlink(s, x) = u
    BY <1>2 DEF Unlink
  <2>. HIDE DEF k
  <2>3. u \in Seq(S) /\ Len(u) = Len(s) - 1
    BY <2>1
  <2>4. NoDup(s) => Elems(u) \subseteq Elems(s) \ {x}
    <3>. SUFFICES ASSUME NoDup(s), NEW i \in 1..(Len(s) - 1)
                  PROVE  u[i] \in Elems(s) /\ u[i] # x
      BY <2>3 DEF Elems
    <3>. DEFINE j == IF i < k THEN i ELSE i + 1
    <3>1. j \in 1..Len(s) /\ j # k /\ u[i] = s[j]
      BY <2>1
    <3>. QED BY <3>1, <2>1 DEF Elems, NoDup
  <2>5. Elems(s) \ {x} \subseteq Elems(u)
    <3>. SUFFICES ASSUME NEW i \in 1..Len(s), s[i] # x
                  PROVE  s[i] \in Elems(u)
      BY DEF Elems
    <3>1. CASE i < k
      <4>. i \in 1..(Len(s) - 1) /\ u[i] = s[i]
        BY <3>1, <2>1
      <4>. QED BY <2>3 DEF Elems
    <3>2. CASE i > k
      <4>. i - 1 \in 1..(Len(s) - 1) /\ u[i - 1] = s[i]
        BY <3>2, <2>1
      <4>. QED BY <2>3 DEF Elems
    <3>. QED BY <3>1, <3>2, <2>1
  <2>6. NoDup(s) => NoDup(u)
    BY <2>1, <2>3 DEF NoDup
  <2>. QED BY <2>2, <2>3, <2>4, <2>5, <2>6
<1>. QED BY <1>1, <1>2

\* Unlinking the first node leaves the tail, whose first node is what Succ
\* had cached.
LEMMA UnlinkHead ==
    ASSUME NEW S, NEW s \in Seq(S), s # <<>>, NoDup(s)
    PROVE  /\ Unlink(s, Head(s)) = Tail(s)
           /\ Tail(s) = <<>> => Succ(s, Head(s)) = End
           /\ Tail(s) # <<>> => Succ(s, Head(s)) = Head(Tail(s))
<1>1. Len(s) \in Nat \ {0} /\ Head(s) = s[1] /\ Head(s) \in Elems(s)
  BY DEF Elems
<1>. DEFINE k == CHOOSE i \in 1..Len(s) : s[i] = Head(s)
            u == [i \in 1..(Len(s) - 1) |-> IF i < k THEN s[i] ELSE s[i + 1]]
<1>2. k = 1
  <2>1. k \in 1..Len(s) /\ s[k] = s[1]
    BY <1>1
  <2>. QED BY <1>1, <2>1 DEF NoDup
<1>3. Unlink(s, Head(s)) = u
  BY <1>1 DEF Unlink
<1>4. Succ(s, Head(s)) = IF k = Len(s) THEN End ELSE s[k + 1]
  BY <1>1 DEF Succ
<1>. HIDE DEF k
<1>5. /\ Tail(s) \in Seq(S)
      /\ Len(Tail(s)) = Len(s) - 1
      /\ \A i \in 1..(Len(s) - 1) : Tail(s)[i] = s[i + 1]
  BY <1>1
<1>6. u = Tail(s)
  <2>1. u \in Seq(S) /\ Len(u) = Len(s) - 1
    BY <1>1, <1>2
  <2>2. \A i \in 1..(Len(s) - 1) : u[i] = Tail(s)[i]
    BY <1>2, <1>5
  <2>. HIDE DEF u
  <2>. QED BY <1>5, <2>1, <2>2, SameList
<1>7. Tail(s) = <<>> => k = Len(s)
  <2>. SUFFICES ASSUME Len(Tail(s)) = 0
                PROVE  Len(s) = 1
    BY <1>2, EmptyList
  <2>. QED BY <1>1, <1>5
<1>8. Tail(s) # <<>> => k # Len(s) /\ Head(Tail(s)) = s[k + 1]
  <2>. SUFFICES ASSUME Tail(s) # <<>>
                PROVE  Len(s) > 1 /\ Head(Tail(s)) = s[2]
    BY <1>1, <1>2
  <2>1. Len(Tail(s)) # 0
    BY <1>5, EmptyList
  <2>2. Head(Tail(s)) = Tail(s)[1]
    BY <1>5
  <2>. QED BY <1>1, <1>5, <2>1, <2>2
<1>. QED BY <1>3, <1>4, <1>6, <1>7, <1>8

\* The successor that a loop caches is a node of the list, the node itself or
\* the end.
LEMMA SuccType ==
    ASSUME NEW S, NEW s \in Seq(S), NEW x \in S
    PROVE  Succ(s, x) \in S \cup {End}
<1>1. CASE x \notin Elems(s)
  BY <1>1 DEF Succ
<1>2. CASE x \in Elems(s)
  <2>. DEFINE k == CHOOSE i \in 1..Len(s) : s[i] = x
  <2>1. k \in 1..Len(s)
    BY <1>2 DEF Elems
  <2>2. Succ(s, x) = IF k = Len(s) THEN End ELSE s[k + 1]
    BY <1>2 DEF Succ
  <2>. HIDE DEF k
  <2>. QED BY <2>1, <2>2
<1>. QED BY <1>1, <1>2

\* The first element is one.
LEMMA FirstElem ==
    ASSUME NEW S, NEW s \in Seq(S), s # <<>>
    PROVE  s[1] \in Elems(s)
<1>1. Len(s) \in Nat \ {0}
  OBVIOUS
<1>. QED BY <1>1 DEF Elems

\* A list with no elements is empty.
LEMMA ElemsEmpty ==
    ASSUME NEW S, NEW s \in Seq(S)
    PROVE  s = <<>> <=> Elems(s) = {}
<1>1. Elems(s) = {} => Len(s) = 0
  <2>1. Len(s) \in Nat
    OBVIOUS
  <2>2. Len(s) # 0 => s[1] \in Elems(s)
    BY <2>1 DEF Elems
  <2>. QED BY <2>2
<1>2. s = <<>> => Elems(s) = {}
  BY DEF Elems
<1>. QED BY <1>1, <1>2, EmptyList

\* Unlinking a node of a list takes one off its length.
LEMMA UnlinkLen ==
    ASSUME NEW S, NEW s \in Seq(S), NEW x \in Elems(s)
    PROVE  Len(Unlink(s, x)) = Len(s) - 1
<1>. DEFINE k == CHOOSE i \in 1..Len(s) : s[i] = x
            u == [i \in 1..(Len(s) - 1) |-> IF i < k THEN s[i] ELSE s[i + 1]]
<1>1. k \in 1..Len(s)
  BY DEF Elems
<1>2. Unlink(s, x) = u
  BY DEF Unlink
<1>. HIDE DEF k
<1>3. u \in Seq(S) /\ Len(u) = Len(s) - 1
  BY <1>1
<1>. QED BY <1>2, <1>3

\* The successor of a node of a list is another one, or the end.
LEMMA SuccElem ==
    ASSUME NEW S, NEW s \in Seq(S), NoDup(s), NEW x \in Elems(s)
    PROVE  Succ(s, x) = End \/ Succ(s, x) \in Elems(s) \ {x}
<1>. DEFINE k == CHOOSE i \in 1..Len(s) : s[i] = x
<1>1. k \in 1..Len(s) /\ s[k] = x
  BY DEF Elems
<1>2. Succ(s, x) = IF k = Len(s) THEN End ELSE s[k + 1]
  BY DEF Succ
<1>. HIDE DEF k
<1>3. k # Len(s) => k + 1 \in 1..Len(s) /\ s[k + 1] # s[k]
  BY <1>1 DEF NoDup
<1>. QED BY <1>1, <1>2, <1>3 DEF Elems

\* The first node is one of the list.
LEMMA FirstFacts ==
    ASSUME NEW S, NEW s \in Seq(S)
    PROVE  /\ s = <<>> => First(s) = End
           /\ s # <<>> => First(s) = Head(s) /\ First(s) \in Elems(s)
<1>1. s # <<>> => Head(s) = s[1]
  OBVIOUS
<1>. QED BY <1>1, FirstElem DEF First
=============================================================================
