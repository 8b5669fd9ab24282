--------------------------- MODULE RtuTrafficProofs ---------------------------
(***************************************************************************)
(* Proofs that the RTU server executes what the master sent it, all of it, *)
(* once and in order, on a line on which every frame is a whole request.   *)
(***************************************************************************)
EXTENDS RtuServerProofs, SequenceTheorems

-----------------------------------------------------------------------------
(* Requests picked from a sequence, in its order.                          *)

(* The members of b are members of a that are in P, in a's order.          *)
Embedded(P, at, b, a) ==
  /\ \A i \in 1 .. Len(b) : b[i] = a[at[i]] /\ b[i] \in P
  /\ \A i, j \in 1 .. Len(b) : i < j => at[i] < at[j]

Embeds(P, b, a) ==
  \E at \in [1 .. Len(b) -> 1 .. Len(a)] : Embedded(P, at, b, a)

(* ... and every member of a that is in P is among them.                   *)
Picks(P, b, a) ==
  \E at \in [1 .. Len(b) -> 1 .. Len(a)] :
    /\ Embedded(P, at, b, a)
    /\ \A j \in 1 .. Len(a) : a[j] \in P => \E i \in 1 .. Len(b) : at[i] = j

(* Nothing is picked from nothing.                                         *)
LEMMA PicksNothing ==
  ASSUME NEW S, NEW P
  PROVE  /\ Picks(P, <<>>, <<>>)
         /\ \A a \in Seq(S) : Embeds(P, <<>>, a)
         /\ \A b \in Seq(S) : Picks(P, b, <<>>) => b = <<>>
<1>1. ASSUME NEW a \in Seq(S) PROVE Embeds(P, <<>>, a)
  <2>1. [i \in {} |-> 1] \in [1 .. Len(<<>>) -> 1 .. Len(a)]
    OBVIOUS
  <2>2. Embedded(P, [i \in {} |-> 1], <<>>, a)
    BY DEF Embedded
  <2> QED
    BY <2>1, <2>2 DEF Embeds
<1>2. Picks(P, <<>>, <<>>)
  <2>1. [i \in {} |-> 1] \in [1 .. Len(<<>>) -> 1 .. Len(<<>>)]
    OBVIOUS
  <2>2. Embedded(P, [i \in {} |-> 1], <<>>, <<>>)
    BY DEF Embedded
  <2> QED
    BY <2>1, <2>2 DEF Picks
<1>3. ASSUME NEW b \in Seq(S), Picks(P, b, <<>>) PROVE b = <<>>
  <2>1. PICK at : at \in [1 .. Len(b) -> 1 .. Len(<<>>)]
    BY <1>3 DEF Picks
  <2>2. 1 \notin 1 .. Len(b)
    BY <2>1
  <2> QED
    BY <2>2
<1> QED
  BY <1>1, <1>2, <1>3

(* A request that is added to a is picked last, or not at all.             *)
LEMMA PicksLast ==
  ASSUME NEW S, NEW P, NEW b \in Seq(S), NEW a \in Seq(S), NEW f \in S, Picks(P, b, a)
  PROVE  /\ f \in P => Picks(P, Append(b, f), Append(a, f))
         /\ f \notin P => Picks(P, b, Append(a, f))
<1>1. PICK n \in Nat, m \in Nat : n = Len(b) /\ m = Len(a)
  OBVIOUS
<1>2. PICK at \in [1 .. n -> 1 .. m] :
        /\ Embedded(P, at, b, a)
        /\ \A j \in 1 .. m : a[j] \in P => \E i \in 1 .. n : at[i] = j
  BY <1>1 DEF Picks
<1>3. PICK a2 \in Seq(S) : /\ a2 = Append(a, f) /\ Len(a2) = m + 1 /\ a2[m + 1] = f
                           /\ \A j \in 1 .. m : a2[j] = a[j]
  <2>1. /\ Append(a, f) \in Seq(S) /\ Len(Append(a, f)) = m + 1
        /\ Append(a, f)[m + 1] = f /\ \A j \in 1 .. m : Append(a, f)[j] = a[j]
    BY <1>1
  <2> QED
    BY <2>1, Zenon
<1>4. \A i \in 1 .. n : at[i] \in 1 .. m
  BY <1>2
<1>5. CASE f \in P
  <2>1. PICK b2 \in Seq(S) : /\ b2 = Append(b, f) /\ Len(b2) = n + 1 /\ b2[n + 1] = f
                             /\ \A i \in 1 .. n : b2[i] = b[i]
    <3>1. /\ Append(b, f) \in Seq(S) /\ Len(Append(b, f)) = n + 1
          /\ Append(b, f)[n + 1] = f /\ \A j \in 1 .. n : Append(b, f)[j] = b[j]
      BY <1>1
    <3> QED
      BY <3>1, Zenon
  <2>2. PICK at2 \in [1 .. n + 1 -> 1 .. m + 1] :
          /\ at2[n + 1] = m + 1 /\ \A i \in 1 .. n : at2[i] = at[i]
    <3> DEFINE t == [i \in 1 .. n + 1 |-> IF i = n + 1 THEN m + 1 ELSE at[i]]
    <3>1. t \in [1 .. n + 1 -> 1 .. m + 1]
      <4>1. ASSUME NEW i \in 1 .. n + 1 PROVE (IF i = n + 1 THEN m + 1 ELSE at[i]) \in 1 .. m + 1
        BY <1>4
      <4> QED
        BY <4>1
    <3>2. t[n + 1] = m + 1 /\ \A i \in 1 .. n : t[i] = at[i]
      OBVIOUS
    <3> HIDE DEF t
    <3> QED
      BY <3>1, <3>2
  <2>3. ASSUME NEW i \in 1 .. n + 1 PROVE b2[i] = a2[at2[i]] /\ b2[i] \in P
    <3>1. CASE i = n + 1
      BY <1>3, <1>5, <2>1, <2>2, <3>1
    <3>2. CASE i \in 1 .. n
      <4>1. b[i] = a[at[i]] /\ b[i] \in P
        BY <1>1, <1>2, <3>2 DEF Embedded
      <4> QED
        BY <1>3, <1>4, <2>1, <2>2, <3>2, <4>1
    <3> QED
      BY <3>1, <3>2
  <2>4. ASSUME NEW i \in 1 .. n + 1, NEW j \in 1 .. n + 1, i < j PROVE at2[i] < at2[j]
    <3>1. i \in 1 .. n /\ (j = n + 1 \/ j \in 1 .. n)
      BY <2>4
    <3>2. j \in 1 .. n => at[i] < at[j]
      BY <1>1, <1>2, <2>4, <3>1 DEF Embedded
    <3>3. at[i] \in 1 .. m
      BY <1>4, <3>1
    <3>4. CASE j = n + 1
      <4>1. at2[i] = at[i] /\ at2[j] = m + 1
        BY <2>2, <3>1, <3>4
      <4>2. at[i] < m + 1
        BY <3>3, SMTT(20)
      <4> QED
        BY <4>1, <4>2, Zenon
    <3>5. CASE j \in 1 .. n
      <4>1. at2[i] = at[i] /\ at2[j] = at[j]
        BY <2>2, <3>1, <3>5
      <4> QED
        BY <3>2, <3>5, <4>1
    <3> QED
      BY <3>1, <3>4, <3>5
  <2>5. Embedded(P, at2, b2, a2)
    BY <2>1, <2>3, <2>4 DEF Embedded
  <2>6. ASSUME NEW j \in 1 .. m + 1, a2[j] \in P PROVE \E i \in 1 .. n + 1 : at2[i] = j
    <3>1. CASE j = m + 1
      BY <2>2, <3>1
    <3>2. CASE j \in 1 .. m
      <4>1. PICK i \in 1 .. n : at[i] = j
        BY <1>2, <1>3, <2>6, <3>2
      <4>2. i \in 1 .. n + 1 /\ at2[i] = j
        BY <2>2, <4>1
      <4> QED
        BY <4>2
    <3> QED
      BY <3>1, <3>2
  <2>7. Picks(P, b2, a2)
    <3>1. at2 \in [1 .. Len(b2) -> 1 .. Len(a2)]
      BY <1>3, <2>1, <2>2, Zenon
    <3>2. \A j \in 1 .. Len(a2) : a2[j] \in P => \E i \in 1 .. Len(b2) : at2[i] = j
      BY <1>3, <2>1, <2>6, Zenon
    <3> QED
      BY <2>5, <3>1, <3>2, Zenon DEF Picks
  <2> QED
    BY <1>3, <1>5, <2>1, <2>7
<1>6. CASE f \notin P
  <2>1. at \in [1 .. n -> 1 .. m + 1]
    BY <1>2, <1>4
  <2>2. Embedded(P, at, b, a2)
    <3>1. ASSUME NEW i \in 1 .. n PROVE b[i] = a2[at[i]] /\ b[i] \in P
      BY <1>1, <1>2, <1>3, <1>4 DEF Embedded
    <3> QED
      BY <1>1, <1>2, <3>1 DEF Embedded
  <2>3. ASSUME NEW j \in 1 .. m + 1, a2[j] \in P PROVE \E i \in 1 .. n : at[i] = j
    <3>1. j \in 1 .. m
      BY <1>3, <1>6, <2>3
    <3> QED
      BY <1>2, <1>3, <2>3, <3>1
  <2>4. Picks(P, b, a2)
    <3>1. at \in [1 .. Len(b) -> 1 .. Len(a2)]
      BY <1>1, <1>3, <2>1, Zenon
    <3>2. \A j \in 1 .. Len(a2) : a2[j] \in P => \E i \in 1 .. Len(b) : at[i] = j
      BY <1>1, <1>3, <2>3, Zenon
    <3> QED
      BY <2>2, <3>1, <3>2, Zenon DEF Picks
  <2> QED
    BY <1>3, <1>6, <2>4
<1> QED
  BY <1>5, <1>6

(* The first member of a is picked first, or not at all.                   *)
LEMMA PicksFirst ==
  ASSUME NEW S, NEW P, NEW b \in Seq(S), NEW a \in Seq(S), a # <<>>, Picks(P, b, a)
  PROVE  /\ a[1] \in P => b # <<>> /\ b[1] = a[1] /\ Picks(P, Tail(b), Tail(a))
         /\ a[1] \notin P => Picks(P, b, Tail(a))
<1>1. PICK n \in Nat, m \in Nat : n = Len(b) /\ m = Len(a) /\ m >= 1
  OBVIOUS
<1>2. PICK at \in [1 .. n -> 1 .. m] :
        /\ Embedded(P, at, b, a)
        /\ \A j \in 1 .. m : a[j] \in P => \E i \in 1 .. n : at[i] = j
  BY <1>1 DEF Picks
<1>3. \A i \in 1 .. n : at[i] \in 1 .. m /\ b[i] = a[at[i]] /\ b[i] \in P
  BY <1>1, <1>2 DEF Embedded
<1>4. \A i, j \in 1 .. n : i < j => at[i] < at[j]
  BY <1>1, <1>2 DEF Embedded
<1>5. PICK a2 \in Seq(S) : /\ a2 = Tail(a) /\ Len(a2) = m - 1
                           /\ \A j \in 1 .. m - 1 : a2[j] = a[j + 1]
  <2>1. /\ Tail(a) \in Seq(S) /\ Len(Tail(a)) = m - 1
        /\ \A j \in 1 .. m - 1 : Tail(a)[j] = a[j + 1]
    BY <1>1
  <2> QED
    BY <2>1, Zenon
<1>6. CASE a[1] \in P
  <2>1. PICK i1 \in 1 .. n : at[i1] = 1
    BY <1>1, <1>2, <1>6
  <2>2. 1 \in 1 .. n /\ at[1] = 1
    <3>1. 1 \in 1 .. n
      BY <2>1
    <3>2. at[1] \in 1 .. m /\ (1 < i1 => at[1] < 1)
      BY <1>3, <1>4, <2>1, <3>1
    <3>3. i1 = 1
      BY <2>1, <3>2
    <3> QED
      BY <2>1, <3>1, <3>3
  <2>3. b # <<>> /\ b[1] = a[1]
    BY <1>1, <1>3, <2>2
  <2>4. PICK b2 \in Seq(S) : /\ b2 = Tail(b) /\ Len(b2) = n - 1
                             /\ \A i \in 1 .. n - 1 : b2[i] = b[i + 1]
    <3>1. /\ Tail(b) \in Seq(S) /\ Len(Tail(b)) = n - 1
          /\ \A j \in 1 .. n - 1 : Tail(b)[j] = b[j + 1]
      BY <1>1, <2>3
    <3> QED
      BY <3>1, Zenon
  <2>5. ASSUME NEW i \in 1 .. n - 1 PROVE i + 1 \in 1 .. n /\ at[i + 1] \in 2 .. m
    <3>1. i + 1 \in 1 .. n /\ 1 < i + 1
      OBVIOUS
    <3>2. at[i + 1] \in 1 .. m /\ at[1] < at[i + 1]
      BY <1>3, <1>4, <2>2, <3>1
    <3> QED
      BY <2>2, <3>1, <3>2
  <2>6. PICK at2 \in [1 .. n - 1 -> 1 .. m - 1] : \A i \in 1 .. n - 1 : at2[i] = at[i + 1] - 1
    <3> DEFINE t == [i \in 1 .. n - 1 |-> at[i + 1] - 1]
    <3>1. t \in [1 .. n - 1 -> 1 .. m - 1]
      <4>1. ASSUME NEW i \in 1 .. n - 1 PROVE at[i + 1] - 1 \in 1 .. m - 1
        BY <2>5
      <4> QED
        BY <4>1
    <3>2. \A i \in 1 .. n - 1 : t[i] = at[i + 1] - 1
      OBVIOUS
    <3> HIDE DEF t
    <3> QED
      BY <3>1, <3>2
  <2>7. ASSUME NEW i \in 1 .. n - 1 PROVE b2[i] = a2[at2[i]] /\ b2[i] \in P
    <3>1. at2[i] \in 1 .. m - 1 /\ at2[i] + 1 = at[i + 1] /\ i + 1 \in 1 .. n
      <4>1. PICK x : x = at[i + 1]
        OBVIOUS
      <4>2. x \in 2 .. m /\ i + 1 \in 1 .. n
        BY <2>5, <4>1
      <4>3. at2[i] = x - 1
        BY <2>6, <4>1
      <4> QED
        BY <4>1, <4>2, <4>3
    <3> QED
      BY <1>3, <1>5, <2>4, <3>1
  <2>8. ASSUME NEW i \in 1 .. n - 1, NEW j \in 1 .. n - 1, i < j PROVE at2[i] < at2[j]
    <3>1. i + 1 \in 1 .. n /\ j + 1 \in 1 .. n /\ i + 1 < j + 1
      BY <2>8
    <3>2. at[i + 1] < at[j + 1]
      BY <1>4, <3>1
    <3>3. at[i + 1] \in 1 .. m /\ at[j + 1] \in 1 .. m
      BY <1>3, <3>1
    <3>4. PICK x \in 1 .. m, y \in 1 .. m : x = at[i + 1] /\ y = at[j + 1]
      BY <3>3
    <3>5. at2[i] = x - 1 /\ at2[j] = y - 1
      BY <2>6, <3>4
    <3> QED
      BY <3>2, <3>4, <3>5
  <2>9. Embedded(P, at2, b2, a2)
    BY <2>4, <2>7, <2>8 DEF Embedded
  <2>10. ASSUME NEW j \in 1 .. m - 1, a2[j] \in P PROVE \E i \in 1 .. n - 1 : at2[i] = j
    <3>1. j + 1 \in 1 .. m /\ a[j + 1] \in P
      BY <1>5, <2>10
    <3>2. PICK i \in 1 .. n : at[i] = j + 1
      BY <1>2, <3>1
    <3>3. i # 1
      BY <2>2, <3>2
    <3>4. i - 1 \in 1 .. n - 1 /\ at2[i - 1] = at[(i - 1) + 1] - 1 /\ (i - 1) + 1 = i
      BY <2>6, <3>2, <3>3
    <3>5. at2[i - 1] = j
      BY <3>2, <3>4
    <3> QED
      BY <3>4, <3>5
  <2>11. Picks(P, b2, a2)
    <3>1. at2 \in [1 .. Len(b2) -> 1 .. Len(a2)]
      BY <1>5, <2>4, <2>6, Zenon
    <3>2. \A j \in 1 .. Len(a2) : a2[j] \in P => \E i \in 1 .. Len(b2) : at2[i] = j
      BY <1>5, <2>4, <2>10, Zenon
    <3> QED
      BY <2>9, <3>1, <3>2, Zenon DEF Picks
  <2> QED
    BY <1>5, <1>6, <2>3, <2>4, <2>11
<1>7. CASE a[1] \notin P
  <2>1. ASSUME NEW i \in 1 .. n PROVE at[i] \in 2 .. m
    <3>1. at[i] \in 1 .. m /\ at[i] # 1
      BY <1>3, <1>7
    <3> QED
      BY <3>1
  <2>2. PICK at2 \in [1 .. n -> 1 .. m - 1] : \A i \in 1 .. n : at2[i] = at[i] - 1
    <3> DEFINE t == [i \in 1 .. n |-> at[i] - 1]
    <3>1. t \in [1 .. n -> 1 .. m - 1]
      <4>1. ASSUME NEW i \in 1 .. n PROVE at[i] - 1 \in 1 .. m - 1
        BY <2>1
      <4> QED
        BY <4>1
    <3>2. \A i \in 1 .. n : t[i] = at[i] - 1
      OBVIOUS
    <3> HIDE DEF t
    <3> QED
      BY <3>1, <3>2
  <2>3. ASSUME NEW i \in 1 .. n PROVE b[i] = a2[at2[i]] /\ b[i] \in P
    <3>1. at2[i] \in 1 .. m - 1 /\ at2[i] + 1 = at[i]
      BY <2>1, <2>2
    <3> QED
      BY <1>3, <1>5, <3>1
  <2>4. ASSUME NEW i \in 1 .. n, NEW j \in 1 .. n, i < j PROVE at2[i] < at2[j]
    <3>1. at[i] < at[j] /\ at[i] \in 1 .. m /\ at[j] \in 1 .. m
      BY <1>3, <1>4, <2>4
    <3> QED
      BY <2>2, <3>1
  <2>5. Embedded(P, at2, b, a2)
    BY <1>1, <2>3, <2>4 DEF Embedded
  <2>6. ASSUME NEW j \in 1 .. m - 1, a2[j] \in P PROVE \E i \in 1 .. n : at2[i] = j
    <3>1. j + 1 \in 1 .. m /\ a[j + 1] \in P
      BY <1>5, <2>6
    <3>2. PICK i \in 1 .. n : at[i] = j + 1
      BY <1>2, <3>1
    <3>3. at2[i] = j
      BY <2>2, <3>2
    <3> QED
      BY <3>3
  <2>7. Picks(P, b, a2)
    <3>1. at2 \in [1 .. Len(b) -> 1 .. Len(a2)]
      BY <1>1, <1>5, <2>2, Zenon
    <3>2. \A j \in 1 .. Len(a2) : a2[j] \in P => \E i \in 1 .. Len(b) : at2[i] = j
      BY <1>1, <1>5, <2>6, Zenon
    <3> QED
      BY <2>5, <3>1, <3>2, Zenon DEF Picks
  <2> QED
    BY <1>5, <1>7, <2>7
<1> QED
  BY <1>6, <1>7

(* What is picked first are members of a, in its order.                    *)
LEMMA PicksEmbeds ==
  ASSUME NEW S, NEW P, NEW d \in Seq(S), NEW c \in Seq(S), NEW a \in Seq(S), Picks(P, d \o c, a)
  PROVE  Embeds(P, d, a)
<1>0. PICK n \in Nat, k \in Nat, m \in Nat : n = Len(d) /\ k = Len(c) /\ m = Len(a)
  OBVIOUS
<1>1. PICK b \in Seq(S) :
        b = d \o c /\ Len(b) = n + k /\ \A i \in 1 .. n : b[i] = d[i]
  <2>1. d \o c \in Seq(S)
    OBVIOUS
  <2>2. Len(d \o c) = n + k /\ \A i \in 1 .. n : (d \o c)[i] = d[i]
    BY <1>0
  <2> QED
    BY <2>1, <2>2, Zenon
<1>2. PICK at \in [1 .. n + k -> 1 .. m] : Embedded(P, at, b, a)
  BY <1>0, <1>1 DEF Picks
<1>3. PICK at2 \in [1 .. n -> 1 .. m] : \A i \in 1 .. n : at2[i] = at[i]
  <2>1. \A i \in 1 .. n : i \in 1 .. n + k /\ at[i] \in 1 .. m
    BY <1>2
  <2>2. [i \in 1 .. n |-> at[i]] \in [1 .. n -> 1 .. m]
    BY <2>1
  <2> QED
    BY <2>2
<1>4. \A i \in 1 .. n + k : b[i] = a[at[i]] /\ b[i] \in P
  BY <1>1, <1>2 DEF Embedded
<1>5. \A i, j \in 1 .. n + k : i < j => at[i] < at[j]
  BY <1>1, <1>2 DEF Embedded
<1>6. \A i \in 1 .. n : i \in 1 .. n + k
  OBVIOUS
<1>7. Embedded(P, at2, d, a)
  BY <1>0, <1>1, <1>3, <1>4, <1>5, <1>6 DEF Embedded
<1> QED
  BY <1>0, <1>3, <1>7 DEF Embeds

(* ... and remain so when a grows.                                         *)
LEMMA EmbedsMore ==
  ASSUME NEW S, NEW P, NEW b \in Seq(S), NEW a \in Seq(S), NEW f \in S, Embeds(P, b, a)
  PROVE  Embeds(P, b, Append(a, f))
<1>0. PICK n \in Nat, m \in Nat : n = Len(b) /\ m = Len(a)
  OBVIOUS
<1>1. PICK a2 \in Seq(S) : /\ a2 = Append(a, f) /\ Len(a2) = m + 1 /\ a2[m + 1] = f
                           /\ \A j \in 1 .. m : a2[j] = a[j]
  <2>1. /\ Append(a, f) \in Seq(S) /\ Len(Append(a, f)) = m + 1
        /\ Append(a, f)[m + 1] = f /\ \A j \in 1 .. m : Append(a, f)[j] = a[j]
    BY <1>0
  <2> QED
    BY <2>1, Zenon
<1>2. PICK at \in [1 .. n -> 1 .. m] : Embedded(P, at, b, a)
  BY <1>0 DEF Embeds
<1>3. at \in [1 .. n -> 1 .. m + 1] /\ \A i \in 1 .. n : at[i] \in 1 .. m
  BY <1>2
<1>4. Embedded(P, at, b, a2)
  BY <1>0, <1>1, <1>2, <1>3 DEF Embedded
<1> QED
  BY <1>0, <1>1, <1>3, <1>4 DEF Embeds

-----------------------------------------------------------------------------
(* Bytes that are whole requests, one after the other.                     *)

Stream(b, ps) ==
  \E cut \in [0 .. Len(ps) -> 0 .. Len(b)] :
    /\ cut[0] = 0 /\ cut[Len(ps)] = Len(b)
    /\ \A i \in 1 .. Len(ps) :
         /\ WholeRequest(ps[i]) /\ cut[i] = cut[i - 1] + Len(ps[i])
         /\ \A j \in 1 .. Len(ps[i]) : b[cut[i - 1] + j] = ps[i][j]

(* What is used of a whole request.                                        *)
LEMMA WholeBytes ==
  ASSUME NEW f, WholeRequest(f) PROVE f \in Seq(U8) /\ Len(f) \in Nat /\ Len(f) >= 8
  BY DEF WholeRequest, RTU_MIN_REQ_LENGTH

(* Bytes and more bytes.                                                   *)
LEMMA Concatenated ==
  ASSUME NEW s \in Seq(U8), NEW t \in Seq(U8), NEW n \in Nat, NEW m \in Nat,
         n = Len(s), m = Len(t), NEW b \in Seq(U8), b = s \o t
  PROVE  /\ Len(b) = n + m /\ \A j \in 1 .. n : b[j] = s[j]
         /\ \A j \in 1 .. m : b[n + j] = t[j]
<1>1. /\ Len(s \o t) = n + m /\ \A j \in 1 .. n : (s \o t)[j] = s[j]
      /\ \A j \in 1 .. m : (s \o t)[n + j] = t[j]
  OBVIOUS
<1> QED
  BY <1>1, Zenon

(* Two parts that make nothing are nothing.                                *)
LEMMA EmptyHalves ==
  ASSUME NEW s \in Seq(U8), NEW t \in Seq(U8), s \o t = <<>>
  PROVE  s = <<>> /\ t = <<>>
<1>1. Len(s \o t) = Len(s) + Len(t) /\ Len(s) \in Nat /\ Len(t) \in Nat
  OBVIOUS
<1>2. Len(s \o t) = 0
  <2>1. Len(<<>>) = 0
    OBVIOUS
  <2> QED
    BY <2>1, Zenon
<1>3. Len(s) = 0 /\ Len(t) = 0
  BY <1>1, <1>2
<1> QED
  BY <1>3, EmptySeq

(* No bytes are no requests.                                               *)
LEMMA StreamEmpty ==
  ASSUME NEW b \in Seq(U8) PROVE Stream(b, <<>>) <=> b = <<>>
<1>1. ASSUME Stream(b, <<>>) PROVE b = <<>>
  <2>1. PICK cut : cut[0] = 0 /\ cut[Len(<<>>)] = Len(b)
    BY <1>1 DEF Stream
  <2> QED
    BY <2>1
<1>2. ASSUME b = <<>> PROVE Stream(b, <<>>)
  <2>1. [i \in 0 .. 0 |-> 0] \in [0 .. Len(<<>>) -> 0 .. Len(b)]
    BY <1>2
  <2>2. [i \in 0 .. 0 |-> 0][0] = 0 /\ [i \in 0 .. 0 |-> 0][Len(<<>>)] = Len(b)
    BY <1>2
  <2>3. 1 .. Len(<<>>) = {}
    OBVIOUS
  <2> QED
    BY <2>1, <2>2, <2>3 DEF Stream
<1> QED
  BY <1>1, <1>2

(* A request is added at the end.                                          *)
LEMMA StreamLast ==
  ASSUME NEW b \in Seq(U8), NEW ps \in Seq(Seq(U8)), Stream(b, ps), NEW f, WholeRequest(f)
  PROVE  b \o f \in Seq(U8) /\ Append(ps, f) \in Seq(Seq(U8)) /\ Stream(b \o f, Append(ps, f))
<1>1. f \in Seq(U8) /\ Len(f) \in Nat
  BY WholeBytes
<1>2. PICK n \in Nat, m \in Nat, l \in Nat : n = Len(ps) /\ m = Len(b) /\ l = Len(f)
  BY <1>1
<1>3. PICK cut \in [0 .. n -> 0 .. m] :
        /\ cut[0] = 0 /\ cut[n] = m
        /\ \A i \in 1 .. n :
             /\ WholeRequest(ps[i]) /\ cut[i] = cut[i - 1] + Len(ps[i])
             /\ \A j \in 1 .. Len(ps[i]) : b[cut[i - 1] + j] = ps[i][j]
  BY <1>2 DEF Stream
<1>4. PICK c \in Seq(U8) : c = b \o f
  <2>1. b \o f \in Seq(U8)
    BY <1>1
  <2> QED
    BY <2>1, Zenon
<1>c. Len(c) = m + l /\ (\A j \in 1 .. m : c[j] = b[j]) /\ \A j \in 1 .. l : c[m + j] = f[j]
  BY <1>1, <1>2, <1>4, Concatenated
<1>5. PICK qs \in Seq(Seq(U8)) : /\ qs = Append(ps, f) /\ Len(qs) = n + 1 /\ qs[n + 1] = f
                                 /\ \A i \in 1 .. n : qs[i] = ps[i]
  <2>1. Append(ps, f) \in Seq(Seq(U8))
    BY <1>1
  <2>2. /\ Len(Append(ps, f)) = n + 1 /\ Append(ps, f)[n + 1] = f
        /\ \A i \in 1 .. n : Append(ps, f)[i] = ps[i]
    BY <1>1, <1>2
  <2> QED
    BY <2>1, <2>2, Zenon
<1>6. PICK cut2 \in [0 .. n + 1 -> 0 .. m + l] :
        cut2[n + 1] = m + l /\ \A i \in 0 .. n : cut2[i] = cut[i]
  <2> DEFINE t == [i \in 0 .. n + 1 |-> IF i = n + 1 THEN m + l ELSE cut[i]]
  <2>1. ASSUME NEW i \in 0 .. n + 1 PROVE (IF i = n + 1 THEN m + l ELSE cut[i]) \in 0 .. m + l
    <3>1. i # n + 1 => i \in 0 .. n /\ cut[i] \in 0 .. m
      BY <1>3
    <3> QED
      BY <3>1
  <2>2. t \in [0 .. n + 1 -> 0 .. m + l]
    BY <2>1
  <2>3. t[n + 1] = m + l /\ \A i \in 0 .. n : t[i] = cut[i]
    OBVIOUS
  <2> HIDE DEF t
  <2> QED
    BY <2>2, <2>3
<1>7. cut2[0] = 0
  BY <1>3, <1>6
<1>8. ASSUME NEW i \in 1 .. n + 1
      PROVE  /\ WholeRequest(qs[i]) /\ cut2[i] = cut2[i - 1] + Len(qs[i])
             /\ \A j \in 1 .. Len(qs[i]) : c[cut2[i - 1] + j] = qs[i][j]
  <2>1. CASE i = n + 1
    <3>1. i - 1 = n /\ cut2[i - 1] = m /\ qs[i] = f /\ cut2[i] = m + l
      BY <1>3, <1>5, <1>6, <2>1
    <3>2. WholeRequest(qs[i]) /\ cut2[i] = cut2[i - 1] + Len(qs[i])
      BY <1>2, <3>1, Zenon
    <3>3. ASSUME NEW j \in 1 .. l PROVE c[cut2[i - 1] + j] = qs[i][j]
      <4>1. c[m + j] = f[j]
        BY <1>c, Zenon
      <4> QED
        BY <3>1, <4>1
    <3> QED
      BY <1>2, <3>1, <3>2, <3>3, Zenon
  <2>2. CASE i \in 1 .. n
    <3>1. i - 1 \in 0 .. n /\ i \in 0 .. n
      BY <2>2
    <3>2. qs[i] = ps[i] /\ cut2[i] = cut[i] /\ cut2[i - 1] = cut[i - 1]
      BY <1>5, <1>6, <2>2, <3>1
    <3>3. /\ WholeRequest(ps[i]) /\ cut[i] = cut[i - 1] + Len(ps[i])
          /\ \A j \in 1 .. Len(ps[i]) : b[cut[i - 1] + j] = ps[i][j]
      BY <1>3, <2>2
    <3>4. PICK k \in Nat, x \in 0 .. m, y \in 0 .. m :
            k = Len(ps[i]) /\ x = cut[i - 1] /\ y = cut[i]
      BY <1>3, <3>1, <3>3, WholeBytes
    <3>5. y = x + k
      BY <3>3, <3>4
    <3>6. ASSUME NEW j \in 1 .. k PROVE c[x + j] = ps[i][j]
      <4>1. x + j \in 1 .. m
        BY <3>5
      <4> QED
        BY <1>c, <3>3, <3>4, <4>1
    <3> QED
      BY <3>2, <3>3, <3>4, <3>6, Zenon
  <2> QED
    BY <2>1, <2>2
<1>9. Stream(c, qs)
  <2>1. cut2 \in [0 .. Len(qs) -> 0 .. Len(c)] /\ cut2[Len(qs)] = Len(c)
    BY <1>c, <1>5, <1>6, Zenon
  <2>2. \A i \in 1 .. Len(qs) :
          /\ WholeRequest(qs[i]) /\ cut2[i] = cut2[i - 1] + Len(qs[i])
          /\ \A j \in 1 .. Len(qs[i]) : c[cut2[i - 1] + j] = qs[i][j]
    BY <1>5, <1>8, Zenon
  <2> QED
    BY <1>7, <2>1, <2>2, Zenon DEF Stream
<1> QED
  BY <1>4, <1>5, <1>9, Zenon

(* The first request is taken from the front.                              *)
LEMMA StreamFirst ==
  ASSUME NEW b \in Seq(U8), NEW ps \in Seq(Seq(U8)), Stream(b, ps), ps # <<>>
  PROVE  /\ WholeRequest(ps[1]) /\ Tail(ps) \in Seq(Seq(U8))
         /\ \E rest \in Seq(U8) : b = ps[1] \o rest /\ Stream(rest, Tail(ps))
<1>1. PICK n \in Nat, m \in Nat : n = Len(ps) /\ m = Len(b) /\ n >= 1
  OBVIOUS
<1>2. PICK cut \in [0 .. n -> 0 .. m] :
        /\ cut[0] = 0 /\ cut[n] = m
        /\ \A i \in 1 .. n :
             /\ WholeRequest(ps[i]) /\ cut[i] = cut[i - 1] + Len(ps[i])
             /\ \A j \in 1 .. Len(ps[i]) : b[cut[i - 1] + j] = ps[i][j]
  BY <1>1 DEF Stream
<1>3. PICK f : f = ps[1]
  OBVIOUS
<1>4. 1 \in 1 .. n /\ WholeRequest(f) /\ f \in Seq(U8) /\ Len(f) \in Nat
  BY <1>1, <1>2, <1>3, WholeBytes
<1>5. PICK l \in Nat : l = Len(f)
  BY <1>4
<1>6. cut[1] = l /\ l <= m /\ \A j \in 1 .. l : b[j] = f[j]
  <2>1. /\ cut[1] = cut[1 - 1] + Len(ps[1])
        /\ \A j \in 1 .. Len(ps[1]) : b[cut[1 - 1] + j] = ps[1][j]
    BY <1>2, <1>4
  <2>2. cut[1 - 1] = 0 /\ cut[1] \in 0 .. m
    <3>1. 1 - 1 = 0 /\ 1 \in 0 .. n
      BY <1>1
    <3>2. cut[1 - 1] = 0
      BY <1>2, <3>1, Zenon
    <3>3. cut[1] \in 0 .. m
      BY <1>2, <3>1, Zenon
    <3> QED
      BY <3>2, <3>3
  <2> QED
    BY <1>3, <1>5, <2>1, <2>2
<1>7. PICK rest \in Seq(U8) : Len(rest) = m - l /\ \A j \in 1 .. m - l : rest[j] = b[l + j]
  <2>1. SubSeq(b, l + 1, m) \in Seq(U8) /\ Len(SubSeq(b, l + 1, m)) = m - l
    BY <1>1, <1>6
  <2>2. \A j \in 1 .. m - l : SubSeq(b, l + 1, m)[j] = b[l + j]
    BY <1>1, <1>6
  <2> QED
    BY <2>1, <2>2, Zenon
<1>8. b = f \o rest
  <2>1. PICK d \in Seq(U8) : d = f \o rest
    <3>1. f \o rest \in Seq(U8)
      BY <1>4
    <3> QED
      BY <3>1, Zenon
  <2>2. Len(d) = m /\ \A j \in 1 .. l : d[j] = f[j]
    BY <1>4, <1>5, <1>6, <1>7, <2>1
  <2>3. \A j \in 1 .. m - l : d[l + j] = rest[j]
    BY <1>4, <1>5, <1>6, <1>7, <2>1
  <2>4. ASSUME NEW j \in 1 .. m PROVE d[j] = b[j]
    <3>1. CASE j \in 1 .. l
      BY <1>6, <2>2, <3>1
    <3>2. CASE j > l
      <4>1. j - l \in 1 .. m - l /\ l + (j - l) = j
        BY <3>2
      <4> QED
        BY <1>7, <2>3, <4>1
    <3> QED
      BY <1>5, <3>1, <3>2
  <2>5. d = b
    <3>1. Len(d) = Len(b) /\ \A j \in 1 .. Len(d) : d[j] = b[j]
      BY <1>1, <2>2, <2>4, Zenon
    <3> QED
      BY <3>1, SeqEqual, Zenon
  <2> QED
    BY <2>1, <2>5
<1>9. PICK qs \in Seq(Seq(U8)) : /\ qs = Tail(ps) /\ Len(qs) = n - 1
                                 /\ \A i \in 1 .. n - 1 : qs[i] = ps[i + 1]
  <2>1. Tail(ps) \in Seq(Seq(U8))
    BY <1>1
  <2>2. Len(Tail(ps)) = n - 1 /\ \A i \in 1 .. n - 1 : Tail(ps)[i] = ps[i + 1]
    BY <1>1
  <2> QED
    BY <2>1, <2>2, Zenon
<1> DEFINE T == {i \in 1 .. n : ~(l <= cut[i])}
<1>10. ASSUME NEW i \in 1 .. n PROVE cut[i] \in l .. m
  <2>1. T \subseteq Nat
    OBVIOUS
  <2>2. ASSUME T # {} PROVE FALSE
    <3>1. PICK k \in T : \A j \in T : k <= j
      <4> HIDE DEF T
      <4> QED
        BY <2>1, <2>2, Least
    <3>2. k \in 1 .. n /\ ~(l <= cut[k])
      BY <3>1
    <3>3. k # 1
      BY <1>6, <3>2
    <3>4. k - 1 \in 1 .. n /\ ~(k <= k - 1)
      BY <3>2, <3>3
    <3>5. k - 1 \notin T
      <4> HIDE DEF T
      <4> QED
        BY <3>1, <3>4
    <3>6. l <= cut[k - 1]
      BY <3>4, <3>5
    <3>7. cut[k] = cut[k - 1] + Len(ps[k]) /\ Len(ps[k]) \in Nat
      BY <1>2, <3>2, WholeBytes
    <3>8. cut[k - 1] \in 0 .. m
      BY <1>2, <3>4
    <3>9. PICK x \in 0 .. m, k2 \in Nat : x = cut[k - 1] /\ k2 = Len(ps[k])
      BY <3>7, <3>8
    <3>10. l <= x /\ cut[k] = x + k2
      BY <3>6, <3>7, <3>9
    <3> QED
      BY <3>2, <3>10
  <2>3. l <= cut[i] /\ cut[i] \in 0 .. m
    <3>1. i \notin T
      BY <2>2, Zenon
    <3> QED
      BY <1>2, <3>1
  <2> QED
    BY <2>3
<1>11. PICK cut2 \in [0 .. n - 1 -> 0 .. m - l] : \A i \in 0 .. n - 1 : cut2[i] = cut[i + 1] - l
  <2> DEFINE t == [i \in 0 .. n - 1 |-> cut[i + 1] - l]
  <2>1. ASSUME NEW i \in 0 .. n - 1 PROVE cut[i + 1] - l \in 0 .. m - l
    <3>1. PICK x \in l .. m : x = cut[i + 1]
      <4>1. i + 1 \in 1 .. n
        OBVIOUS
      <4> QED
        BY <1>10, <4>1
    <3>2. x - l \in 0 .. m - l
      OBVIOUS
    <3> QED
      BY <3>1, <3>2, Zenon
  <2>2. t \in [0 .. n - 1 -> 0 .. m - l]
    BY <2>1
  <2>3. \A i \in 0 .. n - 1 : t[i] = cut[i + 1] - l
    OBVIOUS
  <2> HIDE DEF t
  <2> QED
    BY <2>2, <2>3
<1>12. cut2[0] = 0 /\ cut2[n - 1] = m - l
  <2>1. 0 \in 0 .. n - 1 /\ n - 1 \in 0 .. n - 1 /\ 0 + 1 = 1 /\ (n - 1) + 1 = n
    BY <1>1
  <2>2. cut2[0] = cut[0 + 1] - l /\ cut2[n - 1] = cut[(n - 1) + 1] - l
    BY <1>11, <2>1
  <2> QED
    BY <1>2, <1>6, <2>1, <2>2
<1>13. ASSUME NEW i \in 1 .. n - 1
       PROVE  /\ WholeRequest(qs[i]) /\ cut2[i] = cut2[i - 1] + Len(qs[i])
              /\ \A j \in 1 .. Len(qs[i]) : rest[cut2[i - 1] + j] = qs[i][j]
  <2>1. PICK g : g = ps[i + 1]
    OBVIOUS
  <2>2. i + 1 \in 1 .. n /\ i \in 1 .. n /\ (i + 1) - 1 = i /\ qs[i] = g
    BY <1>9, <2>1
  <2>3. /\ WholeRequest(g) /\ cut[i + 1] = cut[i] + Len(g)
        /\ \A j \in 1 .. Len(g) : b[cut[i] + j] = g[j]
    <3>1. /\ WholeRequest(ps[i + 1]) /\ cut[i + 1] = cut[(i + 1) - 1] + Len(ps[i + 1])
          /\ \A j \in 1 .. Len(ps[i + 1]) : b[cut[(i + 1) - 1] + j] = ps[i + 1][j]
      BY <1>2, <2>2, Zenon
    <3> QED
      BY <2>1, <2>2, <3>1, Zenon
  <2>4. PICK k \in Nat, x \in l .. m, y \in l .. m : k = Len(g) /\ x = cut[i] /\ y = cut[i + 1]
    BY <1>10, <2>2, <2>3, WholeBytes
  <2>5. y = x + k
    BY <2>3, <2>4
  <2>6. cut2[i] = y - l /\ cut2[i - 1] = x - l
    <3>1. i \in 0 .. n - 1 /\ i - 1 \in 0 .. n - 1 /\ (i - 1) + 1 = i
      OBVIOUS
    <3>2. cut2[i] = cut[i + 1] - l /\ cut2[i - 1] = cut[(i - 1) + 1] - l
      BY <1>11, <3>1
    <3> QED
      BY <2>4, <3>1, <3>2
  <2>7. cut2[i] = cut2[i - 1] + k
    BY <2>5, <2>6
  <2>8. ASSUME NEW j \in 1 .. k PROVE rest[cut2[i - 1] + j] = g[j]
    <3>1. (x - l) + j \in 1 .. m - l /\ l + ((x - l) + j) = x + j
      BY <2>5
    <3>2. rest[(x - l) + j] = b[x + j]
      BY <1>7, <3>1
    <3>3. b[x + j] = g[j]
      BY <2>3, <2>4
    <3> QED
      BY <2>6, <3>2, <3>3
  <2> QED
    BY <2>2, <2>3, <2>4, <2>7, <2>8, Zenon
<1>14. Stream(rest, qs)
  <2>1. cut2 \in [0 .. Len(qs) -> 0 .. Len(rest)] /\ cut2[Len(qs)] = Len(rest)
    BY <1>7, <1>9, <1>11, <1>12, Zenon
  <2>2. \A i \in 1 .. Len(qs) :
          /\ WholeRequest(qs[i]) /\ cut2[i] = cut2[i - 1] + Len(qs[i])
          /\ \A j \in 1 .. Len(qs[i]) : rest[cut2[i - 1] + j] = qs[i][j]
    BY <1>9, <1>13, Zenon
  <2> QED
    BY <1>12, <2>1, <2>2, Zenon DEF Stream
<1> QED
  BY <1>3, <1>4, <1>8, <1>9, <1>14, Zenon

-----------------------------------------------------------------------------
(* What extract_request_frame finds in a part of such bytes.               *)

(* The beginning of a whole request is not taken for one.                  *)
LEMMA PrefixWaits ==
  ASSUME NEW f, WholeRequest(f), NEW p \in Seq(U8), Len(p) < Len(f),
         \A j \in 1 .. Len(p) : p[j] = f[j]
  PROVE  get_complete_request_len(p) = 0
<1>1. /\ f \in Seq(U8) /\ Len(f) >= 8 /\ get_complete_request_len(f) = Len(f)
  BY DEF WholeRequest, RTU_MIN_REQ_LENGTH
<1>2. PICK n \in Nat, m \in Nat : n = Len(f) /\ m = Len(p) /\ n >= 8 /\ m < n
  BY <1>1
<1>3. f[7] \in Nat
  <2>1. f[7] \in U8
    BY <1>1
  <2> QED
    BY <2>1, ByteNat
<1>4. (m >= 2 => p[2] = f[2]) /\ (m > 6 => p[7] = f[7])
  BY <1>2
<1>5. CASE m < 2
  BY <1>2, <1>5 DEF get_complete_request_len
<1>6. CASE m >= 2 /\ f[2] \in WriteMultiple
  <2>1. ~(f[7] = 0 \/ 9 + f[7] > RxCap)
    BY <1>1, <1>2, <1>6 DEF get_complete_request_len, FRAME_ERROR
  <2>2. n = 9 + f[7]
    BY <1>1, <1>2, <1>3, <1>6, <2>1 DEF get_complete_request_len
  <2>3. CASE m <= 6
    BY <1>2, <1>4, <1>6, <2>3 DEF get_complete_request_len
  <2>4. CASE m > 6
    <3>1. p[7] = f[7] /\ p[2] \in WriteMultiple /\ m < 9 + p[7]
      BY <1>2, <1>4, <1>6, <2>2, <2>4
    <3>2. ~(p[7] = 0 \/ 9 + p[7] > RxCap)
      BY <2>1, <3>1
    <3> QED
      BY <1>2, <1>6, <2>4, <3>1, <3>2 DEF get_complete_request_len
  <2> QED
    BY <1>2, <2>3, <2>4
<1>7. CASE m >= 2 /\ f[2] \notin WriteMultiple
  <2>1. n = RTU_MIN_REQ_LENGTH
    BY <1>1, <1>2, <1>7 DEF get_complete_request_len, RTU_MIN_REQ_LENGTH, FRAME_ERROR
  <2> QED
    BY <1>2, <1>4, <1>7, <2>1, CapAssumption DEF get_complete_request_len, RTU_MIN_REQ_LENGTH
<1> QED
  BY <1>2, <1>5, <1>6, <1>7

(* Bytes of which nothing can be said yet stay where they are.             *)
LEMMA Waits ==
  ASSUME NEW b \in Seq(U8), get_complete_request_len(b) = 0
  PROVE  extract_request_frame(b) = [frame |-> <<>>, rest |-> b]
<1>1. Drop(b, 0) = b /\ SubSeq(b, 1, 0) = <<>>
  BY DEF Drop
<1>2. LoopEnds[Drop(b, 0)]
  <2>1. LoopEnds[b]
    BY DEF LoopEnds
  <2> QED
    BY <1>1, <2>1, Zenon
<1> DEFINE Ends(k) == LoopEnds[Drop(b, k)] /\ \A j \in 0 .. k - 1 : ~LoopEnds[Drop(b, j)]
<1>3. Ends(0) /\ 0 \in 0 .. Len(b)
  BY <1>2
<1>4. ASSUME NEW k \in 0 .. Len(b), Ends(k) PROVE k = 0
  <2>1. k # 0 => 0 \in 0 .. k - 1
    OBVIOUS
  <2> QED
    BY <1>2, <1>4, <2>1
<1>5. 0 = CHOOSE k \in 0 .. Len(b) : Ends(k)
  <2> HIDE DEF Ends
  <2> QED
    BY <1>3, <1>4
<1>6. extract_request_frame(b) = [frame |-> SubSeq(b, 1, 0), rest |-> Drop(b, 0)]
  BY <1>1, <1>5 DEF extract_request_frame
<1> QED
  BY <1>1, <1>6

(* Of the bytes p \o q, the requests ps, only p has arrived.  Then p is the *)
(* beginning of the first request, and waits; or the first request is      *)
(* found, and what follows it is left as it is.                            *)
Waiting(p, q, ps, r) ==
  /\ r.frame = <<>> /\ r.rest = p /\ get_complete_request_len(p) = 0
  /\ q = <<>> => p = <<>> /\ ps = <<>>

Taken(p, q, ps, r) ==
  /\ ps # <<>> /\ WholeRequest(ps[1]) /\ r.frame = ps[1]
  /\ get_complete_request_len(p) # 0
  /\ r.rest \in Seq(U8) /\ Tail(ps) \in Seq(Seq(U8))
  /\ Stream(r.rest \o q, Tail(ps))

(* ... and there is nothing else that extract_request_frame does.          *)
LEMMA Cuts ==
  ASSUME NEW p \in Seq(U8), NEW q \in Seq(U8), NEW ps \in Seq(Seq(U8)), Stream(p \o q, ps),
         NEW r, r = extract_request_frame(p)
  PROVE  Waiting(p, q, ps, r) \/ Taken(p, q, ps, r)
<1>0. PICK b \in Seq(U8) : b = p \o q
  <2>1. p \o q \in Seq(U8)
    OBVIOUS
  <2> QED
    BY <2>1, Zenon
<1>1. CASE ps = <<>>
  <2>1. b = <<>>
    BY <1>0, <1>1, StreamEmpty
  <2>2. p = <<>>
    <3>1. p \o q = <<>>
      BY <1>0, <2>1, Zenon
    <3> QED
      BY <3>1, ConcatEqualIffEmpty
  <2>3. get_complete_request_len(p) = 0
    BY <2>2 DEF get_complete_request_len
  <2>4. r.frame = <<>> /\ r.rest = p
    BY <2>3, Waits
  <2> QED
    BY <1>1, <2>2, <2>3, <2>4, Zenon DEF Waiting
<1>2. CASE ps # <<>>
  <2>1. PICK f : f = ps[1]
    OBVIOUS
  <2>2. WholeRequest(f) /\ Tail(ps) \in Seq(Seq(U8))
    BY <1>0, <1>2, <2>1, StreamFirst
  <2>3. PICK rest \in Seq(U8) : b = f \o rest /\ Stream(rest, Tail(ps))
    BY <1>0, <1>2, <2>1, StreamFirst
  <2>4. f \in Seq(U8) /\ Len(f) \in Nat /\ Len(f) >= 8
    BY <2>2, WholeBytes
  <2>5. PICK l \in Nat, n \in Nat, m \in Nat, k \in Nat :
          l = Len(f) /\ n = Len(p) /\ m = Len(q) /\ k = Len(rest) /\ l >= 8
    BY <2>4
  <2>6. Len(b) = n + m /\ (\A j \in 1 .. n : b[j] = p[j]) /\ \A j \in 1 .. m : b[n + j] = q[j]
    BY <1>0, <2>5, Concatenated
  <2>7. n + m = l + k
    <3>1. Len(b) = l + k
      BY <2>3, <2>4, <2>5, Concatenated
    <3> QED
      BY <2>6, <3>1
  <2>8. (\A j \in 1 .. l : b[j] = f[j]) /\ \A j \in 1 .. k : b[l + j] = rest[j]
    BY <2>3, <2>4, <2>5, Concatenated
  <2>10. CASE n < l
    <3>1. ASSUME NEW j \in 1 .. n PROVE p[j] = f[j]
      <4>1. j \in 1 .. l
        BY <2>10
      <4> QED
        BY <2>6, <2>8, <4>1, Zenon
    <3>2. get_complete_request_len(p) = 0
      BY <2>2, <2>5, <2>10, <3>1, PrefixWaits
    <3>3. r.frame = <<>> /\ r.rest = p
      BY <3>2, Waits
    <3>4. q # <<>>
      BY <2>5, <2>7, <2>10
    <3> QED
      BY <3>2, <3>3, <3>4, Zenon DEF Waiting
  <2>11. CASE n >= l
    <3>1. PICK p2 \in Seq(U8) : Len(p2) = n - l /\ \A j \in 1 .. n - l : p2[j] = p[l + j]
      <4>1. SubSeq(p, l + 1, n) \in Seq(U8) /\ Len(SubSeq(p, l + 1, n)) = n - l
        BY <2>5, <2>11
      <4>2. ASSUME NEW j \in 1 .. n - l PROVE SubSeq(p, l + 1, n)[j] = p[l + j]
        BY <2>5, <2>11, SMTT(20)
      <4> QED
        BY <4>1, <4>2, Zenon
    <3>2. p = f \o p2
      <4>1. f \o p2 \in Seq(U8)
        BY <2>4
      <4>2. PICK d \in Seq(U8) : d = f \o p2
        BY <4>1, Zenon
      <4>3. Len(d) = n /\ (\A j \in 1 .. l : d[j] = f[j]) /\ \A j \in 1 .. n - l : d[l + j] = p2[j]
        <5>1. n - l \in Nat /\ l + (n - l) = n
          BY <2>11
        <5> QED
          <6>1. PICK h \in Nat : h = n - l /\ Len(p2) = h
            BY <3>1, <5>1
          <6>2. /\ Len(d) = l + h /\ (\A j \in 1 .. l : d[j] = f[j])
                /\ \A j \in 1 .. h : d[l + j] = p2[j]
            <7>1. /\ Len(d) = Len(f) + Len(p2) /\ (\A j \in 1 .. Len(f) : d[j] = f[j])
                  /\ \A j \in 1 .. Len(p2) : d[Len(f) + j] = p2[j]
              BY <2>4, <4>2
            <7> QED
              BY <2>5, <6>1, <7>1, Zenon
          <6> QED
            BY <5>1, <6>1, <6>2, Zenon
      <4>4. ASSUME NEW j \in 1 .. n PROVE d[j] = p[j]
        <5>1. CASE j \in 1 .. l
          BY <2>6, <2>8, <4>3, <5>1
        <5>2. CASE j > l
          <6>1. PICK x \in 1 .. n - l : l + x = j
            <7>1. j - l \in 1 .. n - l /\ l + (j - l) = j
              BY <5>2
            <7> QED
              BY <7>1
          <6>2. d[l + x] = p2[x] /\ p2[x] = p[l + x]
            BY <3>1, <4>3, Zenon
          <6> QED
            BY <6>1, <6>2, Zenon
        <5> QED
          BY <2>5, <5>1, <5>2
      <4>5. Len(d) = Len(p) /\ \A j \in 1 .. Len(d) : d[j] = p[j]
        BY <2>5, <4>3, <4>4, Zenon
      <4>6. d = p
        BY <4>5, SeqEqual, Zenon
      <4> QED
        BY <4>2, <4>6, Zenon
    <3>3. rest = p2 \o q
      <4>1. p2 \o q \in Seq(U8)
        OBVIOUS
      <4>2. PICK d \in Seq(U8) : d = p2 \o q
        BY <4>1, Zenon
      <4>3. n - l \in Nat /\ (n - l) + m = k
        BY <2>7, <2>11
      <4>4. /\ Len(d) = (n - l) + m /\ \A j \in 1 .. n - l : d[j] = p2[j]
            /\ \A j \in 1 .. m : d[(n - l) + j] = q[j]
        <5>1. PICK h \in Nat : h = n - l
          BY <4>3
        <5>2. Len(p2) = h
          BY <3>1, <5>1
        <5>3. /\ Len(d) = h + m /\ \A j \in 1 .. h : d[j] = p2[j]
              /\ \A j \in 1 .. m : d[h + j] = q[j]
          <6>1. /\ Len(d) = Len(p2) + Len(q) /\ (\A j \in 1 .. Len(p2) : d[j] = p2[j])
                /\ \A j \in 1 .. Len(q) : d[Len(p2) + j] = q[j]
            BY <4>2
          <6> QED
            BY <2>5, <5>2, <6>1, Zenon
        <5> QED
          BY <5>1, <5>3, Zenon
      <4>6. ASSUME NEW j \in 1 .. k PROVE d[j] = rest[j]
        <5>1. CASE j \in 1 .. n - l
          <6>1. l + j \in 1 .. n
            BY <5>1
          <6> QED
            BY <2>6, <2>8, <3>1, <4>4, <5>1, <6>1
        <5>2. CASE j > n - l
          <6>1. PICK i \in 1 .. m : i = j - (n - l) /\ (n - l) + i = j /\ n + i = l + j
            <7>1. j - (n - l) \in 1 .. m
              BY <2>7, <2>11, <5>2
            <7>2. (n - l) + (j - (n - l)) = j /\ n + (j - (n - l)) = l + j
              OBVIOUS
            <7> QED
              BY <7>1, <7>2
          <6>2. b[n + i] = q[i] /\ b[l + j] = rest[j] /\ d[(n - l) + i] = q[i]
            BY <2>6, <2>8, <4>4
          <6> QED
            BY <6>1, <6>2
        <5> QED
          BY <2>11, <5>1, <5>2
      <4>7. Len(d) = Len(rest) /\ \A j \in 1 .. Len(d) : d[j] = rest[j]
        BY <2>5, <4>3, <4>4, <4>6, Zenon
      <4>8. d = rest
        BY <4>7, SeqEqual, Zenon
      <4> QED
        BY <4>2, <4>8, Zenon
    <3>4. extract_request_frame(f \o p2) = [frame |-> f, rest |-> p2]
      BY <2>2, WholeFound
    <3>5. r.frame = f /\ r.rest = p2
      BY <3>2, <3>4
    <3>6. get_complete_request_len(p) = l
      <4>1. p[2] = f[2] /\ p[7] = f[7]
        <5>1. 2 \in 1 .. n /\ 7 \in 1 .. n /\ 2 \in 1 .. l /\ 7 \in 1 .. l
          BY <2>5, <2>11
        <5>2. b[2] = p[2] /\ b[7] = p[7]
          BY <2>6, <5>1, Zenon
        <5>3. b[2] = f[2] /\ b[7] = f[7]
          BY <2>8, <5>1, Zenon
        <5> QED
          BY <5>2, <5>3, Zenon
      <4> QED
        BY <2>2, <2>5, <2>11, <4>1, WholeLen
    <3>7. l # 0
      BY <2>4, <2>5
    <3> QED
      BY <1>2, <2>1, <2>2, <2>3, <3>3, <3>5, <3>6, <3>7, Zenon DEF Taken
  <2>12. n < l \/ n >= l
    OBVIOUS
  <2> QED
    BY <2>10, <2>11, <2>12, Zenon
<1> QED
  BY <1>1, <1>2

-----------------------------------------------------------------------------
(* What was executed and what is on its way make up what was sent.         *)

(* The bytes b are whole requests, at most one if one is TRUE; those of    *)
(* them that are in P, after the requests d, are the requests of a that    *)
(* are in P.                                                               *)
Flows(P, b, d, a, one) ==
  \E ps \in Seq(Seq(U8)), c \in Seq(Seq(U8)) :
    /\ Stream(b, ps) /\ (one => Len(ps) <= 1)
    /\ Picks(P, d \o c, a) /\ Picks(P, c, ps)

IsStream(b) == \E ps \in Seq(Seq(U8)) : Stream(b, ps)

(* No bytes hold no request.                                               *)
LEMMA StreamNone ==
  ASSUME NEW ps \in Seq(Seq(U8)), Stream(<<>>, ps) PROVE ps = <<>>
<1> SUFFICES ASSUME ps # <<>> PROVE FALSE
  OBVIOUS
<1>1. <<>> \in Seq(U8)
  OBVIOUS
<1>2. WholeRequest(ps[1]) /\ \E rest \in Seq(U8) : <<>> = ps[1] \o rest
  BY <1>1, StreamFirst
<1>3. PICK f \in Seq(U8), rest \in Seq(U8) : <<>> = f \o rest /\ Len(f) >= 8
  BY <1>2, WholeBytes
<1>4. Len(f \o rest) = Len(f) + Len(rest) /\ Len(f) \in Nat /\ Len(rest) \in Nat
  OBVIOUS
<1>5. Len(f \o rest) = 0
  <2>1. Len(<<>>) = 0
    OBVIOUS
  <2> QED
    BY <1>3, <2>1, Zenon
<1> QED
  BY <1>3, <1>4, <1>5

(* A member moves from one part of a sequence to the other.                *)
AddsLast(d, c, f) == Append(d \o c, f) = d \o Append(c, f)
MovesFirst(d, c, f) == d \o c = Append(d, f) \o Tail(c)

(* ... without a change to the whole.                                      *)
LEMMA Regrouped ==
  ASSUME NEW S, NEW d \in Seq(S), NEW c \in Seq(S), NEW f \in S
  PROVE  /\ AddsLast(d, c, f)
         /\ c # <<>> /\ c[1] = f => MovesFirst(d, c, f)
<1>0. <<f>> \in Seq(S)
  OBVIOUS
<1>1. Append(d \o c, f) = d \o Append(c, f)
  <2>1. d \o c \in Seq(S)
    OBVIOUS
  <2>2. Append(d \o c, f) = (d \o c) \o <<f>> /\ Append(c, f) = c \o <<f>>
    BY <2>1, AppendIsConcat
  <2>3. (d \o c) \o <<f>> = d \o (c \o <<f>>)
    BY <1>0, ConcatAssociative
  <2> QED
    BY <2>2, <2>3, Zenon
<1>2. ASSUME c # <<>>, c[1] = f PROVE d \o c = Append(d, f) \o Tail(c)
  <2>1. PICK n \in Nat : n = Len(c) /\ 1 \in 1 .. Len(c) /\ Len(c) \in 1 .. Len(c) /\ 1 + 1 = 2
    BY <1>2
  <2>2. SubSeq(c, 1, Len(c)) = <<c[1]>> \o SubSeq(c, 1 + 1, Len(c))
    BY <2>1, SubSeqRecursiveFirst
  <2>3. c = <<f>> \o Tail(c) /\ Tail(c) \in Seq(S)
    <3>1. SubSeq(c, 1, Len(c)) = c
      BY SubSeqFull
    <3>2. Tail(c) = SubSeq(c, 2, Len(c))
      BY <1>2, TailIsSubSeq
    <3>3. Tail(c) \in Seq(S)
      BY <1>2
    <3> QED
      BY <1>2, <2>1, <2>2, <3>1, <3>2, <3>3, Zenon
  <2>4. Append(d, f) = d \o <<f>>
    BY AppendIsConcat
  <2>5. (d \o <<f>>) \o Tail(c) = d \o (<<f>> \o Tail(c))
    BY <1>0, <2>3, ConcatAssociative
  <2> QED
    BY <2>3, <2>4, <2>5, Zenon
<1> QED
  BY <1>1, <1>2, Zenon DEF AddsLast, MovesFirst

(* At the beginning nothing was sent.                                      *)
LEMMA FlowsNothing == ASSUME NEW P, NEW one PROVE Flows(P, <<>>, <<>>, <<>>, one)
<1>1. <<>> \in Seq(U8) /\ <<>> \in Seq(Seq(U8)) /\ Len(<<>>) <= 1 /\ <<>> \o <<>> = <<>>
  OBVIOUS
<1>2. Stream(<<>>, <<>>) /\ Picks(P, <<>>, <<>>)
  BY <1>1, StreamEmpty, PicksNothing
<1> QED
  BY <1>1, <1>2, Zenon DEF Flows

(* A whole request arrives: it is on its way, and was sent or is nothing   *)
(* to this server.                                                         *)
LEMMA FlowsArrival ==
  ASSUME NEW P, NEW b \in Seq(U8), NEW d \in Seq(Seq(U8)), NEW a \in Seq(Seq(U8)), NEW one,
         Flows(P, b, d, a, one), one => b = <<>>, NEW f, WholeRequest(f)
  PROVE  /\ Flows(P, b \o f, d, Append(a, f), one)
         /\ f \notin P => Flows(P, b \o f, d, a, one)
<1>1. PICK ps \in Seq(Seq(U8)), c \in Seq(Seq(U8)) :
        /\ Stream(b, ps) /\ (one => Len(ps) <= 1)
        /\ Picks(P, d \o c, a) /\ Picks(P, c, ps)
  BY Zenon DEF Flows
<1>2. f \in Seq(U8)
  BY WholeBytes
<1>3. PICK qs \in Seq(Seq(U8)) : qs = Append(ps, f) /\ Stream(b \o f, qs)
  BY <1>1, StreamLast
<1>4. one => Len(qs) <= 1
  <2>1. one => ps = <<>>
    BY <1>1, StreamNone
  <2> QED
    BY <1>2, <1>3, <2>1
<1>5. PICK e \in Seq(Seq(U8)) : e = d \o c
  <2>1. d \o c \in Seq(Seq(U8))
    OBVIOUS
  <2> QED
    BY <2>1, Zenon
<1>6. CASE f \in P
  <2>1. PICK g \in Seq(Seq(U8)) : g = Append(c, f)
    <3>1. Append(c, f) \in Seq(Seq(U8))
      BY <1>2
    <3> QED
      BY <3>1, Zenon
  <2>2. Append(d \o c, f) = d \o Append(c, f)
    <3>1. PICK S : S = Seq(U8)
      OBVIOUS
    <3>2. d \in Seq(S) /\ c \in Seq(S) /\ f \in S
      BY <1>2, <3>1, Zenon
    <3>3. AddsLast(d, c, f)
      BY <3>2, Regrouped
    <3> QED
      BY <3>3, Zenon DEF AddsLast
  <2>3. Picks(P, Append(e, f), Append(a, f))
    BY <1>1, <1>2, <1>5, <1>6, PicksLast
  <2>4. Picks(P, g, qs)
    BY <1>1, <1>2, <1>3, <1>6, <2>1, PicksLast
  <2>5. Picks(P, d \o g, Append(a, f))
    BY <1>5, <2>1, <2>2, <2>3, Zenon
  <2> QED
    BY <1>3, <1>4, <1>6, <2>4, <2>5, Zenon DEF Flows
<1>7. CASE f \notin P
  <2>1. Picks(P, e, Append(a, f))
    BY <1>1, <1>2, <1>5, <1>7, PicksLast
  <2>2. Picks(P, c, qs)
    BY <1>1, <1>2, <1>3, <1>7, PicksLast
  <2> QED
    BY <1>1, <1>3, <1>4, <1>5, <2>1, <2>2, Zenon DEF Flows
<1> QED
  BY <1>6, <1>7

(* extract_request_frame finds the next request, or waits.                 *)
LEMMA FlowsFound ==
  ASSUME NEW P, NEW p \in Seq(U8), NEW q \in Seq(U8),
         NEW d \in Seq(Seq(U8)), NEW a \in Seq(Seq(U8)), NEW one,
         Flows(P, p \o q, d, a, one), NEW r, r = extract_request_frame(p)
  PROVE  \/ r.frame = <<>> /\ r.rest = p
         \/ /\ r.frame # <<>> /\ r.rest \in Seq(U8)
            /\ r.frame \in P =>
                 /\ Flows(P, r.rest \o q, Append(d, r.frame), a, one)
                 /\ one => r.rest \o q = <<>>
            /\ r.frame \notin P => Flows(P, r.rest \o q, d, a, one)
<1>1. PICK ps \in Seq(Seq(U8)), c \in Seq(Seq(U8)) :
        /\ Stream(p \o q, ps) /\ (one => Len(ps) <= 1)
        /\ Picks(P, d \o c, a) /\ Picks(P, c, ps)
  BY Zenon DEF Flows
<1>2. CASE Waiting(p, q, ps, r)
  BY <1>2, Zenon DEF Waiting
<1>3. CASE Taken(p, q, ps, r)
  <2>0. /\ ps # <<>> /\ WholeRequest(ps[1]) /\ r.frame = ps[1]
        /\ r.rest \in Seq(U8) /\ Tail(ps) \in Seq(Seq(U8))
        /\ Stream(r.rest \o q, Tail(ps))
    BY <1>3, Zenon DEF Taken
  <2>1. PICK f \in Seq(U8) : f = ps[1] /\ r.frame = f /\ f # <<>>
    BY <2>0, WholeBytes
  <2>2. PICK qs \in Seq(Seq(U8)) : qs = Tail(ps) /\ Stream(r.rest \o q, qs)
    BY <2>0, Zenon
  <2>3. Len(qs) = Len(ps) - 1 /\ Len(ps) \in Nat
    BY <2>0, <2>2
  <2>4. one => Len(qs) <= 1
    BY <1>1, <2>3
  <2>5. ASSUME f \in P
        PROVE  /\ Flows(P, r.rest \o q, Append(d, f), a, one)
               /\ one => r.rest \o q = <<>>
    <3>1. c # <<>> /\ c[1] = f /\ Picks(P, Tail(c), qs)
      BY <1>1, <2>0, <2>1, <2>2, <2>5, PicksFirst
    <3>2. PICK g \in Seq(Seq(U8)) : g = Tail(c)
      <4>1. Tail(c) \in Seq(Seq(U8))
        BY <3>1
      <4> QED
        BY <4>1, Zenon
    <3>3. d \o c = Append(d, f) \o g
      <4>1. PICK S : S = Seq(U8)
        OBVIOUS
      <4>2. d \in Seq(S) /\ c \in Seq(S) /\ f \in S
        BY <4>1, Zenon
      <4>3. MovesFirst(d, c, f)
        BY <3>1, <4>2, Regrouped
      <4> QED
        BY <3>2, <4>3, Zenon DEF MovesFirst
    <3>4. Picks(P, Append(d, f) \o g, a)
      BY <1>1, <3>3, Zenon
    <3>5. Flows(P, r.rest \o q, Append(d, f), a, one)
      BY <2>2, <2>4, <3>1, <3>2, <3>4, Zenon DEF Flows
    <3>6. ASSUME one PROVE r.rest \o q = <<>>
      <4>1. qs = <<>>
        BY <1>1, <2>3, <3>6
      <4>2. r.rest \o q \in Seq(U8)
        BY <2>0
      <4> QED
        BY <2>2, <4>1, <4>2, StreamEmpty, Zenon
    <3> QED
      BY <3>5, <3>6
  <2>6. ASSUME f \notin P PROVE Flows(P, r.rest \o q, d, a, one)
    <3>1. Picks(P, c, qs)
      <4>1. PICK S : S = Seq(U8)
        OBVIOUS
      <4>2. c \in Seq(S) /\ ps \in Seq(S)
        BY <4>1, Zenon
      <4>3. ps[1] \notin P => Picks(P, c, Tail(ps))
        BY <1>1, <2>0, <4>2, PicksFirst
      <4> QED
        BY <2>1, <2>2, <2>6, <4>3, Zenon
    <3> QED
      BY <1>1, <2>2, <2>4, <3>1, Zenon DEF Flows
  <2> QED
    BY <2>0, <2>1, <2>5, <2>6, Zenon
<1>4. Waiting(p, q, ps, r) \/ Taken(p, q, ps, r)
  BY <1>1, Cuts
<1> QED
  BY <1>2, <1>3, <1>4, Zenon

(* What was executed are requests that were sent.                          *)
LEMMA FlowsEmbeds ==
  ASSUME NEW P, NEW b, NEW d \in Seq(Seq(U8)), NEW a \in Seq(Seq(U8)), NEW one,
         Flows(P, b, d, a, one)
  PROVE  Embeds(P, d, a)
<1>1. PICK c \in Seq(Seq(U8)) : Picks(P, d \o c, a)
  BY Zenon DEF Flows
<1> QED
  BY <1>1, PicksEmbeds

(* When nothing is on its way any more they are all that was sent.         *)
LEMMA FlowsAll ==
  ASSUME NEW P, NEW d \in Seq(Seq(U8)), NEW a \in Seq(Seq(U8)), NEW one,
         Flows(P, <<>>, d, a, one)
  PROVE  Picks(P, d, a)
<1>1. PICK ps \in Seq(Seq(U8)), c \in Seq(Seq(U8)) :
        Stream(<<>>, ps) /\ Picks(P, d \o c, a) /\ Picks(P, c, ps)
  BY Zenon DEF Flows
<1>2. ps = <<>>
  BY <1>1, StreamNone
<1>3. c = <<>>
  BY <1>1, <1>2, PicksNothing
<1>4. d \o <<>> = d
  BY ConcatEmptySeq
<1> QED
  BY <1>1, <1>3, <1>4, Zenon

(* Whole requests of which nothing is left to find are none.               *)
LEMMA StreamFound ==
  ASSUME NEW b \in Seq(U8), IsStream(b), NEW r, r = extract_request_frame(b)
  PROVE  /\ get_complete_request_len(b) = 0 => b = <<>>
         /\ IsStream(r.rest)
<1>1. PICK ps \in Seq(Seq(U8)) : Stream(b, ps)
  BY DEF IsStream
<1>2. <<>> \in Seq(U8) /\ b \o <<>> = b /\ \A x \in Seq(U8) : x \o <<>> = x
  BY ConcatEmptySeq
<1>3. Stream(b \o <<>>, ps)
  BY <1>1, <1>2, Zenon
<1>4. Waiting(b, <<>>, ps, r) \/ Taken(b, <<>>, ps, r)
  BY <1>2, <1>3, Cuts
<1>5. CASE Waiting(b, <<>>, ps, r)
  BY <1>1, <1>5, Zenon DEF Waiting, IsStream
<1>6. CASE Taken(b, <<>>, ps, r)
  BY <1>2, <1>6, Zenon DEF Taken, IsStream
<1> QED
  BY <1>4, <1>5, <1>6, Zenon

-----------------------------------------------------------------------------
(* The traffic, and the inductive invariant.                               *)

(* Every request is whole, and so is what another slave may answer to one  *)
(* that is not for this server.                                            *)
WholeTraffic ==
  \A f \in Requests :
    /\ WholeRequest(f)
    /\ \/ f[1] = BROADCAST_ADDRESS
       \/ \A c \in Configs : c.unit_id \in {UNIT_ID_ANY, f[1]}
       \/ WholeRequest(OtherReply(f))

(* The callbacks and the writes take no longer than a tick, nobody sends   *)
(* into the server's own transmission, and the silence before a response   *)
(* is no longer than the assembly timeout.                                 *)
PromptLine ==
  ~Slow /\ ~Impatient /\ Timeout >= 1 /\ SilenceTicks \in 0 .. Timeout

Ours    == {f \in Seq(U8) : ForUs(f)}
Running == thread \notin {"none", "exit"}
Busy    == thread \in {"handle", "silence", "send", "echo"}

(* The request being handled is as good as executed; the echo of the       *)
(* server's own response is not among what comes.                          *)
Done   == IF thread = "handle" THEN Append(executed, adu) ELSE executed
Coming == rx_buffer \o (IF thread = "echo" THEN <<>> ELSE input)

FlowInv ==
  Running /\ ~disturbed =>
    /\ Flows(Ours, Coming, Done, sent, cfg.local_echo)
    /\ cfg.local_echo /\ Busy => Coming = <<>>
    /\ thread = "echo" => cfg.local_echo /\ input = resp

AuthInv  == ~disturbed => Embeds(Ours, executed, sent)

StartInv == sent = <<>> => input = <<>> /\ asked = <<>> /\ rx_buffer = <<>> /\ ~Busy

AskedInv ==
  ~disturbed /\ thread # "none" /\ asked # <<>> => ~unit_id_matches(asked[1])

(* The bytes in the buffer are younger than the assembly timeout.          *)
TimeInv ==
  Running /\ ~disturbed =>
    /\ rx_buffer # <<>> => last_rx \in 0 .. Timeout
    /\ thread \in {"handle", "silence"} =>
         request_end \in Nat /\ (rx_buffer # <<>> => last_rx <= request_end)
    /\ last_rx > 0 => ticked \/ IsStream(rx_buffer)

TrafficInv == FlowInv /\ AuthInv /\ StartInv /\ AskedInv /\ TimeInv

(* What is for this server changes with the configuration only.            *)
LEMMA OursKept == ASSUME UNCHANGED cfg PROVE Ours' = Ours
  BY DEF Ours, ForUs, unit_id_matches

(* Nothing is found in an empty buffer.                                    *)
LEMMA NothingFound == extract_request_frame(<<>>) = [frame |-> <<>>, rest |-> <<>>]
<1>1. <<>> \in Seq(U8)
  OBVIOUS
<1>2. get_complete_request_len(<<>>) = 0
  BY DEF get_complete_request_len
<1> QED
  BY <1>1, <1>2, Waits

(* The steps on which nothing depends.                                     *)
LEMMA TrafficKept ==
  ASSUME TrafficInv, UNCHANGED <<thread, rx_buffer, last_rx, adu, request_end, resp, cfg,
                                 input, ticked, asked, sent, executed, disturbed>>
  PROVE  TrafficInv'
<1>1. Ours' = Ours /\ Coming' = Coming /\ Done' = Done /\ Running' = Running /\ Busy' = Busy
  BY OursKept DEF Coming, Done, Running, Busy
<1>2. FlowInv'
  BY <1>1, Zenon DEF TrafficInv, FlowInv
<1>3. AuthInv' /\ StartInv' /\ TimeInv'
  BY <1>1, Zenon DEF TrafficInv, AuthInv, StartInv, TimeInv
<1>4. AskedInv'
  BY Zenon DEF TrafficInv, AskedInv, unit_id_matches
<1> QED
  BY <1>2, <1>3, <1>4 DEF TrafficInv

(* Before the first request nothing happens on the line.                   *)
LEMMA StartStep ==
  ASSUME IInv, StartInv, [Next]_vars PROVE StartInv'
<1>0. LifeType /\ BufferType /\ ThreadType /\ LineType /\ HistoryType /\ LifeInv
  BY TypeParts DEF IInv
<1> SUFFICES ASSUME sent' = <<>>
             PROVE  input' = <<>> /\ asked' = <<>> /\ rx_buffer' = <<>> /\ ~Busy'
  BY Zenon DEF StartInv
<1>s. ASSUME NEW f \in Requests, MasterSends(f) PROVE FALSE
  <2>1. sent' = IF Forgotten THEN <<f>> ELSE Append(sent, f)
    BY <1>s DEF MasterSends
  <2>2. sent' = <<f>> \/ sent' = Append(sent, f)
    BY <2>1, Zenon
  <2>3. sent \in Seq(Requests)
    BY <1>0 DEF HistoryType
  <2>4. <<f>> # <<>> /\ Append(sent, f) # <<>>
    BY <2>3, AppendProperties
  <2> QED
    BY <2>2, <2>4, Zenon
<1>1. sent = <<>>
  BY <1>s DEF Next, Thread, Poll, PollFails, Handle, wait_response_silence, SendFrame, SendFails,
    EchoReads, EchoTimesOut, ThreadExits, Start, StartLinks, StartFails, StopFlag, StopJoin,
    SlaveReplies, Tick, Halted, vars, history
<1>2. input = <<>> /\ asked = <<>> /\ rx_buffer = <<>> /\ ~Busy
  BY <1>1 DEF StartInv
<1>d. \A n \in Nat : Drop(<<>>, n) = <<>>
  BY DEF Drop
<1>3. ASSUME NEW n \in 0 .. Len(input), Poll(n)
      PROVE  input' = <<>> /\ asked' = <<>> /\ rx_buffer' = <<>> /\ ~Busy'
  <2>1. n = 0 /\ Kept = <<>>
    BY <1>2, <1>3 DEF Kept
  <2>2. Kept \o SubSeq(input, 1, n) = <<>>
    <3>1. SubSeq(<<>>, 1, 0) = <<>> /\ <<>> \o <<>> = <<>>
      OBVIOUS
    <3> QED
      BY <1>2, <2>1, <3>1, Zenon
  <2>3. PICK found : /\ found = extract_request_frame(<<>>)
                     /\ input' = Drop(input, n) /\ rx_buffer' = found.rest
                     /\ thread' = IF found.frame # <<>> /\ ForUs(found.frame)
                                    THEN "handle" ELSE "top"
                     /\ asked' = asked
    BY <1>3, <2>2, Zenon DEF Poll
  <2>4. found.frame = <<>> /\ found.rest = <<>>
    BY <2>3, NothingFound
  <2>5. input' = <<>>
    BY <1>2, <1>d, <2>1, <2>3
  <2> QED
    BY <1>2, <2>3, <2>4, <2>5 DEF Busy
<1>4. ASSUME \/ Handle \/ wait_response_silence \/ SendFrame \/ SendFails
             \/ EchoReads \/ EchoTimesOut \/ SlaveReplies
      PROVE  FALSE
  BY <1>2, <1>4 DEF Handle, wait_response_silence, SendFrame, SendFails, EchoReads, EchoTimesOut,
    SlaveReplies, Busy
<1>5. CASE PollFails
  BY <1>2, <1>5 DEF PollFails, Kept, Busy, line
<1>6. CASE ThreadExits
  BY <1>2, <1>6 DEF ThreadExits, Busy, line
<1>7. CASE Start
  <2>1. PICK n \in ReadSizes \cup {0, Len(input)} : input' = Drop(input, n)
    BY <1>7 DEF Start
  <2>2. n \in Nat
    BY <1>2, <2>1, CapAssumption
  <2>3. input' = <<>>
    BY <1>2, <1>d, <2>1, <2>2
  <2> QED
    BY <1>2, <1>7, <2>3 DEF Start, Busy
<1>8. CASE StartLinks \/ StartFails \/ StopFlag \/ StopJoin
  BY <1>2, <1>8 DEF StartLinks, StartFails, StopFlag, StopJoin, Busy, line, server
<1>9. CASE Tick \/ Halted \/ UNCHANGED vars
  BY <1>2, <1>9 DEF Tick, Halted, vars, Busy, line, server
<1> QED
  BY <1>s, <1>3, <1>4, <1>5, <1>6, <1>7, <1>8, <1>9 DEF Next, Thread

(* Whatever a step leaves on the line, no damage means none before, unless *)
(* the server starts anew.                                                 *)
Calm == ~disturbed /\ ~disturbed' /\ UNCHANGED cfg

(* A step between requests: the bytes that come, and what was executed and *)
(* sent, stay the same.                                                    *)
LEMMA FlowKept ==
  ASSUME FlowInv, Calm, Running, UNCHANGED sent, Coming' = Coming, Done' = Done,
         Busy' => Busy, thread' = "echo" => cfg.local_echo /\ input' = resp'
  PROVE  FlowInv'
<1>1. Ours' = Ours
  BY OursKept DEF Calm
<1> QED
  BY <1>1, Zenon DEF FlowInv, Calm

(* What is known of the requests another slave may answer.                 *)
LEMMA AskedKept ==
  ASSUME AskedInv, Calm, thread # "none", UNCHANGED asked PROVE AskedInv'
  BY Zenon DEF AskedInv, Calm, unit_id_matches

(* What was executed stays what was sent.                                  *)
LEMMA AuthKept ==
  ASSUME AuthInv, Calm, UNCHANGED <<executed, sent>> PROVE AuthInv'
<1>1. Ours' = Ours
  BY OursKept DEF Calm
<1> QED
  BY <1>1, Zenon DEF AuthInv, Calm

(* After damage nothing is claimed until the buffers are empty.            *)
LEMMA Damages == ASSUME disturbed' PROVE FlowInv' /\ AuthInv' /\ AskedInv' /\ TimeInv'
  BY Zenon DEF FlowInv, AuthInv, AskedInv, TimeInv

(* on_process: the next request is found, waits for the rest of its bytes, *)
(* or is skipped because it is another slave's.  The assembly timeout      *)
(* drops nothing.                                                          *)
LEMMA PollStep ==
  ASSUME IInv, TrafficInv, NEW n \in 0 .. Len(input), Poll(n), ~disturbed
  PROVE  FlowInv' /\ AuthInv' /\ AskedInv' /\ TimeInv'
<1>0. /\ BufferType /\ LineType /\ HistoryType
      /\ FlowInv /\ AuthInv /\ AskedInv /\ TimeInv
  BY TypeParts DEF IInv, TrafficInv
<1>1. /\ rx_buffer \in Seq(U8) /\ input \in Seq(U8) /\ executed \in Seq(Seq(U8))
      /\ sent \in Seq(Seq(U8)) /\ n \in Nat
  <2>1. sent \in Seq(Requests) /\ \A f \in Requests : f \in Seq(U8)
    BY <1>0, RequestAssumption DEF HistoryType
  <2>2. sent \in Seq(Seq(U8))
    BY <2>1
  <2> QED
    BY <1>0, <2>2 DEF BufferType, LineType, HistoryType
<1>2. thread = "top" /\ Running
  BY DEF Poll, Running
<1>3. ~TimedOut /\ Kept = rx_buffer
  <2>1. rx_buffer # <<>> => last_rx \in 0 .. Timeout
    BY <1>0, <1>2 DEF TimeInv
  <2>2. ~TimedOut
    BY <2>1, TimingAssumption DEF TimedOut
  <2> QED
    BY <2>2 DEF Kept
<1>4. PICK p \in Seq(U8), q \in Seq(U8) :
        /\ p = rx_buffer \o SubSeq(input, 1, n) /\ q = Drop(input, n) /\ p \o q = rx_buffer \o input
        /\ n = 0 => p = rx_buffer
  <2>1. PICK i1 \in Seq(U8), i2 \in Seq(U8) :
          i1 = SubSeq(input, 1, n) /\ i2 = Drop(input, n) /\ i1 \o i2 = input /\ (n = 0 => i1 = <<>>)
    <3>1. SubSeq(input, 1, n) \in Seq(U8) /\ Drop(input, n) \in Seq(U8)
      <4>1. SubSeq(input, 1, n) \in Seq(U8)
        BY <1>1
      <4>2. Drop(input, n) \in Seq(U8)
        BY <1>1, DropBytes
      <4> QED
        BY <4>1, <4>2
    <3>2. SubSeq(input, 1, n) \o SubSeq(input, n + 1, Len(input)) = SubSeq(input, 1, Len(input))
      <4>1. 1 \in 1 .. Len(input) + 1 /\ n \in 1 - 1 .. Len(input) /\ Len(input) \in n .. Len(input)
        BY <1>1
      <4> QED
        BY <1>1, <4>1, ConcatAdjacentSubSeq
    <3>3. SubSeq(input, 1, Len(input)) = input
      BY <1>1, SubSeqFull
    <3>4. SubSeq(input, 1, 0) = <<>>
      OBVIOUS
    <3> QED
      BY <3>1, <3>2, <3>3, <3>4, Zenon DEF Drop
  <2>2. rx_buffer \o i1 \in Seq(U8)
    BY <1>1
  <2>3. (rx_buffer \o i1) \o i2 = rx_buffer \o (i1 \o i2)
    BY <1>1, ConcatAssociative, SMTT(20)
  <2>4. rx_buffer \o <<>> = rx_buffer
    BY <1>1, ConcatEmptySeq
  <2> QED
    BY <2>1, <2>2, <2>3, <2>4, Zenon
<1>5. PICK found : found = extract_request_frame(p)
  OBVIOUS
<1>6. PICK age : age = CASE n > 0                -> 0
                         [] n = 0 /\ Kept = <<>> -> Never
                         [] OTHER                -> last_rx
  OBVIOUS
<1>7. PICK ours \in BOOLEAN : ours = (found.frame # <<>> /\ ForUs(found.frame))
  OBVIOUS
<1>8. /\ input' = q /\ rx_buffer' = found.rest
      /\ last_rx' = IF found.rest = <<>> THEN Never ELSE age
      /\ adu' = IF ours THEN found.frame ELSE <<>>
      /\ request_end' = IF ours THEN age ELSE Never
      /\ thread' = IF ours THEN "handle" ELSE "top"
      /\ UNCHANGED <<lifecycle, resp, ticked, asked, frames, noise, history>>
  BY <1>3, <1>4, <1>5, <1>6, <1>7, Zenon DEF Poll
<1>9. UNCHANGED <<cfg, executed, sent, disturbed, ticked, asked>> /\ Calm
  BY <1>8 DEF lifecycle, history, Calm
<1>10. found.frame \in Seq(U8) /\ found.rest \in Seq(U8)
  BY <1>5, Extracts
<1>11. AuthInv' /\ AskedInv'
  BY <1>0, <1>2, <1>9, AuthKept, AskedKept
<1>12. Coming = p \o q /\ Done = executed
  BY <1>2, <1>4 DEF Coming, Done
<1>13. Flows(Ours, p \o q, executed, sent, cfg.local_echo)
  BY <1>0, <1>2, <1>12, Zenon DEF FlowInv
<1>14. Ours' = Ours /\ (found.frame \in Ours <=> ForUs(found.frame))
  BY <1>9, <1>10, OursKept DEF Ours
<1>15. Coming' = found.rest \o q /\ Done' = IF ours THEN Append(executed, found.frame) ELSE executed
  <2>1. thread' # "echo" /\ (thread' = "handle" <=> ours)
    BY <1>8
  <2> QED
    BY <1>8, <1>9, <2>1, Zenon DEF Coming, Done
<1>16. \/ found.frame = <<>> /\ found.rest = p
       \/ /\ found.frame # <<>> /\ found.rest \in Seq(U8)
          /\ found.frame \in Ours =>
               /\ Flows(Ours, found.rest \o q, Append(executed, found.frame), sent, cfg.local_echo)
               /\ cfg.local_echo => found.rest \o q = <<>>
          /\ found.frame \notin Ours => Flows(Ours, found.rest \o q, executed, sent, cfg.local_echo)
  BY <1>1, <1>5, <1>13, FlowsFound
<1>17. FlowInv'
  <2>1. thread' # "echo" /\ (Busy' <=> ours)
    BY <1>8 DEF Busy
  <2>2. CASE found.frame = <<>> /\ found.rest = p
    <3>1. ~ours
      BY <1>7, <2>2
    <3> QED
      BY <1>9, <1>13, <1>14, <1>15, <2>1, <2>2, <3>1, Zenon DEF FlowInv
  <2>3. CASE found.frame # <<>>
    <3>1. ours <=> found.frame \in Ours
      BY <1>7, <1>14, <2>3
    <3> QED
      BY <1>9, <1>14, <1>15, <1>16, <2>1, <2>3, <3>1, Zenon DEF FlowInv
  <2> QED
    BY <1>16, <2>2, <2>3
<1>18. TimeInv'
  <2>1. n = 0 /\ rx_buffer # <<>> => last_rx \in 0 .. Timeout
    BY <1>0, <1>2 DEF TimeInv
  <2>2. n = 0 /\ rx_buffer = <<>> => found.frame = <<>> /\ found.rest = <<>>
    <3>1. n = 0 /\ rx_buffer = <<>> => found = extract_request_frame(<<>>)
      BY <1>4, <1>5, Zenon
    <3> QED
      BY <3>1, NothingFound
  <2>3. ours \/ found.rest # <<>> => age \in 0 .. Timeout
    <3>1. CASE n > 0
      BY <1>6, <3>1, TimingAssumption
    <3>2. CASE n = 0
      <4>1. rx_buffer # <<>> => age = last_rx
        BY <1>3, <1>6, <3>2
      <4> QED
        BY <1>7, <2>1, <2>2, <3>2, <4>1
    <3> QED
      BY <1>1, <3>1, <3>2
  <2>4. ASSUME last_rx' > 0 PROVE ticked' \/ IsStream(rx_buffer')
    <3>1. found.rest # <<>> /\ age > 0
      BY <1>8, <2>4 DEF Never
    <3>2. n = 0
      BY <1>1, <1>6, <3>1
    <3>3. age = last_rx
      BY <1>3, <1>6, <2>2, <3>1, <3>2
    <3>4. ticked \/ IsStream(rx_buffer)
      BY <1>0, <1>2, <3>1, <3>3 DEF TimeInv
    <3>5. IsStream(rx_buffer) => IsStream(found.rest)
      BY <1>1, <1>4, <1>5, <3>2, StreamFound
    <3> QED
      BY <1>8, <1>9, <3>4, <3>5
  <2>5. rx_buffer' # <<>> => last_rx' = age
    BY <1>8
  <2>6. rx_buffer' # <<>> => last_rx' \in 0 .. Timeout
    BY <1>8, <2>3, <2>5
  <2>7. thread' \in {"handle", "silence"} =>
          request_end' \in Nat /\ (rx_buffer' # <<>> => last_rx' <= request_end')
    <3>1. thread' \in {"handle", "silence"} => ours /\ request_end' = age
      BY <1>8
    <3>2. ours => age \in Nat /\ age <= age
      BY <2>3
    <3> QED
      BY <2>5, <3>1, <3>2
  <2> QED
    BY <2>4, <2>6, <2>7, Zenon DEF TimeInv
<1> QED
  BY <1>11, <1>17, <1>18

(* The callback: the request that was as good as executed is executed.     *)
LEMMA HandleStep ==
  ASSUME IInv, TrafficInv, Handle, ~disturbed
  PROVE  FlowInv' /\ AuthInv' /\ AskedInv' /\ TimeInv'
<1>0. ThreadType /\ HistoryType /\ FlowInv /\ AuthInv /\ AskedInv /\ TimeInv
  BY TypeParts DEF IInv, TrafficInv
<1>1. /\ thread = "handle" /\ executed' = Append(executed, adu)
      /\ thread' = IF IsBroadcast(adu) THEN "top" ELSE "silence"
      /\ request_end' = IF IsBroadcast(adu) THEN Never ELSE request_end
      /\ UNCHANGED <<lifecycle, rx_buffer, last_rx, line, sent, disturbed, undrained>>
  BY DEF Handle
<1>2. Running /\ Busy /\ Calm /\ UNCHANGED <<cfg, input, asked, ticked>> /\ thread # "none"
  BY <1>1 DEF Running, Busy, Calm, lifecycle, line
<1>3. thread' \in {"top", "silence"}
  BY <1>1
<1>4. Done' = Done /\ Coming' = Coming /\ Done = executed'
  BY <1>1, <1>2, <1>3 DEF Done, Coming
<1>5. FlowInv'
  BY <1>0, <1>1, <1>2, <1>3, <1>4, FlowKept
<1>6. AskedInv'
  BY <1>0, <1>2, AskedKept
<1>7. AuthInv'
  <2>1. Done \in Seq(Seq(U8)) /\ sent \in Seq(Seq(U8))
    <3>1. sent \in Seq(Requests) /\ executed \in Seq(Seq(U8)) /\ adu \in Seq(U8)
      BY <1>0 DEF HistoryType, ThreadType
    <3>2. \A f \in Requests : f \in Seq(U8)
      BY RequestAssumption
    <3>3. sent \in Seq(Seq(U8))
      BY <3>1, <3>2
    <3>4. Append(executed, adu) \in Seq(Seq(U8))
      BY <3>1
    <3> QED
      BY <1>1, <1>4, <3>3, <3>4
  <2>2. Flows(Ours, Coming, Done, sent, cfg.local_echo)
    BY <1>0, <1>2, Zenon DEF FlowInv
  <2>3. Embeds(Ours, Done, sent)
    BY <2>1, <2>2, FlowsEmbeds
  <2>4. Ours' = Ours
    BY <1>2, OursKept
  <2> QED
    BY <1>1, <1>4, <2>3, <2>4, Zenon DEF AuthInv
<1>8. TimeInv'
  BY <1>0, <1>1, <1>2, <1>3 DEF TimeInv
<1> QED
  BY <1>5, <1>6, <1>7, <1>8

(* The other steps of the thread: with no damage the echo that is          *)
(* discarded is the echo of the response.                                  *)
LEMMA ThreadStep ==
  ASSUME IInv, TrafficInv, ~disturbed, ~disturbed',
         \/ PollFails \/ wait_response_silence \/ SendFrame \/ SendFails
         \/ EchoReads \/ EchoTimesOut \/ ThreadExits
  PROVE  FlowInv' /\ AuthInv' /\ AskedInv' /\ TimeInv'
<1>0. /\ BufferType /\ ThreadType /\ LineType /\ HistoryType
      /\ FlowInv /\ AuthInv /\ AskedInv /\ TimeInv /\ StartInv
  BY TypeParts DEF IInv, TrafficInv
<1>e. rx_buffer \in Seq(U8) /\ input \in Seq(U8) /\ resp \in Seq(U8) /\ rx_buffer \o <<>> = rx_buffer
  BY <1>0, ConcatEmptySeq DEF BufferType, LineType, ThreadType
<1>k. ASSUME Running, thread \notin {"top", "handle"}, thread' \in {"top", "send", "echo"},
             Coming' = Coming, thread' = "echo" => cfg.local_echo /\ input' = resp',
             UNCHANGED <<cfg, rx_buffer, last_rx, ticked, asked, sent, executed, disturbed>>
      PROVE  FlowInv' /\ AuthInv' /\ AskedInv' /\ TimeInv'
  <2>1. Calm /\ thread # "none" /\ Done' = Done /\ Busy
    BY <1>0, <1>k DEF Calm, Done, Running, Busy, ThreadType
  <2>2. FlowInv'
    BY <1>0, <1>k, <2>1, FlowKept
  <2>3. AuthInv' /\ AskedInv'
    BY <1>0, <1>k, <2>1, AuthKept, AskedKept
  <2>4. TimeInv'
    BY <1>0, <1>k DEF TimeInv
  <2> QED
    BY <2>2, <2>3, <2>4
<1>1. CASE PollFails
  <2>1. thread = "top" /\ Running
    BY <1>1 DEF PollFails, Running
  <2>2. ~TimedOut
    <3>1. rx_buffer # <<>> => last_rx \in 0 .. Timeout
      BY <1>0, <2>1 DEF TimeInv
    <3> QED
      BY <3>1, TimingAssumption DEF TimedOut
  <2>3. UNCHANGED <<thread, rx_buffer, last_rx, adu, request_end, resp, cfg,
                    input, ticked, asked, sent, executed, disturbed>>
    BY <1>1, <2>2 DEF PollFails, Kept, lifecycle, line, history
  <2>4. TrafficInv'
    BY <2>3, TrafficKept
  <2> QED
    BY <2>4 DEF TrafficInv
<1>2. CASE wait_response_silence
  <2>1. /\ thread = "silence" /\ thread' = "send"
        /\ UNCHANGED <<cfg, rx_buffer, last_rx, ticked, asked, sent, executed, disturbed, input>>
    BY <1>2 DEF wait_response_silence, lifecycle, line, history
  <2> QED
    BY <1>k, <2>1 DEF Running, Coming
<1>3. CASE SendFrame
  <2>1. /\ thread = "send"
        /\ UNCHANGED <<cfg, rx_buffer, last_rx, ticked, asked, sent, executed, disturbed>>
    BY <1>3 DEF SendFrame, lifecycle, NoiseHits
  <2>2. CASE ~cfg.local_echo
    <3>1. thread' = "top" /\ input' = input
      BY <1>3, <2>2 DEF SendFrame
    <3> QED
      BY <1>k, <2>1, <3>1 DEF Running, Coming
  <2>3. CASE cfg.local_echo
    <3>1. thread' = "echo" /\ resp' = resp /\ input' = input \o resp
      BY <1>3, <2>3 DEF SendFrame, NoiseHits
    <3>2. Coming = rx_buffer \o input /\ Coming = <<>>
      BY <1>0, <2>1, <2>3 DEF FlowInv, Coming, Running, Busy
    <3>3. rx_buffer = <<>> /\ input = <<>>
      <4>1. rx_buffer \o input = <<>>
        BY <3>2
      <4> QED
        BY <1>e, <4>1, EmptyHalves, Zenon
    <3>4. input' = resp'
      BY <1>e, <3>1, <3>3, ConcatEmptySeq
    <3>5. Coming' = Coming
      BY <1>e, <2>1, <3>1, <3>2, <3>3, Zenon DEF Coming
    <3> QED
      BY <1>k, <2>1, <2>3, <3>1, <3>4, <3>5 DEF Running
  <2> QED
    BY <2>2, <2>3
<1>4. CASE SendFails
  <2>1. /\ thread = "send" /\ thread' = "top"
        /\ UNCHANGED <<cfg, rx_buffer, last_rx, ticked, asked, sent, executed, disturbed, input>>
    BY <1>4 DEF SendFails, lifecycle, NoiseHits
  <2> QED
    BY <1>k, <2>1 DEF Running, Coming
<1>5. CASE EchoReads
  <2>1. /\ thread = "echo"
        /\ UNCHANGED <<cfg, rx_buffer, last_rx, ticked, asked, sent, executed, disturbed>>
    BY <1>5 DEF EchoReads, lifecycle, history
  <2>2. input = resp
    BY <1>0, <2>1 DEF FlowInv, Running
  <2>3. Len(input) \in Nat /\ ~(Len(input) < Len(resp))
    BY <1>e, <2>2
  <2>4. thread' = "top" /\ input' = Drop(input, Len(input))
    BY <1>5, <2>2, <2>3 DEF EchoReads
  <2>5. input' = <<>>
    BY <1>e, <2>3, <2>4, Dropped
  <2>6. Coming' = Coming
    BY <2>1, <2>4, <2>5 DEF Coming
  <2> QED
    BY <1>k, <2>1, <2>4, <2>6 DEF Running
<1>6. CASE EchoTimesOut
  <2>1. thread = "echo" /\ input = <<>> /\ resp # <<>>
    BY <1>0, <1>6 DEF EchoTimesOut, ThreadType
  <2>2. input = resp
    BY <1>0, <2>1 DEF FlowInv, Running
  <2> QED
    BY <2>1, <2>2
<1>7. CASE ThreadExits
  <2>1. thread = "top" /\ thread' = "exit" /\ UNCHANGED <<cfg, asked, sent, executed, disturbed>>
    BY <1>7 DEF ThreadExits, lifecycle, line, history
  <2>2. Calm /\ thread # "none" /\ ~Running'
    BY <2>1 DEF Calm, Running
  <2>3. FlowInv' /\ TimeInv'
    BY <2>2 DEF FlowInv, TimeInv
  <2> QED
    BY <1>0, <2>1, <2>2, <2>3, AuthKept, AskedKept
<1> QED
  BY <1>1, <1>2, <1>3, <1>4, <1>5, <1>6, <1>7

(* The application: a server that was started with nothing on the line     *)
(* has nothing to account for.                                             *)
LEMMA AppStep ==
  ASSUME IInv, TrafficInv, ~disturbed',
         Start \/ StartLinks \/ StartFails \/ StopFlag \/ StopJoin
  PROVE  FlowInv' /\ AuthInv' /\ AskedInv' /\ TimeInv'
<1>0. LineType /\ HistoryType /\ LifeInv /\ AuthInv /\ StartInv
  BY TypeParts DEF IInv, TrafficInv
<1>e. \A P : Embeds(P, <<>>, sent)
  BY <1>0, PicksNothing DEF HistoryType
<1>1. CASE Start
  <2>1. /\ thread' = "top" /\ rx_buffer' = <<>> /\ last_rx' = Never /\ executed' = <<>>
        /\ sent = <<>> /\ sent' = <<>> /\ asked' = asked
    BY <1>1 DEF Start
  <2>2. asked' = <<>> /\ input = <<>>
    BY <1>0, <2>1 DEF StartInv
  <2>3. PICK n \in ReadSizes \cup {0, Len(input)} : input' = Drop(input, n)
    BY <1>1 DEF Start
  <2>4. n \in Nat
    BY <2>2, <2>3, CapAssumption
  <2>5. input' = <<>>
    BY <2>2, <2>3, <2>4 DEF Drop
  <2>6. Coming' = <<>> /\ Done' = <<>> /\ ~Busy'
    <3>1. <<>> \o <<>> = <<>>
      OBVIOUS
    <3> QED
      BY <2>1, <2>5, <3>1 DEF Coming, Done, Busy
  <2>7. FlowInv'
    <3>1. Flows(Ours', <<>>, <<>>, <<>>, cfg'.local_echo)
      BY FlowsNothing
    <3> QED
      BY <2>1, <2>6, <3>1, Zenon DEF FlowInv
  <2>8. AuthInv'
    BY <1>e, <2>1, Zenon DEF AuthInv
  <2>9. AskedInv'
    BY <2>2, Zenon DEF AskedInv
  <2>10. TimeInv'
    BY <2>1 DEF TimeInv, Never
  <2> QED
    BY <2>7, <2>8, <2>9, <2>10
<1>2. CASE StartLinks \/ StopFlag
  <2>1. UNCHANGED <<thread, rx_buffer, last_rx, adu, request_end, resp, cfg,
                    input, ticked, asked, sent, executed, disturbed>>
    BY <1>2 DEF StartLinks, StopFlag, server, line, history
  <2>2. TrafficInv'
    BY <2>1, TrafficKept
  <2> QED
    BY <2>2 DEF TrafficInv
<1>3. CASE StartFails
  <2>1. thread' = "none" /\ executed' = <<>> /\ sent' = sent
    BY <1>0, <1>3 DEF StartFails, LifeInv
  <2>2. AuthInv'
    BY <1>e, <2>1, Zenon DEF AuthInv
  <2> QED
    BY <2>1, <2>2 DEF FlowInv, AskedInv, TimeInv, Running
<1>4. CASE StopJoin
  <2>1. thread' = "none" /\ UNCHANGED <<cfg, sent, executed, disturbed>>
    BY <1>4 DEF StopJoin, history
  <2>2. AuthInv'
    BY <1>0, <2>1, AuthKept DEF Calm
  <2> QED
    BY <2>1, <2>2 DEF FlowInv, AskedInv, TimeInv, Running
<1> QED
  BY <1>1, <1>2, <1>3, <1>4

(* A server that waits, with all that arrived dealt with and no damage,    *)
(* has an empty buffer.                                                    *)
LEMMA SettledEmpty ==
  ASSUME IInv, TrafficInv, ~disturbed, Settled
  PROVE  Running /\ ~Busy /\ rx_buffer = <<>> /\ input = <<>> /\ Coming = <<>> /\ Done = executed
<1>1. /\ thread = "top" /\ input = <<>> /\ get_complete_request_len(rx_buffer) = 0
      /\ rx_buffer \in Seq(U8) /\ FlowInv
  BY TypeParts DEF Settled, Parsed, IInv, TrafficInv, BufferType
<1>2. Running /\ ~Busy /\ Done = executed /\ Coming = rx_buffer \o <<>>
  BY <1>1 DEF Running, Busy, Done, Coming
<1>3. rx_buffer \o <<>> = rx_buffer
  BY <1>1, ConcatEmptySeq
<1>4. IsStream(rx_buffer)
  <2>1. Flows(Ours, rx_buffer, Done, sent, cfg.local_echo)
    BY <1>1, <1>2, <1>3, Zenon DEF FlowInv
  <2> QED
    BY <2>1, Zenon DEF Flows, IsStream
<1>5. rx_buffer = <<>>
  BY <1>1, <1>4, StreamFound
<1> QED
  BY <1>1, <1>2, <1>3, <1>5, Zenon

(* A frame joins what comes.                                               *)
LEMMA WireStep ==
  ASSUME IInv, TrafficInv, Calm, Running, NEW g, WholeRequest(g), OnTheWire(g),
         cfg.local_echo => Settled, UNCHANGED <<lifecycle, server, executed>>,
         \/ sent' = sent /\ g \notin Ours
         \/ sent' = Append(sent, g)
  PROVE  FlowInv' /\ TimeInv'
<1>0. /\ BufferType /\ LineType /\ HistoryType /\ ThreadType
      /\ FlowInv /\ TimeInv /\ rx_buffer \in Seq(U8) /\ input \in Seq(U8)
  BY TypeParts DEF IInv, TrafficInv, BufferType, LineType
<1>1. UNCHANGED <<cfg, thread, rx_buffer, last_rx, adu, request_end, resp, executed>>
  BY DEF lifecycle, server
<1>2. ~disturbed /\ ~disturbed' /\ Ours' = Ours /\ Running' /\ Busy' = Busy /\ Done' = Done
  BY <1>1, OursKept DEF Calm, Running, Busy, Done
<1>3. thread # "echo" /\ (cfg.local_echo => Coming = <<>> /\ ~Busy)
  <2>1. Settled => thread = "top" /\ Coming = <<>> /\ ~Busy
    BY <1>2, SettledEmpty DEF Settled
  <2>2. thread = "echo" => cfg.local_echo
    BY <1>0, <1>2 DEF FlowInv
  <2> QED
    BY <2>1, <2>2
<1>4. PICK b \in Seq(U8) : b = rx_buffer \o input /\ Coming = b /\ Coming' = b \o g
  <2>1. rx_buffer \o input \in Seq(U8)
    BY <1>0
  <2>2. g \in Seq(U8)
    BY WholeBytes
  <2>3. (rx_buffer \o input) \o g = rx_buffer \o (input \o g)
    BY <1>0, <2>2, ConcatAssociative, SMTT(20)
  <2>4. input' = input \o g
    BY DEF OnTheWire
  <2>5. Coming = rx_buffer \o input /\ Coming' = rx_buffer \o (input \o g)
    BY <1>1, <1>3, <2>4, Zenon DEF Coming
  <2> QED
    BY <2>1, <2>3, <2>5, Zenon
<1>5. sent \in Seq(Seq(U8)) /\ Done \in Seq(Seq(U8))
  <2>1. sent \in Seq(Requests) /\ \A f \in Requests : f \in Seq(U8)
    BY <1>0, RequestAssumption DEF HistoryType
  <2>2. sent \in Seq(Seq(U8))
    BY <2>1
  <2>3. executed \in Seq(Seq(U8)) /\ adu \in Seq(U8)
    BY <1>0 DEF HistoryType, ThreadType
  <2>4. Append(executed, adu) \in Seq(Seq(U8))
    BY <2>3
  <2> QED
    BY <2>2, <2>3, <2>4, Zenon DEF Done
<1>6. Flows(Ours, b, Done, sent, cfg.local_echo) /\ (cfg.local_echo => b = <<>>)
  BY <1>0, <1>2, <1>3, <1>4, Zenon DEF FlowInv
<1>7. /\ Flows(Ours, b \o g, Done, Append(sent, g), cfg.local_echo)
      /\ g \notin Ours => Flows(Ours, b \o g, Done, sent, cfg.local_echo)
  BY <1>5, <1>6, FlowsArrival
<1>8. Flows(Ours, b \o g, Done, sent', cfg.local_echo)
  BY <1>7, Zenon
<1>9. FlowInv'
  BY <1>1, <1>2, <1>3, <1>4, <1>8, Zenon DEF FlowInv
<1>10. TimeInv'
  <2>1. ASSUME last_rx > 0 PROVE ticked' \/ IsStream(rx_buffer)
    <3>1. CASE input # <<>>
      BY <1>0, <1>2, <2>1, <3>1 DEF TimeInv, OnTheWire
    <3>2. CASE input = <<>>
      <4>1. b = rx_buffer
        BY <1>0, <1>4, <3>2, ConcatEmptySeq
      <4> QED
        BY <1>6, <4>1, Zenon DEF Flows, IsStream
    <3> QED
      BY <3>1, <3>2
  <2> QED
    BY <1>0, <1>1, <1>2, <2>1, Zenon DEF TimeInv
<1> QED
  BY <1>9, <1>10

(* The master sends a request.  A server with empty buffers starts to      *)
(* count from it; with local echo there is no other kind.                  *)
LEMMA MasterStep ==
  ASSUME WholeTraffic, ~Impatient, IInv, TrafficInv, ~disturbed', NEW f \in Requests, MasterSends(f)
  PROVE  FlowInv' /\ AuthInv' /\ AskedInv' /\ TimeInv'
<1>0. BufferType /\ LineType /\ HistoryType /\ AuthInv /\ WholeRequest(f) /\ f \in Seq(U8)
  BY TypeParts, WholeBytes DEF IInv, TrafficInv, WholeTraffic
<1>1. /\ LineFree
      /\ asked' = IF unit_id_matches(f[1]) THEN <<>> ELSE f
      /\ sent' = IF Forgotten THEN <<f>> ELSE Append(sent, f)
      /\ executed' = IF Forgotten THEN <<>> ELSE executed
      /\ OnTheWire(f) /\ disturbed' = (disturbed /\ ~Forgotten)
      /\ UNCHANGED <<lifecycle, server>>
  BY DEF MasterSends, NoiseHits
<1>2. UNCHANGED <<cfg, thread, rx_buffer, last_rx, adu, request_end, resp>>
  BY <1>1 DEF lifecycle, server
<1>3. AskedInv'
  BY <1>1, <1>2, Zenon DEF AskedInv, unit_id_matches
<1>4. CASE Forgotten
  <2>1. sent' = <<f>> /\ executed' = <<>>
    BY <1>1, <1>4
  <2>2. AuthInv'
    <3>1. <<f>> \in Seq(Requests)
      OBVIOUS
    <3>2. \A P : Embeds(P, <<>>, <<f>>)
      BY <3>1, PicksNothing
    <3> QED
      BY <2>1, <3>2, Zenon DEF AuthInv
  <2>3. CASE thread = "none"
    BY <1>2, <1>3, <2>2, <2>3 DEF FlowInv, TimeInv, Running
  <2>4. CASE Settled /\ rx_buffer = <<>>
    <3>1. thread' = "top" /\ rx_buffer' = <<>> /\ input' = <<>> \o f
      BY <1>1, <1>2, <2>4 DEF Settled, OnTheWire
    <3>2. <<>> \o f = f /\ Append(<<>>, f) = <<f>> /\ <<>> \in Seq(U8) /\ <<>> \in Seq(Seq(U8))
      BY <1>0, ConcatEmptySeq
    <3>3. Coming' = <<>> \o f /\ Done' = <<>> /\ ~Busy'
      BY <2>1, <3>1, <3>2 DEF Coming, Done, Busy
    <3>4. Flows(Ours', <<>>, <<>>, <<>>, cfg.local_echo)
      BY FlowsNothing
    <3>5. Flows(Ours', <<>> \o f, <<>>, Append(<<>>, f), cfg.local_echo)
      BY <1>0, <3>2, <3>4, FlowsArrival
    <3>6. FlowInv'
      BY <1>2, <2>1, <3>1, <3>2, <3>3, <3>5, Zenon DEF FlowInv
    <3>7. IsStream(<<>>)
      <4>1. Stream(<<>>, <<>>)
        BY <3>2, StreamEmpty
      <4> QED
        BY <3>2, <4>1, Zenon DEF IsStream
    <3>8. TimeInv'
      BY <3>1, <3>7 DEF TimeInv
    <3> QED
      BY <1>3, <2>2, <3>6, <3>8
  <2> QED
    BY <1>4, <2>3, <2>4 DEF Forgotten
<1>5. CASE ~Forgotten
  <2>1. sent' = Append(sent, f) /\ executed' = executed /\ thread # "none" /\ disturbed' = disturbed
    BY <1>0, <1>1, <1>5 DEF Forgotten, HistoryType
  <2>2. Calm
    BY <1>2, <2>1 DEF Calm
  <2>3. AuthInv'
    <3>1. PICK S : S = Seq(U8)
      OBVIOUS
    <3>2. executed \in Seq(S) /\ sent \in Seq(S) /\ f \in S
      <4>1. sent \in Seq(Requests) /\ \A h \in Requests : h \in S
        BY <1>0, <3>1, RequestAssumption DEF HistoryType
      <4>2. sent \in Seq(S)
        BY <4>1
      <4> QED
        BY <1>0, <3>1, <4>2 DEF HistoryType
    <3>3. Embeds(Ours, executed, sent)
      BY <1>0, <2>2 DEF AuthInv, Calm
    <3>4. Embeds(Ours, executed, Append(sent, f))
      BY <3>2, <3>3, EmbedsMore
    <3>5. Ours' = Ours
      BY <1>2, OursKept
    <3> QED
      BY <2>1, <3>4, <3>5, Zenon DEF AuthInv
  <2>4. CASE ~Running
    BY <1>2, <1>3, <2>3, <2>4 DEF FlowInv, TimeInv, Running
  <2>5. CASE Running
    <3>1. cfg.local_echo => Settled
      BY <1>1, <2>1 DEF LineFree
    <3>2. UNCHANGED <<lifecycle, server, executed>>
      BY <1>1, <2>1
    <3>3. FlowInv' /\ TimeInv'
      BY <1>0, <1>1, <2>1, <2>2, <2>5, <3>1, <3>2, WireStep
    <3> QED
      BY <1>3, <2>3, <3>3
  <2> QED
    BY <2>4, <2>5
<1> QED
  BY <1>4, <1>5

(* Another slave replies: a request that is not for this server.           *)
LEMMA ReplyStep ==
  ASSUME WholeTraffic, ~Impatient, IInv, TrafficInv, ~disturbed', SlaveReplies
  PROVE  FlowInv' /\ AuthInv' /\ AskedInv' /\ TimeInv'
<1>0. LifeType /\ LineType /\ HistoryType /\ AuthInv /\ AskedInv
  BY TypeParts DEF IInv, TrafficInv
<1>1. /\ LineFree /\ asked # <<>> /\ asked' = <<>>
      /\ OnTheWire(OtherReply(asked)) /\ disturbed' = disturbed
      /\ UNCHANGED <<lifecycle, server, frames, sent, executed, undrained>>
  BY DEF SlaveReplies, NoiseHits
<1>2. Calm /\ UNCHANGED thread
  BY <1>1 DEF Calm, lifecycle, server
<1>3. AuthInv' /\ AskedInv'
  BY <1>0, <1>1, <1>2, AuthKept DEF AskedInv
<1>4. CASE ~Running
  BY <1>2, <1>3, <1>4 DEF FlowInv, TimeInv, Running
<1>5. CASE Running
  <2>1. asked \in Requests /\ asked \in Seq(U8) /\ Len(asked) >= RTU_MIN_REQ_LENGTH /\ cfg \in Configs
    BY <1>0, <1>1, RequestAssumption DEF LineType, LifeType
  <2>2. ~unit_id_matches(asked[1])
    BY <1>0, <1>1, <1>2, <1>5 DEF AskedInv, Calm, Running
  <2>3. WholeRequest(OtherReply(asked))
    BY <2>1, <2>2 DEF WholeTraffic, unit_id_matches
  <2>4. PICK g : g = OtherReply(asked) /\ WholeRequest(g) /\ g # <<>>
    BY <2>3, WholeBytes
  <2>5. g[1] = asked[1]
    BY <2>1, <2>4, OtherReplyBytes
  <2>6. g \notin Ours
    BY <2>2, <2>5 DEF Ours, ForUs
  <2>7. cfg.local_echo => Settled
    BY <1>1, <1>5 DEF LineFree, Running
  <2>8. UNCHANGED <<lifecycle, server, executed>> /\ sent' = sent /\ OnTheWire(g)
    BY <1>1, <2>4
  <2>9. FlowInv' /\ TimeInv'
    BY <1>2, <1>5, <2>4, <2>6, <2>7, <2>8, WireStep
  <2> QED
    BY <1>3, <2>9
<1> QED
  BY <1>4, <1>5

(* Time passes: not long enough for the bytes in the buffer to be dropped. *)
LEMMA TickStep ==
  ASSUME PromptLine, IInv, TrafficInv, ~disturbed, Tick
  PROVE  FlowInv' /\ AuthInv' /\ AskedInv' /\ TimeInv'
<1>0. /\ BufferType /\ ThreadType /\ LineType
      /\ FlowInv /\ AuthInv /\ AskedInv /\ TimeInv
  BY TypeParts DEF IInv, TrafficInv
<1>1. /\ thread = "top" => Parsed
      /\ thread = "silence" => request_end < SilenceTicks
      /\ thread \notin {"handle", "send", "echo"}
      /\ thread = "top" /\ input # <<>> => ~ticked
      /\ ticked' = TRUE
      /\ last_rx' = Older(last_rx, Timeout)
      /\ request_end' = Older(request_end, SilenceTicks - 1)
      /\ UNCHANGED <<lifecycle, thread, rx_buffer, adu, resp, input, asked,
                     frames, noise, history>>
  BY DEF Tick, PromptLine
<1>2. UNCHANGED <<cfg, executed, sent, disturbed>> /\ Calm
  BY <1>1 DEF lifecycle, history, Calm
<1>3. Ours' = Ours /\ Coming' = Coming /\ Done' = Done /\ Running' = Running /\ Busy' = Busy
  BY <1>1, <1>2, OursKept DEF Coming, Done, Running, Busy
<1>4. FlowInv' /\ AuthInv'
  BY <1>0, <1>1, <1>2, <1>3, Zenon DEF FlowInv, AuthInv
<1>5. AskedInv'
  BY <1>0, <1>1, <1>2, Zenon DEF AskedInv, unit_id_matches
<1>6. TimeInv'
  <2> SUFFICES ASSUME Running
      PROVE  /\ rx_buffer # <<>> => last_rx' \in 0 .. Timeout
             /\ thread = "silence" =>
                  request_end' \in Nat /\ (rx_buffer # <<>> => last_rx' <= request_end')
    BY <1>1, <1>3 DEF TimeInv
  <2>1. thread \in {"top", "silence"}
    BY <1>0, <1>1 DEF Running, ThreadType
  <2>2. /\ rx_buffer # <<>> => last_rx \in 0 .. Timeout
        /\ thread = "silence" =>
             request_end \in Nat /\ (rx_buffer # <<>> => last_rx <= request_end)
        /\ last_rx > 0 => ticked \/ IsStream(rx_buffer)
    BY <1>0 DEF TimeInv
  <2>3. last_rx \in 0 .. Timeout => last_rx' = last_rx + 1
    BY <1>1, TimingAssumption DEF Older, Never
  <2>4. CASE thread = "top"
    <3>1. ASSUME rx_buffer # <<>> PROVE last_rx = 0
      <4>1. get_complete_request_len(rx_buffer) = 0 /\ rx_buffer \in Seq(U8)
        BY <1>0, <1>1, <2>4 DEF Parsed, BufferType
      <4>2. ~IsStream(rx_buffer)
        BY <3>1, <4>1, StreamFound
      <4>3. ~Settled
        BY <3>1, SettledEmpty
      <4>4. input # <<>>
        BY <1>1, <2>4, <4>3 DEF Settled
      <4>5. ~ticked
        BY <1>1, <2>4, <4>4
      <4> QED
        BY <2>2, <3>1, <4>2, <4>5
    <3> QED
      BY <2>2, <2>3, <2>4, <3>1, TimingAssumption DEF PromptLine
  <2>5. CASE thread = "silence"
    <3>1. PICK t \in Nat : t = request_end /\ t < SilenceTicks
      BY <1>1, <2>2, <2>5
    <3>2. request_end' = t + 1
      BY <1>1, <3>1 DEF Older, Never, PromptLine
    <3>3. ASSUME rx_buffer # <<>> PROVE last_rx' \in 0 .. Timeout /\ last_rx' <= t + 1
      <4>1. last_rx \in 0 .. Timeout /\ last_rx <= t /\ last_rx' = last_rx + 1
        BY <2>2, <2>3, <2>5, <3>1, <3>3
      <4>2. t + 1 <= Timeout
        BY <3>1, TimingAssumption DEF PromptLine
      <4> QED
        BY <4>1, <4>2, TimingAssumption
    <3> QED
      BY <2>5, <3>1, <3>2, <3>3
  <2> QED
    BY <2>1, <2>4, <2>5
<1> QED
  BY <1>4, <1>5, <1>6
-----------------------------------------------------------------------------
(* The invariant holds, and what follows from it.                          *)

(* At first nothing was sent and the server does not run.                  *)
LEMMA InitTraffic == Init => TrafficInv
<1> SUFFICES ASSUME Init PROVE TrafficInv
  OBVIOUS
<1>1. /\ thread = "none" /\ rx_buffer = <<>> /\ input = <<>> /\ asked = <<>>
      /\ sent = <<>> /\ executed = <<>>
  BY DEF Init
<1>2. <<>> \in Seq(U8)
  OBVIOUS
<1>3. Embeds(Ours, executed, sent)
  BY <1>1, <1>2, PicksNothing, Zenon
<1> QED
  BY <1>1, <1>3 DEF TrafficInv, FlowInv, AuthInv, StartInv, AskedInv, TimeInv, Running, Busy

(* Every step keeps it.                                                    *)
LEMMA TrafficStep ==
  ASSUME PromptLine, WholeTraffic, IInv, TrafficInv, [Next]_vars
  PROVE  TrafficInv'
<1>1. StartInv'
  BY StartStep DEF TrafficInv
<1>2. ~Impatient
  BY DEF PromptLine
<1>3. CASE disturbed'
  BY <1>1, <1>3, Damages DEF TrafficInv
<1>4. CASE ~disturbed'
  <2>1. ASSUME NEW n \in 0 .. Len(input), Poll(n) PROVE TrafficInv'
    <3>1. ~disturbed
      BY <1>4, <2>1 DEF Poll, history
    <3> QED
      BY <1>1, <2>1, <3>1, PollStep DEF TrafficInv
  <2>2. CASE Handle
    <3>1. ~disturbed
      BY <1>4, <2>2 DEF Handle
    <3> QED
      BY <1>1, <2>2, <3>1, HandleStep DEF TrafficInv
  <2>3. CASE \/ PollFails \/ wait_response_silence \/ SendFrame \/ SendFails
             \/ EchoReads \/ EchoTimesOut \/ ThreadExits
    <3>1. ~disturbed
      BY <1>4, <2>3 DEF PollFails, wait_response_silence, SendFrame, SendFails, EchoReads,
        EchoTimesOut, ThreadExits, NoiseHits, history
    <3>2. FlowInv' /\ AuthInv' /\ AskedInv' /\ TimeInv'
      BY <1>4, <2>3, <3>1, ThreadStep
    <3> QED
      BY <1>1, <3>2 DEF TrafficInv
  <2>4. CASE Start \/ StartLinks \/ StartFails \/ StopFlag \/ StopJoin
    <3>1. FlowInv' /\ AuthInv' /\ AskedInv' /\ TimeInv'
      BY <1>4, <2>4, AppStep
    <3> QED
      BY <1>1, <3>1 DEF TrafficInv
  <2>5. ASSUME NEW f \in Requests, MasterSends(f) PROVE TrafficInv'
    BY <1>1, <1>2, <1>4, <2>5, MasterStep DEF TrafficInv
  <2>6. CASE SlaveReplies
    BY <1>1, <1>2, <1>4, <2>6, ReplyStep DEF TrafficInv
  <2>7. CASE Tick
    <3>1. ~disturbed
      BY <1>4, <2>7 DEF Tick, history
    <3> QED
      BY <1>1, <2>7, <3>1, TickStep DEF TrafficInv
  <2>8. CASE Halted \/ UNCHANGED vars
    BY <2>8, TrafficKept DEF Halted, vars, lifecycle, server, line, history
  <2> QED
    BY <2>1, <2>2, <2>3, <2>4, <2>5, <2>6, <2>7, <2>8 DEF Next, Thread
<1> QED
  BY <1>3, <1>4

(* The accounting of the requests is an invariant: while nothing is        *)
(* damaged, what was executed, what is being handled and what lies in the  *)
(* buffer and on the line are together what was sent.                      *)
THEOREM TrafficInvariance ==
  ASSUME PromptLine, WholeTraffic PROVE Spec => []TrafficInv
<1>1. IInv /\ TrafficInv /\ [Next]_vars => TrafficInv'
  BY TrafficStep
<1> QED
  BY <1>1, InitTraffic, Invariance, PTL DEF Spec

(* The requests for this server, as the properties say it.                 *)
LEMMA EmbeddedIsTraced ==
  ASSUME NEW b \in Seq(Seq(U8)), NEW a, NEW at
  PROVE  Embedded(Ours, at, b, a) => Traced(at, b, a)
  BY DEF Embedded, Traced, Ours

(* On a prompt line with whole traffic the server executes every request   *)
(* it was sent, once and in order, however the reads cut the bytes, however*)
(* many requests lie behind one another and whoever else is spoken to: the *)
(* search of extract_request_frame neither skips nor repeats one, and the  *)
(* assembly timeout drops none.                                            *)
THEOREM NothingIsMissed ==
  ASSUME PromptLine, WholeTraffic PROVE Spec => []NothingMissed
<1>1. IInv /\ TrafficInv => NothingMissed
  <2> SUFFICES ASSUME IInv, TrafficInv, Settled, ~disturbed
               PROVE  \E at \in [1 .. Len(executed) -> 1 .. Len(sent)] :
                        /\ Traced(at, executed, sent)
                        /\ \A j \in 1 .. Len(sent) :
                             ForUs(sent[j]) => \E i \in 1 .. Len(executed) : at[i] = j
    BY DEF NothingMissed
  <2>1. Running /\ Coming = <<>> /\ Done = executed
    BY SettledEmpty
  <2>2. executed \in Seq(Seq(U8)) /\ sent \in Seq(Seq(U8))
    BY TypeParts, RequestAssumption DEF IInv, HistoryType
  <2>3. Flows(Ours, <<>>, executed, sent, cfg.local_echo)
    BY <2>1, Zenon DEF TrafficInv, FlowInv
  <2>4. Picks(Ours, executed, sent)
    BY <2>2, <2>3, FlowsAll
  <2>5. PICK at \in [1 .. Len(executed) -> 1 .. Len(sent)] :
          /\ Embedded(Ours, at, executed, sent)
          /\ \A j \in 1 .. Len(sent) :
               sent[j] \in Ours => \E i \in 1 .. Len(executed) : at[i] = j
    BY <2>4, Zenon DEF Picks
  <2>6. Traced(at, executed, sent)
    BY <2>2, <2>5, EmbeddedIsTraced
  <2>7. ASSUME NEW j \in 1 .. Len(sent), ForUs(sent[j])
        PROVE  \E i \in 1 .. Len(executed) : at[i] = j
    <3>1. sent[j] \in Seq(U8)
      BY <2>2
    <3> QED
      BY <2>5, <2>7, <3>1, Zenon DEF Ours
  <2> QED
    BY <2>5, <2>6, <2>7
<1> QED
  BY <1>1, TrafficInvariance, Invariance, PTL

(* On such a line, while nothing is damaged, what reaches the callbacks is *)
(* what the master sent to this server, in its order and at most as often, *)
(* at every moment and not only when the server has caught up.  Here       *)
(* nothing is taken from another slave's reply (Embeds), although          *)
(* Authentic alone would allow it.                                         *)
THEOREM UndisturbedIsAuthentic ==
  ASSUME PromptLine, WholeTraffic
  PROVE  Spec => [](~disturbed => Authentic /\ Embeds(Ours, executed, sent))
<1>1. IInv /\ TrafficInv =>
        (~disturbed => Authentic /\ Embeds(Ours, executed, sent))
  <2> SUFFICES ASSUME IInv, TrafficInv, ~disturbed
               PROVE  Authentic /\ Embeds(Ours, executed, sent)
    OBVIOUS
  <2>1. executed \in Seq(Seq(U8))
    BY TypeParts DEF IInv, HistoryType
  <2>2. PICK at \in [1 .. Len(executed) -> 1 .. Len(sent)] : Embedded(Ours, at, executed, sent)
    BY Zenon DEF TrafficInv, AuthInv, Embeds
  <2>3. Traced(at, executed, sent)
    BY <2>1, <2>2, EmbeddedIsTraced
  <2>4. Authentic
    BY <2>2, <2>3 DEF Authentic
  <2> QED
    BY <2>4, Zenon DEF TrafficInv, AuthInv
<1> QED
  BY <1>1, TrafficInvariance, Invariance, PTL
-----------------------------------------------------------------------------
(* Traffic that satisfies the hypothesis.                                  *)

(* A single write that another slave accepts.                              *)
SingleWrite(f) ==
  \/ f[2] = WRITE_SINGLE_REGISTER
  \/ f[2] = WRITE_SINGLE_COIL /\ GetU16(f, 5) \in {COIL_ON, COIL_OFF}

(* Every request is whole, and is a broadcast, for this server however it  *)
(* is configured, or a single write to another slave.                      *)
PlainTraffic ==
  \A f \in Requests :
    /\ WholeRequest(f)
    /\ \/ f[1] = BROADCAST_ADDRESS
       \/ \A c \in Configs : c.unit_id \in {UNIT_ID_ANY, f[1]}
       \/ SingleWrite(f)

(* The reply to a single write is the request itself over again: a whole   *)
(* request.                                                                *)
LEMMA EchoedWrite ==
  ASSUME NEW f, WholeRequest(f), SingleWrite(f) PROVE WholeRequest(OtherReply(f))
<1>0. f \in Seq(U8) /\ Len(f) >= RTU_MIN_REQ_LENGTH /\ Len(f) >= 8
  BY WholeBytes DEF WholeRequest
<1>1. PICK q : q = PduOf(f)
  OBVIOUS
<1>2. f[1] \in U8 /\ q.fc \in U8 /\ Word(q.addr) /\ Word(q.val)
  BY <1>0, <1>1, RequestFields
<1>3. q.fc = f[2] /\ q.val = GetU16(f, 5) /\ q.len = Len(f) - 3
  BY <1>1 DEF PduOf, RTU_CRC_LEN
<1>4. /\ q.fc \in WriteSingle /\ q.fc \in FunctionCodes /\ CallbackOf(q.fc) \in Callbacks
      /\ q.fc \notin ReadBits \cup ReadRegisters /\ q.fc \notin WriteMultiple /\ q.fc \in 1 .. 16
  <2>1. q.fc \in WriteSingle
    BY <1>3 DEF SingleWrite, WriteSingle
  <2>2. q.fc \notin WriteMultiple
    BY <2>1 DEF WriteSingle, WriteMultiple, WRITE_SINGLE_COIL,
      WRITE_SINGLE_REGISTER, WRITE_MULTIPLE_COILS, WRITE_MULTIPLE_REGISTERS
  <2>3. CallbackOf(q.fc) \in Callbacks
    BY DEF CallbackOf, Callbacks
  <2> QED
    BY <2>1, <2>2, <2>3, CodeTypes
<1>5. ~(q.len < 5)
  BY <1>0, <1>3
<1>6. PICK supply : supply = [i \in 0 .. q.val - 1 |-> 1]
  OBVIOUS
<1>7. PICK r : r = handle_request(q, Callbacks, 0, supply).resp
  OBVIOUS
<1>8. r = build_write_echo(q)
  <2>1. r = handle_write_single(q, 0).resp
    BY <1>4, <1>5, <1>7 DEF handle_request
  <2>2. ~(q.fc = WRITE_SINGLE_COIL /\ q.val \notin {COIL_ON, COIL_OFF})
    BY <1>3 DEF SingleWrite, WRITE_SINGLE_COIL, WRITE_SINGLE_REGISTER
  <2>3. \E d : handle_write_single(q, 0) = Invoke(q, 1, d, 0, build_write_echo(q))
    BY <2>2 DEF handle_write_single
  <2> QED
    BY <2>1, <2>3 DEF Invoke
<1>9. r.fc = q.fc /\ r.addr = q.addr /\ r.val = q.val
  BY <1>8 DEF build_write_echo
<1>10. PduBytes(r) = <<r.fc>> \o U16Bytes(r.addr) \o U16Bytes(r.val)
  <2>1. ~(r.fc >= 128)
    BY <1>4, <1>9
  <2> QED
    BY <1>4, <1>9, <2>1, Zenon DEF PduBytes
<1>11. PICK pdu \in Seq(U8) : pdu = PduBytes(r) /\ Len(pdu) = 5 /\ pdu[1] = q.fc
  <2>1. PICK fc, addr, val : fc = q.fc /\ addr = q.addr /\ val = q.val
    OBVIOUS
  <2>2. \E pdu \in Seq(U8) :
          /\ pdu = <<fc>> \o U16Bytes(addr) \o U16Bytes(val)
          /\ Asks(pdu, fc, addr, val) /\ Len(pdu) = 5
    BY <1>2, <2>1, PduAsks
  <2> QED
    BY <1>9, <1>10, <2>1, <2>2, Zenon DEF Asks
<1>12. PICK frame \in Seq(U8) : frame = <<f[1]>> \o pdu /\ Len(frame) = 6 /\ frame[2] = q.fc
  <2>1. PICK u \in Seq(U8) : u = <<f[1]>> /\ Len(u) = 1
    <3>1. <<f[1]>> \in Seq(U8) /\ Len(<<f[1]>>) = 1
      BY <1>2
    <3> QED
      BY <3>1, Zenon
  <2>2. u \o pdu \in Seq(U8)
    OBVIOUS
  <2>3. PICK b \in Seq(U8) : b = u \o pdu
    BY <2>2, Zenon
  <2>4. Len(b) = 1 + 5 /\ \A j \in 1 .. 5 : b[1 + j] = pdu[j]
    <3>1. PICK n \in Nat, m \in Nat : n = Len(u) /\ m = Len(pdu)
      OBVIOUS
    <3>2. Len(b) = n + m /\ \A j \in 1 .. m : b[n + j] = pdu[j]
      BY <2>3, <3>1, Concatenated
    <3>3. n = 1 /\ m = 5
      BY <1>11, <2>1, <3>1
    <3> QED
      BY <3>2, <3>3
  <2>5. Len(b) = 6 /\ b[2] = pdu[1]
    BY <2>4
  <2> QED
    BY <1>11, <2>1, <2>3, <2>5, Zenon
<1>13. PICK g : g = append_crc(frame, RTU_MAX_ADU_LENGTH)
  OBVIOUS
<1>14. OtherReply(f) = g
  <2>1. f[2] \notin ReadRegisters
    BY <1>3, <1>4
  <2>2. Response(f, 0) = append_crc(<<f[1]>> \o PduBytes(r), RTU_MAX_ADU_LENGTH)
    BY <1>1, <1>6, <1>7, Zenon DEF Response
  <2> QED
    BY <1>11, <1>12, <1>13, <2>1, <2>2, Zenon DEF OtherReply
<1>15. g # Refused
  <2>1. Response(f, 0) # <<>>
    BY <1>0, ResponseBytes
  <2>2. OtherReply(f) = Response(f, 0)
    BY <1>3, <1>4 DEF OtherReply
  <2> QED
    BY <1>14, <2>1, <2>2 DEF Refused
<1>16. g \in Seq(U8) /\ Len(g) = 8 /\ g[2] = q.fc /\ validate_crc(g)
  <2>1. Sealed(g, frame)
    BY <1>13, <1>15, AppendSeals
  <2>2. 2 \in 1 .. Len(frame)
    BY <1>12
  <2> QED
    BY <1>12, <2>1, <2>2 DEF Sealed
<1>17. get_complete_request_len(g) = 8
  BY <1>4, <1>16, CapAssumption DEF get_complete_request_len, RTU_MIN_REQ_LENGTH
<1> QED
  BY <1>14, <1>16, <1>17 DEF WholeRequest, RTU_MIN_REQ_LENGTH

(* The hypothesis on the traffic is met by every line on which this server *)
(* is the only slave, and by every line on which the other slaves are only *)
(* written to, one register or coil at a time (in place of a write of      *)
(* several, whose reply a server takes for the beginning of a request, and *)
(* of a read, whose reply it takes for anything).                          *)
THEOREM PlainTrafficIsWhole == PlainTraffic => WholeTraffic
  BY EchoedWrite DEF PlainTraffic, WholeTraffic
=============================================================================
