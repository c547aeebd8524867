------------------------- MODULE FrameStreamProofs -------------------------
(***************************************************************************)
(* What the abstract stream guarantees, for any set of sockets, any        *)
(* capacity and any Wrap.                                                  *)
(***************************************************************************)
EXTENDS FrameStream, Integers, TLAPS

-----------------------------------------------------------------------------
(* Counting modulo Wrap.                                                   *)

\* The remainder is the only number below w that differs from x by a
\* multiple of w.
LEMMA ModUnique ==
  ASSUME NEW w \in Nat \ {0}, NEW x \in Nat, NEW q \in Int, NEW r \in 0 .. w - 1,
         x = w * q + r
  PROVE  x % w = r
<1> DEFINE p == x \div w
           m == x % w
<1>1. p \in Int /\ m \in 0 .. w - 1 /\ x = w * p + m
  OBVIOUS
<1> HIDE DEF p, m
<1>2. w * (q - p) = m - r
  BY <1>1
<1>3. CASE q - p >= 1
  <2>1. w * (q - p) >= w
    BY <1>1, <1>3
  <2> QED
    BY <1>1, <1>2, <2>1
<1>4. CASE q - p <= -1
  <2>1. w * (q - p) <= -w
    BY <1>1, <1>4
  <2> QED
    BY <1>1, <1>2, <2>1
<1>5. CASE q - p = 0
  BY <1>1, <1>2, <1>5 DEF m
<1> QED
  BY <1>1, <1>3, <1>4, <1>5

\* A wrapped number can be counted on from.
LEMMA ModAdd ==
  ASSUME NEW w \in Nat \ {0}, NEW x \in Nat, NEW y \in Nat
  PROVE  ((x % w) + y) % w = (x + y) % w
<1> DEFINE p == x \div w
           m == x % w
           r == (m + y) % w
           q == (m + y) \div w
<1>1. p \in Int /\ m \in 0 .. w - 1 /\ x = w * p + m
  OBVIOUS
<1> HIDE DEF p, m
<1>2. q \in Int /\ r \in 0 .. w - 1 /\ m + y = w * q + r
  BY <1>1
<1> HIDE DEF q, r
<1> DEFINE k == p + q
           z == x + y
<1>3. k \in Int /\ z \in Nat /\ z = w * k + r
  BY <1>1, <1>2
<1> HIDE DEF k, z
<1>4. z % w = r
  BY <1>2, <1>3, ModUnique
<1> QED
  BY <1>4 DEF r, m, z

-----------------------------------------------------------------------------
(* The stream.                                                             *)

StreamTypeOK ==
  /\ arrived \in [Sockets -> 0 .. Wrap - 1]
  /\ delivered \in [Sockets -> 0 .. Wrap - 1]
  /\ pending \in [Sockets -> Seq(0 .. Wrap - 1)]
  /\ ended \in BOOLEAN

StreamInv == StreamTypeOK /\ Contiguous

\* What Contiguous says of one socket: q are the numbers after d up to a.
Between(d, q, a) ==
  /\ (d + Len(q)) % Wrap = a
  /\ \A i \in 1 .. Len(q) : q[i] = (d + i) % Wrap

LEMMA ContiguousBetween ==
  Contiguous <=> (~ended => \A s \in Sockets : Between(delivered[s], pending[s], arrived[s]))
  BY DEF Contiguous, Between

LEMMA BetweenAppend ==
  ASSUME Wrap \in Nat \ {0}, NEW d \in 0 .. Wrap - 1, NEW a \in 0 .. Wrap - 1,
         NEW q \in Seq(0 .. Wrap - 1), Between(d, q, a)
  PROVE  Between(d, Append(q, (a + 1) % Wrap), (a + 1) % Wrap)
<1> DEFINE e == (a + 1) % Wrap
           n == Len(q)
<1>1. e \in 0 .. Wrap - 1 /\ n \in Nat
  OBVIOUS
<1>2. e = (d + (n + 1)) % Wrap
  <2> DEFINE x == d + n
             y == d + (n + 1)
  <2>1. x \in Nat /\ x % Wrap = a
    BY <1>1 DEF Between
  <2>2. y = x + 1
    BY <1>1
  <2> HIDE DEF n, x, y
  <2>3. ((x % Wrap) + 1) % Wrap = (x + 1) % Wrap
    BY <2>1, ModAdd
  <2>4. e = y % Wrap
    BY <2>1, <2>2, <2>3
  <2> HIDE DEF e
  <2> QED
    BY <2>4 DEF y
<1> HIDE DEF e
<1>3. /\ Len(Append(q, e)) = n + 1
      /\ \A i \in 1 .. n : Append(q, e)[i] = q[i]
      /\ Append(q, e)[n + 1] = e
  BY <1>1
<1>4. \A i \in 1 .. n + 1 : Append(q, e)[i] = (d + i) % Wrap
  <2> SUFFICES ASSUME NEW i \in 1 .. n + 1 PROVE Append(q, e)[i] = (d + i) % Wrap
    OBVIOUS
  <2>1. CASE i = n + 1
    BY <1>2, <1>3, <2>1
  <2>2. CASE i # n + 1
    <3>1. i \in 1 .. n
      BY <1>1, <2>2
    <3> QED
      BY <1>3, <3>1 DEF Between
  <2> QED
    BY <2>1, <2>2
<1>5. Between(d, Append(q, e), e)
  BY <1>2, <1>3, <1>4 DEF Between
<1> QED
  BY <1>5 DEF e

LEMMA BetweenTail ==
  ASSUME Wrap \in Nat \ {0}, NEW d \in 0 .. Wrap - 1, NEW a \in 0 .. Wrap - 1,
         NEW q \in Seq(0 .. Wrap - 1), q # <<>>, Between(d, q, a)
  PROVE  Between(Head(q), Tail(q), a)
<1> DEFINE n == Len(q)
<1>1. /\ n \in Nat \ {0} /\ Head(q) = q[1] /\ Len(Tail(q)) = n - 1
      /\ \A i \in 1 .. n - 1 : Tail(q)[i] = q[i + 1]
      /\ 1 \in 1 .. n
  OBVIOUS
<1>2. Head(q) = (d + 1) % Wrap
  BY <1>1 DEF Between
<1>3. \A i \in Nat : (Head(q) + i) % Wrap = (d + (i + 1)) % Wrap
  <2> TAKE i \in Nat
  <2>1. (((d + 1) % Wrap) + i) % Wrap = (d + 1 + i) % Wrap
    <3> DEFINE x == d + 1
    <3>1. x \in Nat
      OBVIOUS
    <3> HIDE DEF x
    <3>2. ((x % Wrap) + i) % Wrap = (x + i) % Wrap
      BY <3>1, ModAdd
    <3> QED
      BY <3>2 DEF x
  <2>2. d + 1 + i = d + (i + 1)
    OBVIOUS
  <2> QED
    BY <1>2, <2>1, <2>2
<1>4. (Head(q) + (n - 1)) % Wrap = a
  <2>1. n - 1 \in Nat /\ (n - 1) + 1 = n
    BY <1>1
  <2>2. (Head(q) + (n - 1)) % Wrap = (d + n) % Wrap
    BY <1>3, <2>1
  <2> QED
    BY <2>2 DEF Between
<1>5. \A i \in 1 .. n - 1 : Tail(q)[i] = (Head(q) + i) % Wrap
  <2> TAKE i \in 1 .. n - 1
  <2>1. i \in Nat /\ i + 1 \in 1 .. n
    BY <1>1
  <2>2. q[i + 1] = (d + (i + 1)) % Wrap
    BY <2>1 DEF Between
  <2> QED
    BY <1>1, <1>3, <2>1, <2>2
<1> QED
  BY <1>1, <1>4, <1>5 DEF Between

LEMMA StreamInit ==
  ASSUME Wrap \in Nat \ {0}, Init
  PROVE  StreamInv
<1>1. StreamTypeOK
  <2>1. 0 \in 0 .. Wrap - 1 /\ <<>> \in Seq(0 .. Wrap - 1)
    OBVIOUS
  <2> QED
    BY <2>1 DEF Init, StreamTypeOK
<1>2. ASSUME NEW s \in Sockets
      PROVE  Between(delivered[s], pending[s], arrived[s])
  <2>1. delivered[s] = 0 /\ arrived[s] = 0 /\ pending[s] = <<>>
    BY DEF Init
  <2>2. 0 % Wrap = 0
    OBVIOUS
  <2> QED
    BY <2>1, <2>2 DEF Between
<1> QED
  BY <1>1, <1>2, ContiguousBetween DEF StreamInv

LEMMA StreamNext ==
  ASSUME Wrap \in Nat \ {0}, StreamInv, [Next]_vars
  PROVE  StreamInv'
<1> USE DEF StreamInv, StreamTypeOK
<1>1. ASSUME NEW s \in Sockets, Arrive(s) PROVE StreamInv'
  <2> DEFINE e == (arrived[s] + 1) % Wrap
  <2>1. e \in 0 .. Wrap - 1
    OBVIOUS
  <2>2. /\ arrived' = [arrived EXCEPT ![s] = e] /\ arrived'[s] = e
        /\ pending' = [pending EXCEPT ![s] = Append(pending[s], e)]
        /\ ~ended /\ delivered' = delivered /\ ended' = ended
    BY <1>1 DEF Arrive
  <2>3. Between(delivered[s], Append(pending[s], e), e)
    BY <2>2, ContiguousBetween, BetweenAppend
  <2> HIDE DEF e
  <2>4. StreamTypeOK'
    <3>1. Append(pending[s], e) \in Seq(0 .. Wrap - 1)
      BY <2>1
    <3> QED
      BY <2>1, <2>2, <3>1
  <2>5. ASSUME NEW t \in Sockets
        PROVE  Between(delivered'[t], pending'[t], arrived'[t])
    BY <2>2, <2>3, ContiguousBetween
  <2>6. Contiguous'
    BY <2>5 DEF Contiguous, Between
  <2> QED
    BY <2>4, <2>6
<1>2. ASSUME NEW s \in Sockets, Deliver(s) PROVE StreamInv'
  <2>1. /\ ~ended /\ pending[s] # <<>>
        /\ delivered' = [delivered EXCEPT ![s] = Head(pending[s])]
        /\ pending' = [pending EXCEPT ![s] = Tail(pending[s])]
        /\ arrived' = arrived /\ ended' = ended
    BY <1>2 DEF Deliver
  <2>2. Between(Head(pending[s]), Tail(pending[s]), arrived[s])
    BY <2>1, ContiguousBetween, BetweenTail
  <2>3. StreamTypeOK'
    <3>1. Head(pending[s]) \in 0 .. Wrap - 1 /\ Tail(pending[s]) \in Seq(0 .. Wrap - 1)
      BY <2>1
    <3> QED
      BY <2>1, <3>1
  <2>4. ASSUME NEW t \in Sockets
        PROVE  Between(delivered'[t], pending'[t], arrived'[t])
    BY <2>1, <2>2, ContiguousBetween
  <2>5. Contiguous'
    BY <2>4 DEF Contiguous, Between
  <2> QED
    BY <2>3, <2>5
<1>3. ASSUME NEW s \in Sockets, DeliverAndFail(s) PROVE StreamInv'
  <2>1. Head(pending[s]) \in 0 .. Wrap - 1 /\ <<>> \in Seq(0 .. Wrap - 1)
    BY <1>3 DEF DeliverAndFail
  <2> QED
    BY <1>3, <2>1 DEF DeliverAndFail, Nothing, Contiguous
<1>4. CASE End
  <2>1. <<>> \in Seq(0 .. Wrap - 1)
    OBVIOUS
  <2> QED
    BY <1>4, <2>1 DEF End, Nothing, Contiguous
<1>5. CASE UNCHANGED vars
  BY <1>5 DEF vars, Contiguous
<1> QED
  BY <1>1, <1>2, <1>3, <1>4, <1>5 DEF Next

\* The frames on the way of a socket are always exactly those after the last
\* delivered one up to the last arrived one: whatever implements the stream
\* delivers per socket in arrival order, without a gap or a repetition.
THEOREM StreamContiguous ==
  ASSUME Wrap \in Nat \ {0}
  PROVE  SafeSpec => []Contiguous
<1>1. Init => StreamInv
  BY StreamInit
<1>2. StreamInv /\ [Next]_vars => StreamInv'
  BY StreamNext
<1>3. StreamInv => Contiguous
  BY DEF StreamInv
<1> QED
  BY <1>1, <1>2, <1>3, PTL DEF SafeSpec
=============================================================================
