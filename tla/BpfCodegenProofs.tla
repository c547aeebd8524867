------------------------- MODULE BpfCodegenProofs -------------------------
(***************************************************************************)
(* Proofs about the code generator, for every set of expressions.  What    *)
(* the stream of labels and instructions promises is a property of its     *)
(* pieces, a fragment, which concatenation preserves; the call stack of    *)
(* _compile holds the labels that are still to be placed.                  *)
(***************************************************************************)
EXTENDS BpfCodegen, FiniteSetTheorems, TLAPS

(* A piece b of the stream in which exactly the labels of L stand, each    *)
(* once, and in which every jump goes to a label that stands behind it or  *)
(* to one of T, which stands behind the piece, and follows its own load.   *)
Fragment(b, T, L) ==
    /\ b \in Seq(Items)
    /\ \A i \in DOMAIN b : b[i].code = "label" =>
           b[i].jt \in L /\ b[i] = Label(b[i].jt)
    /\ \A l \in L : \E i \in DOMAIN b : b[i] = Label(l)
    /\ \A i, j \in DOMAIN b : b[i].code = "label" /\ b[i] = b[j] => i = j
    /\ \A i \in DOMAIN b : b[i].code \notin Jumps \cup {"label"} =>
           b[i].jt = 0 /\ b[i].jf = 0
    /\ \A i \in DOMAIN b : b[i].code \in Jumps =>
           \A l \in {b[i].jt, b[i].jf} :
               l \in T \/ \E j \in DOMAIN b : j > i /\ b[j] = Label(l)
    /\ \A i \in DOMAIN b : b[i].code \in Jumps =>
           i - 1 \in DOMAIN b /\ b[i - 1].code \in AccLoads

-----------------------------------------------------------------------------
(* Labels are items, and only equal labels make equal items.               *)
LEMMA LabelFacts ==
    ASSUME NEW l \in Nat
    PROVE  /\ Label(l) \in Items
           /\ Label(l).code = "label"
           /\ Label(l).jt = l /\ Label(l).jf = l
           /\ \A m : Label(m) = Label(l) => m = l
    BY DEF Label, Items

(* So are instructions that do not jump, and jumps.                        *)
LEMMA InsnFacts ==
    ASSUME NEW c \in Codes, NEW k \in Nat, NEW t \in Nat, NEW f \in Nat
    PROVE  /\ PInsn(c, k) \in Items
           /\ PInsn(c, k).code = c /\ PInsn(c, k).jt = 0 /\ PInsn(c, k).jf = 0
           /\ Jump(c, k, t, f) \in Items
           /\ Jump(c, k, t, f).code = c
           /\ Jump(c, k, t, f).jt = t /\ Jump(c, k, t, f).jf = f
    BY DEF PInsn, Jump, Items

(* A fragment may be given more labels to jump to.                         *)
LEMMA FragmentWeaken ==
    ASSUME NEW b, NEW T, NEW U, NEW L, Fragment(b, T, L), T \subseteq U
    PROVE  Fragment(b, U, L)
    BY DEF Fragment

(* Where the elements of a concatenation come from.                        *)
LEMMA ConcatElements ==
    ASSUME NEW S, NEW a \in Seq(S), NEW b \in Seq(S)
    PROVE  /\ a \o b \in Seq(S)
           /\ \A i \in DOMAIN a : i \in DOMAIN (a \o b) /\ (a \o b)[i] = a[i]
           /\ \A i \in DOMAIN b : /\ Len(a) + i \in DOMAIN (a \o b)
                                  /\ (a \o b)[Len(a) + i] = b[i]
           /\ \A i \in DOMAIN (a \o b) :
                  \/ i \in DOMAIN a /\ (a \o b)[i] = a[i]
                  \/ /\ i > Len(a) /\ i - Len(a) \in DOMAIN b
                     /\ (a \o b)[i] = b[i - Len(a)]
    OBVIOUS

(* Fragments compose: the second places labels that the first jumps to.    *)
LEMMA FragmentConcat ==
    ASSUME NEW a, NEW b, NEW T, NEW U, NEW V, NEW L, NEW M,
           Fragment(a, T, L), Fragment(b, U, M),
           L \cap M = {}, T \subseteq V \cup M, U \subseteq V
    PROVE  Fragment(a \o b, V, L \cup M)
<1> DEFINE c == a \o b
<1>1. a \in Seq(Items) /\ b \in Seq(Items)
    BY DEF Fragment
<1>2. /\ c \in Seq(Items)
      /\ \A i \in DOMAIN a : i \in DOMAIN c /\ c[i] = a[i]
      /\ \A i \in DOMAIN b : Len(a) + i \in DOMAIN c /\ c[Len(a) + i] = b[i]
      /\ \A i \in DOMAIN c :
             \/ i \in DOMAIN a /\ c[i] = a[i]
             \/ i > Len(a) /\ i - Len(a) \in DOMAIN b /\ c[i] = b[i - Len(a)]
    BY <1>1, ConcatElements
<1>3. /\ DOMAIN a \subseteq Nat /\ DOMAIN b \subseteq Nat
      /\ DOMAIN c \subseteq Nat /\ Len(a) \in Nat
      /\ \A i \in DOMAIN a : i <= Len(a)
      /\ \A i \in DOMAIN b : i >= 1
    BY <1>1, <1>2
<1> HIDE DEF c
<1>4. \A i \in DOMAIN c : c[i].code = "label" =>
          c[i].jt \in L \cup M /\ c[i] = Label(c[i].jt)
    BY <1>2 DEF Fragment
<1>5. \A l \in L \cup M : \E i \in DOMAIN c : c[i] = Label(l)
    BY <1>2 DEF Fragment
<1>6. \A i, j \in DOMAIN c : c[i].code = "label" /\ c[i] = c[j] => i = j
  <2> SUFFICES ASSUME NEW i \in DOMAIN c, NEW j \in DOMAIN c,
                      c[i].code = "label", c[i] = c[j]
               PROVE  i = j
      OBVIOUS
  <2>1. CASE i \in DOMAIN a /\ c[i] = a[i]
    <3>1. c[i].jt \in L
        BY <2>1 DEF Fragment
    <3>2. ASSUME j - Len(a) \in DOMAIN b, c[j] = b[j - Len(a)] PROVE FALSE
        BY <3>1, <3>2 DEF Fragment
    <3> QED BY <1>2, <2>1, <3>2 DEF Fragment
  <2>2. CASE i > Len(a) /\ i - Len(a) \in DOMAIN b /\ c[i] = b[i - Len(a)]
    <3>1. c[i].jt \in M
        BY <2>2 DEF Fragment
    <3>2. ASSUME j \in DOMAIN a, c[j] = a[j] PROVE FALSE
        BY <3>1, <3>2 DEF Fragment
    <3>3. j > Len(a) /\ j - Len(a) \in DOMAIN b /\ c[j] = b[j - Len(a)]
        BY <1>2, <3>2
    <3>4. \A x, y \in DOMAIN b : b[x].code = "label" /\ b[x] = b[y] => x = y
        BY DEF Fragment
    <3> DEFINE x == i - Len(a)
               y == j - Len(a)
    <3>5. /\ x \in DOMAIN b /\ y \in DOMAIN b
          /\ b[x].code = "label" /\ b[x] = b[y]
        BY <2>2, <3>3
    <3> HIDE DEF x, y
    <3>6. x = y
        BY <3>4, <3>5
    <3> QED BY <3>6, <1>3 DEF x, y
  <2> QED BY <1>2, <2>1, <2>2
<1>7. \A i \in DOMAIN c : c[i].code \notin Jumps \cup {"label"} =>
          c[i].jt = 0 /\ c[i].jf = 0
    BY <1>2 DEF Fragment
<1>8. ASSUME NEW i \in DOMAIN c, c[i].code \in Jumps, NEW l \in {c[i].jt, c[i].jf}
      PROVE  l \in V \/ \E j \in DOMAIN c : j > i /\ c[j] = Label(l)
  <2>1. CASE i \in DOMAIN a /\ c[i] = a[i]
    <3>1. l \in T \/ \E j \in DOMAIN a : j > i /\ a[j] = Label(l)
        BY <1>8, <2>1 DEF Fragment
    <3>2. ASSUME l \in M PROVE \E j \in DOMAIN c : j > i /\ c[j] = Label(l)
      <4>1. PICK j \in DOMAIN b : b[j] = Label(l)
          BY <3>2 DEF Fragment
      <4>2. Len(a) + j > i
          BY <1>3, <2>1
      <4> QED BY <1>2, <4>1, <4>2
    <3> QED BY <1>2, <3>1, <3>2
  <2>2. CASE i > Len(a) /\ i - Len(a) \in DOMAIN b /\ c[i] = b[i - Len(a)]
    <3>1. l \in U \/ \E j \in DOMAIN b : j > i - Len(a) /\ b[j] = Label(l)
        BY <1>8, <2>2 DEF Fragment
    <3>2. ASSUME NEW j \in DOMAIN b, j > i - Len(a), b[j] = Label(l)
          PROVE  \E m \in DOMAIN c : m > i /\ c[m] = Label(l)
      <4>1. Len(a) + j > i
          BY <1>3, <3>2
      <4> QED BY <1>2, <3>2, <4>1
    <3> QED BY <3>1, <3>2
  <2> QED BY <1>2, <2>1, <2>2
<1>9. ASSUME NEW i \in DOMAIN c, c[i].code \in Jumps
      PROVE  i - 1 \in DOMAIN c /\ c[i - 1].code \in AccLoads
  <2>1. CASE i \in DOMAIN a /\ c[i] = a[i]
      BY <1>2, <1>9, <2>1 DEF Fragment
  <2>2. CASE i > Len(a) /\ i - Len(a) \in DOMAIN b /\ c[i] = b[i - Len(a)]
    <3>1. (i - Len(a)) - 1 \in DOMAIN b /\ b[(i - Len(a)) - 1].code \in AccLoads
        BY <1>9, <2>2 DEF Fragment
    <3>2. Len(a) + ((i - Len(a)) - 1) = i - 1
        BY <1>3
    <3> QED BY <1>2, <3>1, <3>2
  <2> QED BY <1>2, <2>1, <2>2
<1>10. Fragment(c, V, L \cup M)
    BY <1>2, <1>4, <1>5, <1>6, <1>7, <1>8, <1>9 DEF Fragment
<1> QED BY <1>10 DEF c

(* A label by itself, and a load followed by a comparison.                 *)
LEMMA FragmentLabel ==
    ASSUME NEW l \in Nat
    PROVE  Fragment(<<Label(l)>>, {}, {l})
    BY LabelFacts DEF Fragment, Jumps

LEMMA FragmentTestAt ==
    ASSUME NEW c \in {"ldh", "ldb", "ldw", "ldhx"}, NEW o \in Nat, NEW v \in Nat,
           NEW t \in Nat, NEW f \in Nat
    PROVE  Fragment(TestAt(c, o, v, t, f), {t, f}, {})
<1>1. c \in Codes /\ "jeq" \in Codes /\ c # "label" /\ c \notin Jumps
    BY DEF Codes, Jumps
<1> DEFINE p == PInsn(c, o)  q == Jump("jeq", v, t, f)
<1>2. /\ p \in Items /\ p.code = c /\ p.jt = 0 /\ p.jf = 0
      /\ q \in Items /\ q.code = "jeq" /\ q.jt = t /\ q.jf = f
    BY <1>1, InsnFacts
<1> HIDE DEF p, q
<1>3. /\ <<p, q>> \in Seq(Items) /\ DOMAIN <<p, q>> = {1, 2}
      /\ <<p, q>>[1] = p /\ <<p, q>>[2] = q
    BY <1>2
<1>4. q.code # "label" /\ q.code \in Jumps /\ p.code # "label" /\ p.code \notin Jumps
    BY <1>1, <1>2 DEF Jumps
<1>5. 2 - 1 = 1 /\ p.code \in AccLoads
    BY <1>2 DEF AccLoads
<1>6. Fragment(<<p, q>>, {t, f}, {})
    BY <1>2, <1>3, <1>4, <1>5, Zenon DEF Fragment
<1> QED BY <1>6 DEF TestAt, p, q

(* The stream goes on with a label and a piece that places none.           *)
LEMMA FragmentExtend ==
    ASSUME NEW p, NEW T, NEW L, NEW q, NEW W, NEW U, NEW M, NEW l \in Nat,
           Fragment(p, T, L), Fragment(q, W, {}),
           l \notin L, T \subseteq U \cup {l}, W \subseteq U, M = L \cup {l}
    PROVE  Fragment(p \o <<Label(l)>> \o q, U, M)
<1>1. Fragment(<<Label(l)>>, {}, {l}) /\ L \cap {l} = {}
    BY FragmentLabel
<1>2. Fragment(p \o <<Label(l)>>, U, L \cup {l})
    BY <1>1, FragmentConcat
<1>3. (L \cup {l}) \cap {} = {} /\ U \subseteq U \cup {} /\ (L \cup {l}) \cup {} = M
    OBVIOUS
<1>4. Fragment((p \o <<Label(l)>>) \o q, U, (L \cup {l}) \cup {})
    BY <1>2, <1>3, FragmentConcat, Zenon
<1> QED BY <1>3, <1>4, Zenon

-----------------------------------------------------------------------------
(* The primitives.  Each compiles to a fragment whose jumps leave it only  *)
(* for its two continuations, and whose labels are fresh.                  *)
LEMMA FragmentTcpOrUdp ==
    ASSUME NEW v \in Nat, NEW t \in Nat, NEW f \in Nat, NEW n \in Nat
    PROVE  Fragment(CompileTcpOrUdp(v, t, f, n), {t, f},
                    {n + 1, n + 2, n + 3, n + 4, n + 5})
<1> DEFINE p1 == TestAt("ldh", 12, IPV6, n + 1, n + 2)
           q2 == TestAt("ldb", 20, v, t, n + 3)
           q3 == TestAt("ldb", 20, FRAGMENT_EXT_HEADER, n + 4, f)
           q4 == TestAt("ldb", 54, v, t, f)
           q5 == TestAt("ldh", 12, IPV4, n + 5, f)
           q6 == TestAt("ldb", 23, v, t, f)
           p2 == p1 \o <<Label(n + 1)>> \o q2
           p3 == p2 \o <<Label(n + 3)>> \o q3
           p4 == p3 \o <<Label(n + 4)>> \o q4
           p5 == p4 \o <<Label(n + 2)>> \o q5
           p6 == p5 \o <<Label(n + 5)>> \o q6
           T1 == {n + 1, n + 2}  L1 == {}
           T2 == {n + 2, n + 3, t}  L2 == {n + 1}
           T3 == {n + 2, n + 4, t, f}  L3 == {n + 1, n + 3}
           T4 == {n + 2, t, f}  L4 == {n + 1, n + 3, n + 4}
           T5 == {n + 5, t, f}  L5 == {n + 1, n + 2, n + 3, n + 4}
           T6 == {t, f}  L6 == {n + 1, n + 2, n + 3, n + 4, n + 5}
           W2 == {t, n + 3}
           W3 == {n + 4, f}
           W4 == {t, f}
           W5 == {n + 5, f}
           W6 == {t, f}
<1>0. /\ IPV6 \in Nat /\ IPV4 \in Nat /\ FRAGMENT_EXT_HEADER \in Nat
      /\ n + 1 \in Nat /\ n + 2 \in Nat /\ n + 3 \in Nat /\ n + 4 \in Nat
      /\ n + 5 \in Nat
    BY DEF IPV4, IPV6, FRAGMENT_EXT_HEADER
<1>1. Fragment(p1, T1, L1)
    BY <1>0, FragmentTestAt
<1>q. /\ Fragment(q2, W2, {}) /\ Fragment(q3, W3, {}) /\ Fragment(q4, W4, {})
      /\ Fragment(q5, W5, {}) /\ Fragment(q6, W6, {})
    BY <1>0, FragmentTestAt
<1>s2. n + 1 \notin L1 /\ T1 \subseteq T2 \cup {n + 1} /\ W2 \subseteq T2 /\ L2 = L1 \cup {n + 1}
    OBVIOUS
<1>s3. n + 3 \notin L2 /\ T2 \subseteq T3 \cup {n + 3} /\ W3 \subseteq T3 /\ L3 = L2 \cup {n + 3}
    OBVIOUS
<1>s4. n + 4 \notin L3 /\ T3 \subseteq T4 \cup {n + 4} /\ W4 \subseteq T4 /\ L4 = L3 \cup {n + 4}
    OBVIOUS
<1>s5. n + 2 \notin L4 /\ T4 \subseteq T5 \cup {n + 2} /\ W5 \subseteq T5 /\ L5 = L4 \cup {n + 2}
    OBVIOUS
<1>s6. n + 5 \notin L5 /\ T5 \subseteq T6 \cup {n + 5} /\ W6 \subseteq T6 /\ L6 = L5 \cup {n + 5}
    OBVIOUS
<1> HIDE DEF p1, q2, q3, q4, q5, q6, T1, T2, T3, T4, T5, T6, L1, L2, L3, L4, L5, L6,
             W2, W3, W4, W5, W6
<1>2. Fragment(p2, T2, L2)
    BY <1>0, <1>q, <1>1, <1>s2, FragmentExtend, Zenon
<1> HIDE DEF p2
<1>3. Fragment(p3, T3, L3)
    BY <1>0, <1>q, <1>2, <1>s3, FragmentExtend, Zenon
<1> HIDE DEF p3
<1>4. Fragment(p4, T4, L4)
    BY <1>0, <1>q, <1>3, <1>s4, FragmentExtend, Zenon
<1> HIDE DEF p4
<1>5. Fragment(p5, T5, L5)
    BY <1>0, <1>q, <1>4, <1>s5, FragmentExtend, Zenon
<1> HIDE DEF p5
<1>6. Fragment(p6, T6, L6)
    BY <1>0, <1>q, <1>5, <1>s6, FragmentExtend, Zenon
<1> HIDE DEF p6
<1> QED BY <1>6 DEF CompileTcpOrUdp, p1, p2, p3, p4, p5, p6, q2, q3, q4, q5, q6,
                    T6, L6

LEMMA FragmentProto ==
    ASSUME NEW name \in {"ip", "arp", "ip6", "icmp", "tcp", "udp"},
           NEW t \in Nat, NEW f \in Nat, NEW n \in Nat
    PROVE  \E L \in SUBSET (n + 1 .. n + 5) :
               Fragment(CompileProto(name, t, f, n), {t, f}, L)
<1>0. IPV6 \in Nat /\ IPV4 \in Nat /\ ARP \in Nat /\ ICMP \in Nat
      /\ TCP \in Nat /\ UDP \in Nat
    BY DEF IPV4, IPV6, ARP, ICMP, TCP, UDP
<1> DEFINE S == n + 1 .. n + 5
<1>1. {} \in SUBSET S /\ {n + 1} \in SUBSET S
      /\ {n + 1, n + 2, n + 3, n + 4, n + 5} \in SUBSET S
    OBVIOUS
<1> HIDE DEF S
<1>2. CASE name \in {"ip", "arp", "ip6"}
  <2>1. Fragment(CompileProto(name, t, f, n), {t, f}, {})
      BY <1>0, <1>2, FragmentTestAt DEF CompileProto
  <2> QED BY <1>1, <2>1 DEF S
<1>3. CASE name = "icmp"
  <2> DEFINE p == TestAt("ldh", 12, IPV4, n + 1, f)
             q == TestAt("ldb", 23, ICMP, t, f)
             T == {n + 1, f}  U == {t, f}  E == {}  M == {n + 1}
  <2>1. Fragment(p, T, E) /\ Fragment(q, U, {})
      BY <1>0, FragmentTestAt
  <2>2. CompileProto(name, t, f, n) = p \o <<Label(n + 1)>> \o q
      BY <1>3 DEF CompileProto
  <2>3. /\ n + 1 \in Nat /\ n + 1 \notin E /\ M = E \cup {n + 1}
        /\ T \subseteq U \cup {n + 1} /\ U \subseteq U
      OBVIOUS
  <2> HIDE DEF p, q, T, U, E, M
  <2>4. Fragment(p \o <<Label(n + 1)>> \o q, U, M)
      BY <2>1, <2>3, FragmentExtend, Zenon
  <2>5. Fragment(CompileProto(name, t, f, n), U, M)
      BY <2>2, <2>4, Zenon
  <2> QED BY <1>1, <2>5 DEF S, U, M
<1>4. CASE name \in {"tcp", "udp"}
  <2>1. Fragment(CompileProto(name, t, f, n), {t, f},
                 {n + 1, n + 2, n + 3, n + 4, n + 5})
      BY <1>0, <1>4, FragmentTcpOrUdp DEF CompileProto
  <2> QED BY <1>1, <2>1 DEF S
<1> QED BY <1>2, <1>3, <1>4

LEMMA FragmentCompareFields ==
    ASSUME NEW c \in AccLoads, NEW src \in Nat, NEW dst \in Nat,
           NEW dir \in {"any", "src", "dst"}, NEW v \in Nat,
           NEW t \in Nat, NEW f \in Nat, NEW n \in Nat
    PROVE  \E L \in SUBSET {n + 1} :
               Fragment(CompareFields(c, src, dst, dir, v, t, f, n), {t, f}, L)
<1>1. CASE dir \in {"src", "dst"}
  <2>1. Fragment(CompareFields(c, src, dst, dir, v, t, f, n), {t, f}, {})
      BY <1>1, FragmentTestAt DEF CompareFields, AccLoads
  <2> QED BY <2>1
<1>2. CASE dir = "any"
  <2> DEFINE p == TestAt(c, src, v, t, n + 1)
             q == TestAt(c, dst, v, t, f)
             T == {t, n + 1}  U == {t, f}  E == {}  M == {n + 1}
  <2>1. Fragment(p, T, E) /\ Fragment(q, U, {})
      BY FragmentTestAt DEF AccLoads
  <2>2. CompareFields(c, src, dst, dir, v, t, f, n) = p \o <<Label(n + 1)>> \o q
      BY <1>2 DEF CompareFields
  <2>3. /\ n + 1 \in Nat /\ n + 1 \notin E /\ M = E \cup {n + 1}
        /\ T \subseteq U \cup {n + 1} /\ U \subseteq U
      OBVIOUS
  <2> HIDE DEF p, q, T, U, E, M
  <2>4. Fragment(p \o <<Label(n + 1)>> \o q, U, M)
      BY <2>1, <2>3, FragmentExtend, Zenon
  <2>5. Fragment(CompareFields(c, src, dst, dir, v, t, f, n), U, M)
      BY <2>2, <2>4, Zenon
  <2> QED BY <2>5 DEF U, M
<1> QED BY <1>1, <1>2

LEMMA FragmentHost ==
    ASSUME NEW addr \in Nat, NEW dir \in {"any", "src", "dst"},
           NEW t \in Nat, NEW f \in Nat, NEW n \in Nat
    PROVE  \E L \in SUBSET {n + 1, n + 2} :
               Fragment(CompileHost(addr, dir, t, f, n), {t, f}, L)
<1> DEFINE a == TestAt("ldh", 12, IPV4, n + 1, f) \o <<Label(n + 1)>>
           b == CompareFields("ldw", 26, 30, dir, addr, t, f, n + 1)
<1>1. IPV4 \in Nat /\ "ldw" \in AccLoads /\ n + 1 \in Nat /\ (n + 1) + 1 = n + 2
    BY DEF IPV4, AccLoads
<1>2. Fragment(TestAt("ldh", 12, IPV4, n + 1, f), {n + 1, f}, {})
    BY <1>1, FragmentTestAt
<1>3. Fragment(<<Label(n + 1)>>, {}, {n + 1})
    BY <1>1, FragmentLabel
<1>4. Fragment(a, {f}, {} \cup {n + 1})
  <2>1. {} \cap {n + 1} = {} /\ {n + 1, f} \subseteq {f} \cup {n + 1}
      OBVIOUS
  <2> QED BY <1>2, <1>3, <2>1, FragmentConcat
<1>5. PICK L \in SUBSET {(n + 1) + 1} : Fragment(b, {t, f}, L)
  <2> DEFINE m == n + 1
  <2>1. m \in Nat /\ 26 \in Nat /\ 30 \in Nat
      OBVIOUS
  <2> HIDE DEF m
  <2>2. \E L \in SUBSET {m + 1} :
            Fragment(CompareFields("ldw", 26, 30, dir, addr, t, f, m), {t, f}, L)
      BY <1>1, <2>1, FragmentCompareFields
  <2> QED BY <2>2, Zenon DEF m
<1> HIDE DEF a, b
<1>6. ({} \cup {n + 1}) \cap L = {} /\ {f} \subseteq {t, f} \cup L
    BY <1>1
<1>7. Fragment(a \o b, {t, f}, ({} \cup {n + 1}) \cup L)
    BY <1>4, <1>5, <1>6, FragmentConcat
<1>8. ({} \cup {n + 1}) \cup L \in SUBSET {n + 1, n + 2}
    BY <1>1
<1>9. Fragment(CompileHost(addr, dir, t, f, n), {t, f}, ({} \cup {n + 1}) \cup L)
    BY <1>7, Zenon DEF CompileHost, a, b
<1> QED BY <1>8, <1>9, Zenon

LEMMA FragmentTransport ==
    ASSUME NEW o \in Nat, NEW f \in Nat, NEW n \in Nat
    PROVE  Fragment(TransportAt(o, f, n), {f}, {n + 1, n + 2})
<1> DEFINE p == TestAt("ldb", o, TCP, n + 2, n + 1)
           q == TestAt("ldb", o, UDP, n + 2, f)
           T == {n + 2, n + 1}  U == {n + 2, f}  E == {}  M == {n + 1}
           b == p \o <<Label(n + 1)>> \o q
<1>1. TCP \in Nat /\ UDP \in Nat /\ n + 1 \in Nat /\ n + 2 \in Nat
    BY DEF TCP, UDP
<1>2. Fragment(p, T, E) /\ Fragment(q, U, {})
    BY <1>1, FragmentTestAt
<1>3. /\ n + 1 \notin E /\ M = E \cup {n + 1}
      /\ T \subseteq U \cup {n + 1} /\ U \subseteq U
    OBVIOUS
<1> HIDE DEF p, q, T, U, E, M
<1>4. Fragment(b, U, M)
    BY <1>1, <1>2, <1>3, FragmentExtend, Zenon
<1> HIDE DEF b
<1>5. Fragment(<<Label(n + 2)>>, {}, {n + 2})
    BY <1>1, FragmentLabel
<1>6. /\ M \cap {n + 2} = {} /\ U \subseteq {f} \cup {n + 2}
      /\ M \cup {n + 2} = {n + 1, n + 2}
    BY DEF M, U
<1>7. Fragment(b \o <<Label(n + 2)>>, {f}, M \cup {n + 2})
    BY <1>4, <1>5, <1>6, FragmentConcat
<1>8. Fragment(b \o <<Label(n + 2)>>, {f}, {n + 1, n + 2})
    BY <1>6, <1>7, Zenon
<1> QED BY <1>8 DEF TransportAt, b, p, q

LEMMA FragmentPortV6 ==
    ASSUME NEW port \in Nat, NEW dir \in {"any", "src", "dst"},
           NEW t \in Nat, NEW f \in Nat, NEW n \in Nat
    PROVE  \E L \in SUBSET (n + 1 .. n + 3) :
               Fragment(CompilePortV6(port, dir, t, f, n), {t, f}, L)
<1> DEFINE m == n + 2
           a == TransportAt(20, f, n)
           b == CompareFields("ldh", 54, 56, dir, port, t, f, m)
           A == {n + 1, n + 2}
<1>1. m \in Nat /\ "ldh" \in AccLoads
    BY DEF AccLoads
<1>2. Fragment(a, {f}, A)
    BY FragmentTransport
<1> HIDE DEF m, a
<1>3. PICK L \in SUBSET {m + 1} : Fragment(b, {t, f}, L)
    BY <1>1, FragmentCompareFields
<1> HIDE DEF b
<1>4. A \cap L = {} /\ A \cup L \in SUBSET (n + 1 .. n + 3)
    BY DEF m
<1> HIDE DEF A
<1>5. Fragment(a \o b, {t, f}, A \cup L)
    BY <1>2, <1>3, <1>4, FragmentConcat
<1>6. Fragment(CompilePortV6(port, dir, t, f, n), {t, f}, A \cup L)
    BY <1>5, Zenon DEF CompilePortV6, a, b, m
<1> QED BY <1>4, <1>6, Zenon

LEMMA FragmentPortV4 ==
    ASSUME NEW port \in Nat, NEW dir \in {"any", "src", "dst"},
           NEW t \in Nat, NEW f \in Nat, NEW n \in Nat
    PROVE  \E L \in SUBSET (n + 1 .. n + 4) :
               Fragment(CompilePortV4(port, dir, t, f, n), {t, f}, L)
<1> DEFINE m == n + 3
           a == TransportAt(23, f, n)
           w == PInsn("ldh", 20)  x == Jump("jset", FRAG_MASK, f, m)
           y == Label(m)  z == PInsn("ldxmsh", 14)
           c == <<w, x, y, z>>
           b == CompareFields("ldhx", 14, 16, dir, port, t, f, m)
           A == {n + 1, n + 2}
<1>1. m \in Nat /\ "ldhx" \in AccLoads /\ FRAG_MASK \in Nat
    BY DEF AccLoads, FRAG_MASK
<1>2. Fragment(a, {f}, A)
    BY FragmentTransport
<1> HIDE DEF m, a
<1>3. PICK L \in SUBSET {m + 1} : Fragment(b, {t, f}, L)
    BY <1>1, FragmentCompareFields
<1> HIDE DEF b
<1>4. Fragment(c, {f}, {m})
  <2>1. /\ w \in Items /\ w.code = "ldh" /\ w.jt = 0 /\ w.jf = 0
        /\ x \in Items /\ x.code = "jset" /\ x.jt = f /\ x.jf = m
        /\ z \in Items /\ z.code = "ldxmsh" /\ z.jt = 0 /\ z.jf = 0
    <3>1. "ldh" \in Codes /\ "jset" \in Codes /\ "ldxmsh" \in Codes
        BY DEF Codes
    <3> QED BY <1>1, <3>1 DEF PInsn, Jump, Items
  <2>2. y \in Items /\ y.code = "label" /\ y.jt = m /\ y = Label(m)
      BY <1>1, LabelFacts
  <2> HIDE DEF w, x, y, z
  <2>3. /\ c \in Seq(Items) /\ DOMAIN c = {1, 2, 3, 4} /\ 3 > 2
        /\ c[1] = w /\ c[2] = x /\ c[3] = y /\ c[4] = z
      BY <2>1, <2>2
  <2>4. /\ w.code \notin Jumps /\ x.code \in Jumps /\ z.code \notin Jumps
        /\ y.code \notin Jumps
        /\ w.code # "label" /\ x.code # "label" /\ z.code # "label"
      BY <2>1, <2>2 DEF Jumps
  <2> HIDE DEF c
  <2>5. \A i \in DOMAIN c : c[i].code = "label" => i = 3
      BY <2>3, <2>4
  <2>6. \A i \in DOMAIN c : c[i].code \in Jumps => i = 2
      BY <2>3, <2>4
  <2>7. \A i, j \in DOMAIN c : c[i].code = "label" /\ c[i] = c[j] => i = j
      BY <2>5
  <2>8. \A i \in DOMAIN c : c[i].code \notin Jumps \cup {"label"} =>
            c[i].jt = 0 /\ c[i].jf = 0
      BY <2>1, <2>2, <2>3, <2>4
  <2>9. \A l \in {f, m} : l \in {f} \/ \E j \in DOMAIN c : j > 2 /\ c[j] = Label(l)
      BY <2>2, <2>3
  <2>10. 2 - 1 \in DOMAIN c /\ c[2 - 1].code \in AccLoads
      BY <2>1, <2>3 DEF AccLoads
  <2> QED BY <2>1, <2>2, <2>3, <2>5, <2>6, <2>7, <2>8, <2>9, <2>10 DEF Fragment
<1> HIDE DEF c
<1>5. A \cap {m} = {} /\ (A \cup {m}) \cap L = {}
      /\ (A \cup {m}) \cup L \in SUBSET (n + 1 .. n + 4)
    BY DEF m
<1> HIDE DEF A
<1>6. Fragment(a \o c, {f}, A \cup {m})
    BY <1>2, <1>4, <1>5, FragmentConcat
<1> DEFINE B == A \cup {m}
<1> HIDE DEF B
<1>7. Fragment((a \o c) \o b, {t, f}, B \cup L)
    BY <1>3, <1>5, <1>6, FragmentConcat DEF B
<1>8. Fragment(CompilePortV4(port, dir, t, f, n), {t, f}, B \cup L)
    BY <1>7, Zenon DEF CompilePortV4, a, b, c, m, w, x, y, z
<1> QED BY <1>5, <1>8, Zenon DEF B

LEMMA FragmentPort ==
    ASSUME NEW port \in Nat, NEW dir \in {"any", "src", "dst"},
           NEW t \in Nat, NEW f \in Nat, NEW n \in Nat
    PROVE  \E L \in SUBSET (n + 1 .. n + 9) :
               Fragment(CompilePort(port, dir, t, f, n), {t, f}, L)
<1> DEFINE m == n + 2  k == n + 5
           a == TestAt("ldh", 12, IPV6, n + 1, n + 2) \o <<Label(n + 1)>>
           b == CompilePortV6(port, dir, t, f, m)
           d == CompilePortV4(port, dir, t, f, k)
           W == {t, f, n + 2}
<1>1. m \in Nat /\ k \in Nat /\ IPV6 \in Nat /\ n + 1 \in Nat /\ n + 2 \in Nat
    BY DEF IPV6
<1>2. Fragment(a, {n + 2}, {n + 1})
  <2>1. Fragment(TestAt("ldh", 12, IPV6, n + 1, n + 2), {n + 1, n + 2}, {})
      BY <1>1, FragmentTestAt
  <2>2. Fragment(<<Label(n + 1)>>, {}, {n + 1})
      BY <1>1, FragmentLabel
  <2>3. {} \cap {n + 1} = {} /\ {n + 1, n + 2} \subseteq {n + 2} \cup {n + 1}
        /\ {} \cup {n + 1} = {n + 1}
      OBVIOUS
  <2>4. Fragment(a, {n + 2}, {} \cup {n + 1})
      BY <2>1, <2>2, <2>3, FragmentConcat
  <2> QED BY <2>3, <2>4, Zenon
<1> HIDE DEF m, k, a
<1>3. PICK L \in SUBSET (m + 1 .. m + 3) : Fragment(b, {t, f}, L)
    BY <1>1, FragmentPortV6
<1>4. PICK M \in SUBSET (k + 1 .. k + 4) : Fragment(d, {t, f}, M)
    BY <1>1, FragmentPortV4
<1> HIDE DEF b, d
<1> DEFINE A == {n + 1} \cup L
           B == A \cup {n + 2}
<1>5. Fragment(a \o b, W, A)
  <2>1. {n + 1} \cap L = {} /\ {n + 2} \subseteq W \cup L /\ {t, f} \subseteq W
      BY DEF m
  <2> QED BY <1>2, <1>3, <2>1, FragmentConcat
<1>6. A \cap {n + 2} = {} /\ W \subseteq {t, f} \cup {n + 2}
    BY DEF m
<1> HIDE DEF A
<1>7. Fragment((a \o b) \o <<Label(n + 2)>>, {t, f}, B)
  <2>1. Fragment(<<Label(n + 2)>>, {}, {n + 2})
      BY <1>1, FragmentLabel
  <2> HIDE DEF W
  <2> QED BY <1>5, <1>6, <2>1, FragmentConcat
<1>8. B \cap M = {} /\ B \cup M \in SUBSET (n + 1 .. n + 9)
  <2>1. \A l \in B : l \in Nat /\ l >= n + 1 /\ l <= n + 5
      BY DEF A, m
  <2>2. \A l \in M : l \in Nat /\ l >= n + 6 /\ l <= n + 9
      BY DEF k
  <2> HIDE DEF B
  <2>3. ASSUME NEW l \in B, l \in M PROVE FALSE
      BY <2>1, <2>2, <2>3
  <2>4. ASSUME NEW l \in B \cup M PROVE l \in n + 1 .. n + 9
    <3>1. CASE l \in B
        BY <2>1, <3>1
    <3>2. CASE l \in M
        BY <2>2, <3>2
    <3> QED BY <3>1, <3>2
  <2> QED BY <2>3, <2>4, Zenon
<1> HIDE DEF B
<1>9. Fragment(((a \o b) \o <<Label(n + 2)>>) \o d, {t, f}, B \cup M)
    BY <1>4, <1>7, <1>8, FragmentConcat
<1>10. Fragment(CompilePort(port, dir, t, f, n), {t, f}, B \cup M)
    BY <1>9, Zenon DEF CompilePort, a, b, d, m, k
<1> QED BY <1>8, <1>10, Zenon

-----------------------------------------------------------------------------
(* What the parser builds: trees whose operands are trees of the same set, *)
(* over the protocols, addresses, ports and directions it accepts.         *)
Trees(S) ==
    {e \in S :
        \/ e.op = "proto" /\ e.name \in {"ip", "arp", "ip6", "icmp", "tcp", "udp"}
        \/ e.op = "host" /\ e.addr \in Nat /\ e.dir \in {"any", "src", "dst"}
        \/ e.op = "port" /\ e.port \in Nat /\ e.dir \in {"any", "src", "dst"}
        \/ e.op = "not" /\ e.operand \in S
        \/ e.op \in {"and", "or"} /\ e.left \in S /\ e.right \in S}

WellFormed(S) == S \subseteq Trees(S)

(* A primitive compiles to a fragment whose labels are the fresh ones.     *)
LEMMA FragmentBlock ==
    ASSUME NEW S, WellFormed(S), NEW e \in S, e.op \in {"proto", "host", "port"},
           NEW t \in Nat, NEW f \in Nat, NEW n \in Nat
    PROVE  \E L \in SUBSET (n + 1 .. n + LabelsPerBlock) :
               Fragment(Block(e, t, f, n), {t, f}, L)
<1>0. LabelsPerBlock = 9
    BY DEF LabelsPerBlock
<1>1. CASE e.op = "proto"
  <2>1. e.name \in {"ip", "arp", "ip6", "icmp", "tcp", "udp"}
      BY <1>1 DEF WellFormed, Trees
  <2>2. Block(e, t, f, n) = CompileProto(e.name, t, f, n)
      BY <1>1 DEF Block
  <2>3. n + 1 .. n + 5 \subseteq n + 1 .. n + 9
      OBVIOUS
  <2>4. \E L \in SUBSET (n + 1 .. n + 5) :
            Fragment(CompileProto(e.name, t, f, n), {t, f}, L)
      BY <2>1, FragmentProto
  <2> QED BY <1>0, <2>2, <2>3, <2>4, Zenon
<1>2. CASE e.op = "host"
  <2>1. e.addr \in Nat /\ e.dir \in {"any", "src", "dst"}
      BY <1>2 DEF WellFormed, Trees
  <2>2. Block(e, t, f, n) = CompileHost(e.addr, e.dir, t, f, n)
      BY <1>2 DEF Block
  <2>3. {n + 1, n + 2} \subseteq n + 1 .. n + 9
      OBVIOUS
  <2>4. \E L \in SUBSET {n + 1, n + 2} :
            Fragment(CompileHost(e.addr, e.dir, t, f, n), {t, f}, L)
      BY <2>1, FragmentHost
  <2> QED BY <1>0, <2>2, <2>3, <2>4, Zenon
<1>3. CASE e.op = "port"
  <2>1. e.port \in Nat /\ e.dir \in {"any", "src", "dst"}
      BY <1>3 DEF WellFormed, Trees
  <2>2. Block(e, t, f, n) = CompilePort(e.port, e.dir, t, f, n)
      BY <1>3 DEF Block
  <2>4. \E L \in SUBSET (n + 1 .. n + 9) :
            Fragment(CompilePort(e.port, e.dir, t, f, n), {t, f}, L)
      BY <2>1, FragmentPort
  <2> QED BY <1>0, <2>2, <2>4, Zenon
<1> QED BY <1>1, <1>2, <1>3

-----------------------------------------------------------------------------
(* The call stack.  A caller on s below position i will place label l,     *)
(* which is one of the first n.                                            *)
Owed(s, i, l, n) ==
    l \in 1..n /\ \E j \in DOMAIN s : j > i /\ s[j] = Emit(Label(l))

PromisedBy(s, l) == \E i \in DOMAIN s : s[i] = Emit(Label(l))

Calls(S) == [what : {"call"}, node : S, t : Nat, f : Nat, depth : Nat]
Emits == [what : {"emit"}, item : Items]

(* Every call's two continuations will be placed by callers below it, no   *)
(* label is to be placed twice, and a ret is at the bottom.                *)
StackOK(s, n, S) ==
    /\ s \in Seq(Calls(S) \cup Emits)
    /\ \A i \in DOMAIN s : s[i].what = "call" =>
           Owed(s, i, s[i].t, n) /\ Owed(s, i, s[i].f, n)
    /\ \A i \in DOMAIN s : s[i].what = "emit" =>
           \/ /\ s[i].item.code = "label" /\ s[i].item.jt \in 1..n
              /\ s[i] = Emit(Label(s[i].item.jt))
           \/ s[i].item.code = "ret" /\ s[i].item.jt = 0 /\ s[i].item.jf = 0
    /\ \A i, j \in DOMAIN s :
           s[i].what = "emit" /\ s[i].item.code = "label" /\ s[i] = s[j] => i = j
    /\ s # <<>> => s[Len(s)].what = "emit" /\ s[Len(s)].item.code = "ret"

(* What is to be emitted, and which label.                                 *)
LEMMA EmitFacts ==
    ASSUME NEW l \in Nat
    PROVE  /\ Emit(Label(l)) \in Emits
           /\ Emit(Label(l)).what = "emit"
           /\ Emit(Label(l)).item = Label(l)
           /\ Emit(Label(l)).item.code = "label" /\ Emit(Label(l)).item.jt = l
           /\ \A m : Emit(Label(m)) = Emit(Label(l)) => m = l
    BY LabelFacts DEF Emit, Emits

LEMMA CallFacts ==
    ASSUME NEW S, NEW e \in S, NEW t \in Nat, NEW f \in Nat, NEW d \in Nat
    PROVE  /\ Call(e, t, f, d) \in Calls(S)
           /\ Call(e, t, f, d).what = "call"
           /\ Call(e, t, f, d).t = t /\ Call(e, t, f, d).f = f
           /\ \A x : Emit(x) # Call(e, t, f, d)
    BY DEF Call, Calls, Emit

LEMMA TailElements ==
    ASSUME NEW S, NEW s \in Seq(S), s # <<>>
    PROVE  /\ Tail(s) \in Seq(S) /\ 1 \in DOMAIN s
           /\ Len(Tail(s)) = Len(s) - 1
           /\ \A i \in DOMAIN Tail(s) : i + 1 \in DOMAIN s /\ Tail(s)[i] = s[i + 1]
           /\ \A i \in DOMAIN s : i # 1 =>
                  i - 1 \in DOMAIN Tail(s) /\ Tail(s)[i - 1] = s[i]
    OBVIOUS

LEMMA ConsElements ==
    ASSUME NEW S, NEW s \in Seq(S), NEW x \in S
    PROVE  /\ <<x>> \o s \in Seq(S) /\ (<<x>> \o s)[1] = x
           /\ 1 \in DOMAIN (<<x>> \o s)
           /\ Len(<<x>> \o s) = Len(s) + 1
           /\ \A i \in DOMAIN s : /\ i + 1 \in DOMAIN (<<x>> \o s)
                                  /\ (<<x>> \o s)[i + 1] = s[i]
           /\ \A i \in DOMAIN (<<x>> \o s) : i # 1 =>
                  i - 1 \in DOMAIN s /\ (<<x>> \o s)[i] = s[i - 1]
    OBVIOUS

(* The label that is being placed is the only one no longer promised.      *)
LEMMA PromisedTail ==
    ASSUME NEW S, NEW n \in Nat, NEW s, StackOK(s, n, S), s # <<>>, NEW l
    PROVE  PromisedBy(Tail(s), l) <=> PromisedBy(s, l) /\ s[1] # Emit(Label(l))
<1>1. s \in Seq(Calls(S) \cup Emits)
    BY DEF StackOK
<1> DEFINE u == Tail(s)
<1>2. /\ 1 \in DOMAIN s
      /\ \A i \in DOMAIN u : i + 1 \in DOMAIN s /\ u[i] = s[i + 1]
      /\ \A i \in DOMAIN s : i # 1 => i - 1 \in DOMAIN u /\ u[i - 1] = s[i]
      /\ \A i \in DOMAIN u : i + 1 # 1
  <2>1. u \in Seq(Calls(S) \cup Emits)
      BY <1>1, TailElements
  <2> HIDE DEF u
  <2>2. \A i \in DOMAIN u : i + 1 # 1
      BY <2>1
  <2> QED BY <1>1, <2>2, TailElements DEF u
<1> HIDE DEF u
<1>3. ASSUME PromisedBy(u, l) PROVE PromisedBy(s, l) /\ s[1] # Emit(Label(l))
  <2>1. PICK i \in DOMAIN u : u[i] = Emit(Label(l))
      BY <1>3 DEF PromisedBy
  <2>2. i + 1 \in DOMAIN s /\ s[i + 1] = Emit(Label(l)) /\ i + 1 # 1
      BY <1>2, <2>1
  <2>3. s[i + 1].what = "emit" /\ s[i + 1].item.code = "label"
      BY <2>2 DEF Emit, Label
  <2>4. s[1] # s[i + 1]
      BY <1>2, <2>2, <2>3 DEF StackOK
  <2> QED BY <2>2, <2>4 DEF PromisedBy
<1>4. ASSUME PromisedBy(s, l), s[1] # Emit(Label(l)) PROVE PromisedBy(u, l)
  <2>1. PICK i \in DOMAIN s : s[i] = Emit(Label(l))
      BY <1>4 DEF PromisedBy
  <2> QED BY <1>2, <1>4, <2>1 DEF PromisedBy
<1> QED BY <1>3, <1>4 DEF u

LEMMA PromisedCons ==
    ASSUME NEW S, NEW s \in Seq(S), NEW x \in S, NEW l
    PROVE  PromisedBy(<<x>> \o s, l) <=> x = Emit(Label(l)) \/ PromisedBy(s, l)
<1> DEFINE u == <<x>> \o s
<1>1. /\ u[1] = x /\ 1 \in DOMAIN u
      /\ \A i \in DOMAIN s : i + 1 \in DOMAIN u /\ u[i + 1] = s[i]
      /\ \A i \in DOMAIN u : i # 1 => i - 1 \in DOMAIN s /\ u[i] = s[i - 1]
    BY ConsElements
<1> HIDE DEF u
<1>2. PromisedBy(u, l) <=> x = Emit(Label(l)) \/ PromisedBy(s, l)
    BY <1>1 DEF PromisedBy
<1> QED BY <1>2 DEF u

(* Only labels that exist are promised.                                    *)
LEMMA PromisedExists ==
    ASSUME NEW S, NEW n \in Nat, NEW s, StackOK(s, n, S), NEW l \in Nat,
           PromisedBy(s, l)
    PROVE  l \in 1..n
<1>1. PICK i \in DOMAIN s : s[i] = Emit(Label(l))
    BY DEF PromisedBy
<1>2. s[i].what = "emit" /\ s[i].item.code = "label" /\ s[i].item.jt = l
    BY <1>1, EmitFacts
<1>3. "label" # "ret"
    OBVIOUS
<1> QED BY <1>2, <1>3 DEF StackOK

(* The stack stays in order when its first entry is done.                  *)
LEMMA StackPop ==
    ASSUME NEW S, NEW n \in Nat, NEW m \in Nat, n <= m,
           NEW s, StackOK(s, n, S), s # <<>>
    PROVE  StackOK(Tail(s), m, S)
<1> DEFINE u == Tail(s)
<1>1. s \in Seq(Calls(S) \cup Emits)
    BY DEF StackOK
<1>2. /\ u \in Seq(Calls(S) \cup Emits) /\ 1 \in DOMAIN s
      /\ Len(u) = Len(s) - 1
      /\ \A i \in DOMAIN u : i + 1 \in DOMAIN s /\ u[i] = s[i + 1]
      /\ \A i \in DOMAIN s : i # 1 => i - 1 \in DOMAIN u /\ u[i - 1] = s[i]
    BY <1>1, TailElements
<1> HIDE DEF u
<1>3. DOMAIN u \subseteq Nat /\ DOMAIN s \subseteq Nat
    BY <1>1, <1>2
<1>4. 1..n \subseteq 1..m
    OBVIOUS
<1>5. ASSUME NEW i \in DOMAIN u, NEW l, Owed(s, i + 1, l, n)
      PROVE  Owed(u, i, l, m)
  <2>1. l \in 1..m
      BY <1>4, <1>5 DEF Owed
  <2>2. PICK j \in DOMAIN s : j > i + 1 /\ s[j] = Emit(Label(l))
      BY <1>5 DEF Owed
  <2>3. j # 1 /\ j - 1 > i
      BY <1>3, <2>2
  <2> QED BY <1>2, <2>1, <2>2, <2>3 DEF Owed
<1>6. \A i \in DOMAIN u : u[i].what = "call" =>
          Owed(u, i, u[i].t, m) /\ Owed(u, i, u[i].f, m)
    BY <1>2, <1>5 DEF StackOK
<1>7. \A i \in DOMAIN u : u[i].what = "emit" =>
          \/ /\ u[i].item.code = "label" /\ u[i].item.jt \in 1..m
             /\ u[i] = Emit(Label(u[i].item.jt))
          \/ u[i].item.code = "ret" /\ u[i].item.jt = 0 /\ u[i].item.jf = 0
    BY <1>2, <1>4 DEF StackOK
<1>8. ASSUME NEW i \in DOMAIN u, NEW j \in DOMAIN u,
             u[i].what = "emit", u[i].item.code = "label", u[i] = u[j]
      PROVE  i = j
  <2>1. i + 1 = j + 1
      BY <1>2, <1>8 DEF StackOK
  <2> QED BY <1>3, <2>1
<1>9. u # <<>> => u[Len(u)].what = "emit" /\ u[Len(u)].item.code = "ret"
  <2>1. ASSUME u # <<>> PROVE Len(u) \in DOMAIN u /\ Len(u) + 1 = Len(s)
      BY <1>1, <1>2, <2>1
  <2> QED BY <1>2, <2>1 DEF StackOK
<1>10. StackOK(u, m, S)
    BY <1>2, <1>6, <1>7, <1>8, <1>9 DEF StackOK
<1> QED BY <1>10 DEF u

(* A call is put on the stack: its continuations are owed below.           *)
LEMMA StackPushCall ==
    ASSUME NEW S, NEW n \in Nat, NEW s, StackOK(s, n, S), NEW c \in Calls(S),
           c.t \in 1..n, c.f \in 1..n, PromisedBy(s, c.t), PromisedBy(s, c.f)
    PROVE  StackOK(<<c>> \o s, n, S)
<1> DEFINE u == <<c>> \o s
<1>1. s \in Seq(Calls(S) \cup Emits) /\ c.what = "call"
    BY DEF StackOK, Calls
<1>2. /\ u \in Seq(Calls(S) \cup Emits) /\ u[1] = c /\ 1 \in DOMAIN u
      /\ Len(u) = Len(s) + 1
      /\ \A i \in DOMAIN s : i + 1 \in DOMAIN u /\ u[i + 1] = s[i]
      /\ \A i \in DOMAIN u : i # 1 => i - 1 \in DOMAIN s /\ u[i] = s[i - 1]
    BY <1>1, ConsElements
<1> HIDE DEF u
<1>3. /\ DOMAIN u \subseteq Nat /\ DOMAIN s \subseteq Nat
      /\ \A i \in DOMAIN s : i >= 1
    BY <1>1, <1>2
<1>4. ASSUME NEW l \in 1..n, PromisedBy(s, l) PROVE Owed(u, 1, l, n)
  <2>1. PICK j \in DOMAIN s : s[j] = Emit(Label(l))
      BY <1>4 DEF PromisedBy
  <2>2. j + 1 > 1
      BY <1>3
  <2> QED BY <1>2, <2>1, <2>2 DEF Owed
<1>5. ASSUME NEW i \in DOMAIN s, NEW l, Owed(s, i, l, n)
      PROVE  Owed(u, i + 1, l, n)
  <2>1. PICK j \in DOMAIN s : j > i /\ s[j] = Emit(Label(l))
      BY <1>5 DEF Owed
  <2>2. j + 1 > i + 1
      BY <1>3, <2>1
  <2> QED BY <1>2, <1>5, <2>1, <2>2 DEF Owed
<1>6. ASSUME NEW i \in DOMAIN u, u[i].what = "call"
      PROVE  Owed(u, i, u[i].t, n) /\ Owed(u, i, u[i].f, n)
  <2>1. CASE i = 1
      BY <1>2, <1>4, <2>1
  <2>2. CASE i # 1
    <3>1. i - 1 \in DOMAIN s /\ u[i] = s[i - 1] /\ (i - 1) + 1 = i
        BY <1>2, <1>3, <2>2
    <3>2. Owed(s, i - 1, s[i - 1].t, n) /\ Owed(s, i - 1, s[i - 1].f, n)
        BY <1>6, <3>1 DEF StackOK
    <3>3. Owed(u, (i - 1) + 1, s[i - 1].t, n) /\ Owed(u, (i - 1) + 1, s[i - 1].f, n)
        BY <1>5, <3>1, <3>2
    <3> QED BY <3>1, <3>3
  <2> QED BY <2>1, <2>2
<1>7. ASSUME NEW i \in DOMAIN u, u[i].what = "emit"
      PROVE  i # 1 /\ i - 1 \in DOMAIN s /\ u[i] = s[i - 1]
    BY <1>1, <1>2, <1>7
<1>8. \A i \in DOMAIN u : u[i].what = "emit" =>
          \/ /\ u[i].item.code = "label" /\ u[i].item.jt \in 1..n
             /\ u[i] = Emit(Label(u[i].item.jt))
          \/ u[i].item.code = "ret" /\ u[i].item.jt = 0 /\ u[i].item.jf = 0
    BY <1>7 DEF StackOK
<1>9. ASSUME NEW i \in DOMAIN u, NEW j \in DOMAIN u,
             u[i].what = "emit", u[i].item.code = "label", u[i] = u[j]
      PROVE  i = j
  <2>1. i - 1 = j - 1
      BY <1>7, <1>9 DEF StackOK
  <2> QED BY <1>3, <2>1
<1>10. u[Len(u)].what = "emit" /\ u[Len(u)].item.code = "ret"
  <2>1. s # <<>>
      BY <1>1 DEF PromisedBy
  <2>2. Len(s) \in DOMAIN s
      BY <1>1, <2>1
  <2> QED BY <1>2, <2>1, <2>2 DEF StackOK
<1>11. StackOK(u, n, S)
    BY <1>2, <1>6, <1>8, <1>9, <1>10 DEF StackOK
<1> QED BY <1>11 DEF u

(* So is a label, when nobody else will place it.                          *)
LEMMA StackPushLabel ==
    ASSUME NEW S, NEW n \in Nat, NEW s, StackOK(s, n, S), s # <<>>,
           NEW l \in 1..n, ~PromisedBy(s, l)
    PROVE  StackOK(<<Emit(Label(l))>> \o s, n, S)
<1> DEFINE x == Emit(Label(l))
           u == <<x>> \o s
<1>1. /\ s \in Seq(Calls(S) \cup Emits) /\ x \in Emits /\ x.what = "emit"
      /\ x.item.code = "label" /\ x.item.jt = l
    BY EmitFacts DEF StackOK
<1>2. /\ u \in Seq(Calls(S) \cup Emits) /\ u[1] = x /\ 1 \in DOMAIN u
      /\ Len(u) = Len(s) + 1
      /\ \A i \in DOMAIN s : i + 1 \in DOMAIN u /\ u[i + 1] = s[i]
      /\ \A i \in DOMAIN u : i # 1 => i - 1 \in DOMAIN s /\ u[i] = s[i - 1]
  <2> HIDE DEF x
  <2> QED BY <1>1, ConsElements
<1> HIDE DEF u
<1>3. /\ DOMAIN u \subseteq Nat /\ DOMAIN s \subseteq Nat
      /\ \A i \in DOMAIN s : i >= 1
    BY <1>1, <1>2
<1>5. ASSUME NEW i \in DOMAIN s, NEW k, Owed(s, i, k, n)
      PROVE  Owed(u, i + 1, k, n)
  <2>1. PICK j \in DOMAIN s : j > i /\ s[j] = Emit(Label(k))
      BY <1>5 DEF Owed
  <2>2. j + 1 > i + 1
      BY <1>3, <2>1
  <2> QED BY <1>2, <1>5, <2>1, <2>2 DEF Owed
<1>6. ASSUME NEW i \in DOMAIN u, u[i].what = "call"
      PROVE  Owed(u, i, u[i].t, n) /\ Owed(u, i, u[i].f, n)
  <2>0. i # 1
      BY <1>1, <1>2, <1>6
  <2>1. i - 1 \in DOMAIN s /\ u[i] = s[i - 1] /\ (i - 1) + 1 = i
      BY <1>2, <1>3, <2>0
  <2>2. Owed(s, i - 1, s[i - 1].t, n) /\ Owed(s, i - 1, s[i - 1].f, n)
      BY <1>6, <2>1 DEF StackOK
  <2>3. Owed(u, (i - 1) + 1, s[i - 1].t, n) /\ Owed(u, (i - 1) + 1, s[i - 1].f, n)
      BY <1>5, <2>1, <2>2
  <2> QED BY <2>1, <2>3
<1>7. ASSUME NEW i \in DOMAIN u, u[i].what = "emit"
      PROVE  \/ /\ u[i].item.code = "label" /\ u[i].item.jt \in 1..n
                /\ u[i] = Emit(Label(u[i].item.jt))
             \/ u[i].item.code = "ret" /\ u[i].item.jt = 0 /\ u[i].item.jf = 0
  <2>1. CASE i = 1
      BY <1>1, <1>2, <2>1
  <2>2. CASE i # 1
      BY <1>2, <1>7, <2>2 DEF StackOK
  <2> QED BY <2>1, <2>2
<1>8. \A i \in DOMAIN s : s[i] # x
    BY DEF PromisedBy
<1> HIDE DEF x
<1>9. ASSUME NEW i \in DOMAIN u, NEW j \in DOMAIN u,
             u[i].what = "emit", u[i].item.code = "label", u[i] = u[j]
      PROVE  i = j
  <2>1. CASE i = 1 \/ j = 1
      BY <1>2, <1>8, <1>9, <2>1
  <2>2. CASE i # 1 /\ j # 1
    <3>1. i - 1 = j - 1
        BY <1>2, <1>9, <2>2 DEF StackOK
    <3> QED BY <1>3, <3>1
  <2> QED BY <2>1, <2>2
<1>10. u[Len(u)].what = "emit" /\ u[Len(u)].item.code = "ret"
  <2>1. Len(s) \in DOMAIN s
      BY <1>1
  <2> QED BY <1>2, <2>1 DEF StackOK
<1>11. StackOK(u, n, S)
    BY <1>2, <1>6, <1>7, <1>9, <1>10 DEF StackOK
<1> QED BY <1>11 DEF u, x

LEMMA ConsThree ==
    ASSUME NEW S, NEW s \in Seq(S), NEW x \in S, NEW y \in S, NEW z \in S
    PROVE  <<x, y, z>> \o s = <<x>> \o (<<y>> \o (<<z>> \o s))
<1> DEFINE r == <<z>> \o s  q == <<y>> \o r  b == <<x>> \o q
           a == <<x, y, z>> \o s
<1>1. /\ a \in Seq(S) /\ Len(a) = Len(s) + 3
      /\ a[1] = x /\ a[2] = y /\ a[3] = z
      /\ \A i \in 4 .. Len(s) + 3 : a[i] = s[i - 3]
    OBVIOUS
<1>2. /\ r \in Seq(S) /\ Len(r) = Len(s) + 1 /\ r[1] = z
      /\ \A i \in 2 .. Len(s) + 1 : r[i] = s[i - 1]
    OBVIOUS
<1> HIDE DEF a, r
<1>3. /\ q \in Seq(S) /\ Len(q) = Len(r) + 1 /\ q[1] = y
      /\ \A i \in 2 .. Len(r) + 1 : q[i] = r[i - 1]
    BY <1>2
<1> HIDE DEF q
<1>4. /\ b \in Seq(S) /\ Len(b) = Len(q) + 1 /\ b[1] = x
      /\ \A i \in 2 .. Len(q) + 1 : b[i] = q[i - 1]
    BY <1>3
<1> HIDE DEF b
<1>5. Len(s) \in Nat /\ Len(a) = Len(b) /\ Len(b) = Len(s) + 3
    BY <1>1, <1>2, <1>3, <1>4
<1>6. b[2] = y /\ b[3] = z
  <2>1. b[2] = q[1] /\ b[3] = q[2] /\ q[2] = r[1]
      BY <1>2, <1>3, <1>4, <1>5
  <2> QED BY <1>2, <1>3, <2>1
<1>7. ASSUME NEW i \in 4 .. Len(s) + 3 PROVE b[i] = s[i - 3]
  <2>1. i - 1 \in 2 .. Len(r) + 1 /\ i - 2 \in 2 .. Len(s) + 1
        /\ i \in 2 .. Len(q) + 1 /\ (i - 1) - 1 = i - 2 /\ (i - 2) - 1 = i - 3
      BY <1>2, <1>3, <1>5
  <2>2. b[i] = q[i - 1] /\ q[i - 1] = r[i - 2] /\ r[i - 2] = s[i - 3]
      BY <1>2, <1>3, <1>4, <2>1
  <2> QED BY <2>2
<1>8. \A i \in 1 .. Len(a) : a[i] = b[i]
  <2> SUFFICES ASSUME NEW i \in 1 .. Len(a) PROVE a[i] = b[i]
      OBVIOUS
  <2>1. i = 1 \/ i = 2 \/ i = 3 \/ i \in 4 .. Len(s) + 3
      BY <1>1, <1>5
  <2> QED BY <1>1, <1>4, <1>6, <1>7, <2>1
<1>9. a = b
    BY <1>1, <1>4, <1>5, <1>8
<1> QED BY <1>9 DEF a, b, q, r

-----------------------------------------------------------------------------
(* The resolution pass.  How many instructions stand in front of an item   *)
(* grows with every instruction, so that it numbers the instructions.      *)
LEMMA InsnsBeforeType ==
    ASSUME NEW i \in Nat
    PROVE  /\ IsFiniteSet({j \in 1..(i - 1) : items[j].code # "label"})
           /\ InsnsBefore(i) \in Nat
<1> DEFINE B == {j \in 1..(i - 1) : items[j].code # "label"}
<1>1. i - 1 \in Int /\ 1 \in Int
    OBVIOUS
<1>2. IsFiniteSet(1..(i - 1))
    BY <1>1, FS_Interval
<1>3. IsFiniteSet(B)
    BY <1>2, FS_Subset
<1>4. Cardinality(B) \in Nat
    BY <1>3, FS_CardinalityType
<1> QED BY <1>3, <1>4 DEF InsnsBefore

LEMMA InsnsBeforeMonotonic ==
    ASSUME NEW i \in Nat, NEW j \in Nat, i <= j
    PROVE  InsnsBefore(i) <= InsnsBefore(j)
<1> DEFINE B(k) == {m \in 1..(k - 1) : items[m].code # "label"}
<1>1. IsFiniteSet(B(j))
    BY InsnsBeforeType
<1>2. 1..(i - 1) \subseteq 1..(j - 1)
    OBVIOUS
<1>3. B(i) \in SUBSET B(j)
    BY <1>2
<1>4. Cardinality(B(i)) <= Cardinality(B(j))
  <2> HIDE DEF B
  <2> QED BY <1>1, <1>3, FS_Subset
<1> QED BY <1>4 DEF InsnsBefore

LEMMA InsnsBeforeStrict ==
    ASSUME NEW i \in Nat \ {0}, items[i].code # "label", NEW j \in Nat, i < j
    PROVE  InsnsBefore(i) + 1 <= InsnsBefore(j)
<1> DEFINE B(k) == {m \in 1..(k - 1) : items[m].code # "label"}
<1>1. IsFiniteSet(B(i)) /\ IsFiniteSet(B(j))
    BY InsnsBeforeType
<1>2. 1..(i - 1) \subseteq 1..(j - 1) /\ i \in 1..(j - 1) /\ i \notin 1..(i - 1)
    OBVIOUS
<1>3. B(i) \cup {i} \in SUBSET B(j) /\ i \notin B(i)
    BY <1>2
<1> HIDE DEF B
<1>4. Cardinality(B(i) \cup {i}) = Cardinality(B(i)) + 1
    BY <1>1, <1>3, FS_AddElement
<1>5. Cardinality(B(i) \cup {i}) <= Cardinality(B(j))
    BY <1>1, <1>3, FS_Subset
<1> QED BY <1>4, <1>5 DEF InsnsBefore, B

(* An instruction is one more in front of what follows it.                 *)
LEMMA InsnsBeforeNext ==
    ASSUME NEW i \in Nat \ {0}, items[i].code # "label"
    PROVE  InsnsBefore(i + 1) = InsnsBefore(i) + 1
<1> DEFINE B(k) == {m \in 1..(k - 1) : items[m].code # "label"}
<1>1. IsFiniteSet(B(i))
    BY InsnsBeforeType
<1>2. 1..((i + 1) - 1) = (1..(i - 1)) \cup {i} /\ i \notin 1..(i - 1)
    OBVIOUS
<1>3. B(i + 1) = B(i) \cup {i} /\ i \notin B(i)
    BY <1>2
<1> HIDE DEF B
<1>4. Cardinality(B(i) \cup {i}) = Cardinality(B(i)) + 1
    BY <1>1, <1>3, FS_AddElement
<1> QED BY <1>3, <1>4 DEF InsnsBefore, B

(* The instructions counted once more, over the whole stream.              *)
LEMMA InsnsCount ==
    ASSUME NEW S, items \in Seq(S)
    PROVE  /\ IsFiniteSet(InsnsAt)
           /\ Cardinality(InsnsAt) \in Nat
           /\ Cardinality(InsnsAt) = InsnsBefore(Len(items) + 1)
<1>1. /\ Len(items) + 1 \in Nat /\ (Len(items) + 1) - 1 = Len(items)
      /\ DOMAIN items = 1..Len(items)
    OBVIOUS
<1>2. InsnsAt = {j \in 1..((Len(items) + 1) - 1) : items[j].code # "label"}
    BY <1>1, Zenon DEF InsnsAt
<1> QED BY <1>1, <1>2, InsnsBeforeType DEF InsnsBefore

(* Every number below the count is the number of exactly one instruction:  *)
(* numbering is injective, hence onto.                                     *)
LEMMA NthInsn ==
    ASSUME NEW S, items \in Seq(S), NEW n \in 1..Cardinality(InsnsAt)
    PROVE  /\ \E i \in InsnsAt : InsnsBefore(i) = n - 1
           /\ \A i, j \in InsnsAt : InsnsBefore(i) = InsnsBefore(j) => i = j
<1> DEFINE c == Cardinality(InsnsAt)
           N == 0 .. c - 1
           num == [i \in InsnsAt |-> InsnsBefore(i)]
<1>1. IsFiniteSet(InsnsAt) /\ c \in Nat /\ c = InsnsBefore(Len(items) + 1)
    BY InsnsCount
<1>2. ASSUME NEW i \in InsnsAt
      PROVE  /\ i \in Nat \ {0} /\ i \in Nat /\ items[i].code # "label"
             /\ i < Len(items) + 1
             /\ Len(items) + 1 \in Nat
    BY DEF InsnsAt
<1>3. ASSUME NEW i \in InsnsAt, NEW j \in InsnsAt, InsnsBefore(i) = InsnsBefore(j)
      PROVE  i = j
  <2>1. InsnsBefore(i) \in Nat /\ InsnsBefore(j) \in Nat
      BY <1>2, InsnsBeforeType
  <2>2. ASSUME i < j PROVE FALSE
      BY <1>2, <1>3, <2>1, <2>2, InsnsBeforeStrict
  <2>3. ASSUME j < i PROVE FALSE
      BY <1>2, <1>3, <2>1, <2>3, InsnsBeforeStrict
  <2> QED BY <1>2, <2>2, <2>3
<1>4. ASSUME NEW i \in InsnsAt PROVE InsnsBefore(i) \in N
  <2>1. InsnsBefore(i) \in Nat
      BY <1>2, InsnsBeforeType
  <2>2. InsnsBefore(i) + 1 <= c
      BY <1>1, <1>2, InsnsBeforeStrict
  <2> HIDE DEF c
  <2> QED BY <1>1, <2>1, <2>2
<1>5. IsFiniteSet(N) /\ Cardinality(N) = c
  <2>1. 0 \in Int /\ c - 1 \in Int /\ c >= 1
      BY <1>1
  <2>2. Cardinality(N) = IF 0 > c - 1 THEN 0 ELSE (c - 1) - 0 + 1
      BY <2>1, FS_Interval
  <2>3. IsFiniteSet(N)
      BY <2>1, FS_Interval
  <2> HIDE DEF c, N
  <2> QED BY <1>1, <2>1, <2>2, <2>3
<1> HIDE DEF N
<1>6. num \in Injection(InsnsAt, N)
    BY <1>3, <1>4, Zenon DEF Injection, IsInjective
<1> HIDE DEF num
<1>7. num \in Surjection(InsnsAt, N)
    BY <1>5, <1>6, FS_Injection
<1>8. n - 1 \in N
    BY <1>1 DEF N, c
<1>9. \E i \in InsnsAt : num[i] = n - 1
    BY <1>7, <1>8 DEF Surjection
<1> QED BY <1>3, <1>9 DEF num

(* A label that stands in the stream once is found where it stands.        *)
LEMMA PositionOf ==
    ASSUME NEW T, NEW L, Fragment(items, T, L), NEW l \in Nat,
           NEW p \in DOMAIN items, items[p] = Label(l)
    PROVE  Position(l) = InsnsBefore(p)
<1>1. items[p].code = "label" /\ p \in Nat
    BY LabelFacts DEF Fragment
<1>2. p \in PlacesOf(l) /\ \A j \in PlacesOf(l) : j = p
    BY <1>1 DEF PlacesOf, Fragment
<1>3. p <= p
    BY <1>1
<1>4. (CHOOSE i \in PlacesOf(l) : \A j \in PlacesOf(l) : j <= i) = p
    BY <1>2, <1>3
<1> QED BY <1>4 DEF Position

(* What _resolve returns, when every label stands in the stream and no     *)
(* jump is too long.                                                       *)
LEMMA ResolvedSound ==
    ASSUME NEW L, Fragment(items, {}, L), L \subseteq Nat,
           items # <<>>, items[Len(items)].code = "ret",
           \A i \in JumpsAt : InRange(i)
    PROVE  /\ Resolved \in Seq(Items)
           /\ Len(Resolved) > 0
           /\ Resolved[Len(Resolved)].code = "ret"
           /\ \A n \in 1..Len(Resolved) : Resolved[n].code \in Jumps =>
                  \A o \in {Resolved[n].jt, Resolved[n].jf} :
                      o \in 0..MaxJump /\ n + 1 + o <= Len(Resolved)
           /\ \A n \in 1..Len(Resolved) : Resolved[n].code \in Jumps =>
                  /\ n > 1 /\ Resolved[n - 1].code \in AccLoads
                  /\ \A o \in {Resolved[n].jt, Resolved[n].jf} :
                         Resolved[n + 1 + o].code \notin Jumps
<1> DEFINE c == Cardinality(InsnsAt)
           before == [i \in InsnsAt |-> InsnsBefore(i)]
           at(n) == CHOOSE i \in InsnsAt : before[i] = n - 1
           last == Len(items)
<1>1. items \in Seq(Items)
    BY DEF Fragment
<1>2. c \in Nat /\ c = InsnsBefore(last + 1)
    BY <1>1, InsnsCount
<1>3. ASSUME NEW n \in 1..c
      PROVE  at(n) \in InsnsAt /\ InsnsBefore(at(n)) = n - 1
  <2>1. \E i \in InsnsAt : InsnsBefore(i) = n - 1
      BY <1>1, NthInsn
  <2>2. \E i \in InsnsAt : before[i] = n - 1
      BY <2>1
  <2>3. at(n) \in InsnsAt /\ before[at(n)] = n - 1
    <3> HIDE DEF before
    <3> QED BY <2>2
  <2> QED BY <2>3
<1>4. Resolved = [n \in 1..c |-> InsnOf(at(n))]
    BY DEF Resolved
<1> HIDE DEF at, before, c
<1>5. ASSUME NEW i \in InsnsAt
      PROVE  /\ i \in Nat \ {0} /\ i \in Nat /\ i <= last /\ items[i] \in Items
             /\ items[i].code # "label" /\ i \in DOMAIN items
    BY <1>1 DEF InsnsAt
<1>6. ASSUME NEW i \in JumpsAt
      PROVE  /\ InsnOf(i) \in Items /\ InsnOf(i).code = items[i].code
             /\ InsnOf(i).jt = OffsetTo(items[i].jt, i)
             /\ InsnOf(i).jf = OffsetTo(items[i].jf, i)
             /\ OffsetTo(items[i].jt, i) \in 0..MaxJump
             /\ OffsetTo(items[i].jf, i) \in 0..MaxJump
  <2>1. OffsetTo(items[i].jt, i) \in 0..MaxJump /\ OffsetTo(items[i].jf, i) \in 0..MaxJump
      BY DEF InRange, TargetsOf
  <2>2. MaxJump \in Nat
      BY BpfAssumption
  <2>3. items[i] \in Items
      BY <1>1 DEF JumpsAt
  <2>4. InsnOf(i) = [items[i] EXCEPT !.jt = OffsetTo(@, i), !.jf = OffsetTo(@, i)]
      BY DEF InsnOf
  <2>5. OffsetTo(items[i].jt, i) \in Nat /\ OffsetTo(items[i].jf, i) \in Nat
      BY <2>1, <2>2
  <2> QED BY <2>1, <2>3, <2>4, <2>5 DEF Items
<1>7. ASSUME NEW i \in InsnsAt
      PROVE  InsnOf(i) \in Items /\ InsnOf(i).code = items[i].code
  <2>1. CASE i \in JumpsAt
      BY <1>6, <2>1
  <2>2. CASE i \notin JumpsAt
      BY <1>5, <2>2 DEF InsnOf
  <2> QED BY <2>1, <2>2
<1>8. Resolved \in Seq(Items) /\ Len(Resolved) = c
  <2>1. \A n \in 1..c : InsnOf(at(n)) \in Items
      BY <1>3, <1>7
  <2>2. Resolved \in [1..c -> Items]
      BY <1>4, <2>1
  <2> QED BY <1>2, <2>2
<1>9. last \in InsnsAt /\ last \in Nat \ {0} /\ last + 1 \in Nat
      /\ last < last + 1 /\ last \in Nat
    BY <1>1 DEF InsnsAt
<1>10. InsnsBefore(last) + 1 <= c /\ InsnsBefore(last) \in Nat /\ c >= 1
  <2>1. InsnsBefore(last) \in Nat
      BY <1>9, InsnsBeforeType
  <2>2. InsnsBefore(last) + 1 <= InsnsBefore(last + 1)
      BY <1>5, <1>9, InsnsBeforeStrict
  <2> HIDE DEF last
  <2> QED BY <1>2, <2>1, <2>2
<1>11. at(c) = last
  <2>1. at(c) \in InsnsAt /\ InsnsBefore(at(c)) = c - 1
      BY <1>2, <1>3, <1>10
  <2>2. at(c) \in Nat \ {0} /\ at(c) <= last /\ items[at(c)].code # "label"
      BY <1>5, <2>1
  <2>3. ASSUME at(c) < last PROVE FALSE
    <3>1. InsnsBefore(at(c)) + 1 <= InsnsBefore(last)
        BY <1>9, <2>2, <2>3, InsnsBeforeStrict
    <3> HIDE DEF last
    <3> QED BY <1>2, <1>10, <2>1, <3>1
  <2> QED BY <1>9, <2>2, <2>3
<1>12. Resolved[c].code = "ret"
    BY <1>2, <1>4, <1>7, <1>9, <1>10, <1>11
<1>13. ASSUME NEW n \in 1..c, Resolved[n].code \in Jumps,
              NEW o \in {Resolved[n].jt, Resolved[n].jf}
       PROVE  /\ o \in 0..MaxJump /\ n + 1 + o <= c
              /\ \E p \in DOMAIN items :
                    items[p].code = "label" /\ n + 1 + o = InsnsBefore(p) + 1
  <2> DEFINE i == at(n)
  <2>1. i \in InsnsAt /\ InsnsBefore(i) = n - 1 /\ Resolved[n] = InsnOf(i)
      BY <1>3, <1>4
  <2> HIDE DEF i
  <2>2. i \in JumpsAt
      BY <1>5, <1>7, <1>13, <2>1 DEF JumpsAt
  <2>3. PICK l \in {items[i].jt, items[i].jf} : o = OffsetTo(l, i) /\ o \in 0..MaxJump
      BY <1>6, <1>13, <2>1, <2>2
  <2>4. items[i].code \in Jumps /\ i \in DOMAIN items /\ l \in Nat
      BY <1>5, <2>1, <2>2 DEF JumpsAt, Items
  <2>5. PICK p \in DOMAIN items : p > i /\ items[p] = Label(l)
      BY <2>3, <2>4 DEF Fragment
  <2>6. Position(l) = InsnsBefore(p) /\ items[p].code = "label"
      BY <2>4, <2>5, PositionOf, LabelFacts
  <2>7. p \in Nat /\ p <= last /\ p # last
      BY <1>1, <2>6
  <2>8. InsnsBefore(p) <= InsnsBefore(last) /\ InsnsBefore(p) \in Nat
      BY <1>9, <2>7, InsnsBeforeMonotonic, InsnsBeforeType
  <2>9. o = InsnsBefore(p) - ((n - 1) + 1)
      BY <2>1, <2>3, <2>6 DEF OffsetTo
  <2> HIDE DEF last
  <2>10. n + 1 + o <= c
      BY <1>2, <1>10, <2>8, <2>9
  <2>11. n + 1 + o = InsnsBefore(p) + 1
      BY <2>8, <2>9
  <2> QED BY <2>3, <2>6, <2>10, <2>11
<1>14. ASSUME NEW n \in 1..c, Resolved[n].code \in Jumps
       PROVE  /\ at(n) \in InsnsAt /\ at(n) - 1 \in InsnsAt
              /\ items[at(n) - 1].code \in AccLoads
              /\ InsnsBefore(at(n)) = InsnsBefore(at(n) - 1) + 1
              /\ InsnsBefore(at(n)) = n - 1
  <2> DEFINE i == at(n)  j == i - 1
  <2>1. i \in InsnsAt /\ InsnsBefore(i) = n - 1 /\ Resolved[n] = InsnOf(i)
      BY <1>3, <1>4
  <2> HIDE DEF i
  <2>2. items[i].code \in Jumps /\ i \in DOMAIN items /\ i \in Nat
      BY <1>5, <1>7, <1>14, <2>1
  <2>3. j \in DOMAIN items /\ items[j].code \in AccLoads
      BY <2>2 DEF Fragment
  <2>4. j \in InsnsAt /\ items[j].code # "label"
      BY <2>3 DEF InsnsAt, AccLoads
  <2>5. j \in Nat \ {0} /\ j + 1 = i
      BY <1>5, <2>2, <2>4
  <2> HIDE DEF j
  <2>6. InsnsBefore(i) = InsnsBefore(j) + 1
      BY <2>4, <2>5, InsnsBeforeNext
  <2> QED BY <2>1, <2>3, <2>4, <2>6 DEF i, j
<1>15. ASSUME NEW n \in 1..c, Resolved[n].code \in Jumps
       PROVE  n > 1 /\ Resolved[n - 1].code \in AccLoads
  <2> DEFINE j == at(n) - 1
  <2>1. /\ j \in InsnsAt /\ items[j].code \in AccLoads
        /\ InsnsBefore(j) + 1 = n - 1
      BY <1>14, <1>15
  <2> HIDE DEF j
  <2>2. InsnsBefore(j) \in Nat
      BY <1>5, <2>1, InsnsBeforeType
  <2>3. n - 1 \in 1..c /\ n > 1 /\ InsnsBefore(j) = (n - 1) - 1
      BY <1>2, <2>1, <2>2
  <2>4. at(n - 1) \in InsnsAt /\ InsnsBefore(at(n - 1)) = (n - 1) - 1
      BY <1>3, <2>3
  <2>5. \A k, l \in InsnsAt : InsnsBefore(k) = InsnsBefore(l) => k = l
      BY <1>1, NthInsn DEF c
  <2>6. at(n - 1) = j
      BY <2>1, <2>3, <2>4, <2>5
  <2>7. Resolved[n - 1] = InsnOf(j)
      BY <1>4, <2>3, <2>6
  <2> QED BY <1>7, <2>1, <2>3, <2>7
<1>16. ASSUME NEW n \in 1..c, Resolved[n].code \in Jumps,
              NEW o \in {Resolved[n].jt, Resolved[n].jf}
       PROVE  Resolved[n + 1 + o].code \notin Jumps
  <2> SUFFICES ASSUME Resolved[n + 1 + o].code \in Jumps PROVE FALSE
      OBVIOUS
  <2>1. PICK p \in DOMAIN items :
            items[p].code = "label" /\ n + 1 + o = InsnsBefore(p) + 1
      BY <1>13, <1>16
  <2>2. p \in Nat /\ InsnsBefore(p) \in Nat
    <3>1. p \in Nat
        BY <1>1
    <3> QED BY <3>1, InsnsBeforeType
  <2> DEFINE m == n + 1 + o  j == at(m)
  <2>3. m \in 1..c /\ m = InsnsBefore(p) + 1
    <3>1. m <= c /\ m = InsnsBefore(p) + 1
        BY <1>13, <1>16, <2>1
    <3> HIDE DEF m
    <3> QED BY <1>2, <2>2, <3>1
  <2>4. Resolved[m].code \in Jumps
      OBVIOUS
  <2> HIDE DEF m
  <2>5. /\ j \in InsnsAt /\ j - 1 \in InsnsAt
        /\ InsnsBefore(j) = InsnsBefore(j - 1) + 1
        /\ InsnsBefore(j) = m - 1
      BY <1>14, <2>3, <2>4
  <2> HIDE DEF j
  <2>6. /\ j \in Nat \ {0} /\ j - 1 \in Nat /\ items[j].code # "label"
        /\ InsnsBefore(j) \in Nat /\ InsnsBefore(j - 1) \in Nat
      BY <1>5, <2>5, InsnsBeforeType
  <2>7. j # p
      BY <2>1, <2>6
  <2>8. ASSUME j < p PROVE FALSE
    <3>1. InsnsBefore(j) + 1 <= InsnsBefore(p)
        BY <2>2, <2>6, <2>8, InsnsBeforeStrict
    <3> QED BY <2>2, <2>3, <2>5, <2>6, <3>1
  <2>9. p <= j - 1
      BY <2>2, <2>6, <2>7, <2>8
  <2>10. InsnsBefore(p) <= InsnsBefore(j - 1)
      BY <2>2, <2>6, <2>9, InsnsBeforeMonotonic
  <2> QED BY <2>2, <2>3, <2>5, <2>6, <2>10
<1> QED BY <1>8, <1>10, <1>2, <1>12, <1>13, <1>15, <1>16

-----------------------------------------------------------------------------
(* The stream so far is a fragment whose jumps leave it only for labels    *)
(* that callers have yet to place, and that are not in it.                 *)
PromisedLabels == {l \in 1..labels : PromisedBy(todo, l)}

StreamInv == \E L \in SUBSET (1..labels) :
                 /\ Fragment(items, PromisedLabels, L)
                 /\ \A l \in L : ~PromisedBy(todo, l)

PhaseInv ==
    /\ phase \in {"idle", "compiling", "resolving", "done", "BPFCompileError",
                  "RecursionError"}
    /\ phase = "idle" => todo = <<>> /\ items = <<>> /\ program = <<>>
    /\ phase = "compiling" => todo # <<>>
    /\ phase \in {"resolving", "done", "BPFCompileError"} => todo = <<>>
    /\ phase = "resolving" => items # <<>> /\ items[Len(items)].code = "ret"

(* The inductive invariant, over a set S that holds every tree compiled.   *)
CodegenInv(S) ==
    /\ labels \in Nat
    /\ StackOK(todo, labels, S)
    /\ StreamInv
    /\ PhaseInv
    /\ program \in Seq(Items)
    /\ ProgramSound
    /\ OwnLoads

LEMMA FragmentEmpty ==
    ASSUME NEW T
    PROVE  Fragment(<<>>, T, {})
    BY DEF Fragment

LEMMA FragmentRet ==
    ASSUME NEW x \in Items, x.code = "ret", x.jt = 0, x.jf = 0
    PROVE  Fragment(<<x>>, {}, {})
    BY DEF Fragment, Jumps

LEMMA FrameStack ==
    ASSUME NEW S, NEW e \in S
    PROVE  StackOK(Frame(e), 2, S) /\ Frame(e) # <<>>
<1> DEFINE r1 == Emit(PInsn("ret", ACCEPT_LENGTH))  r2 == Emit(PInsn("ret", 0))
           a == Emit(Label(1))  b == Emit(Label(2))
           c == Call(e, 1, 2, 1)  s == Frame(e)
<1>1. /\ r1 \in Emits /\ r1.what = "emit" /\ r1.item.code = "ret"
      /\ r1.item.jt = 0 /\ r1.item.jf = 0
      /\ r2 \in Emits /\ r2.what = "emit" /\ r2.item.code = "ret"
      /\ r2.item.jt = 0 /\ r2.item.jf = 0
  <2>1. ACCEPT_LENGTH \in Nat /\ "ret" \in Codes
      BY DEF ACCEPT_LENGTH, Codes
  <2> QED BY <2>1 DEF Emit, PInsn, Emits, Items
<1>2. /\ a \in Emits /\ a.what = "emit" /\ a.item.code = "label" /\ a.item.jt = 1
      /\ b \in Emits /\ b.what = "emit" /\ b.item.code = "label" /\ b.item.jt = 2
      /\ a = Emit(Label(1)) /\ b = Emit(Label(2))
  <2>1. 1 \in Nat /\ 2 \in Nat
      OBVIOUS
  <2> QED BY <2>1, EmitFacts
<1>3. c \in Calls(S) /\ c.what = "call" /\ c.t = 1 /\ c.f = 2
    BY CallFacts
<1>4. s = <<c, a, r1, b, r2>>
    BY DEF Frame, accept, reject
<1> HIDE DEF c, a, b, r1, r2, s
<1>5. /\ s \in Seq(Calls(S) \cup Emits) /\ DOMAIN s = {1, 2, 3, 4, 5}
      /\ Len(s) = 5 /\ s # <<>> /\ s[1] = c /\ s[2] = a
      /\ s[3] = r1 /\ s[4] = b /\ s[5] = r2
    BY <1>1, <1>2, <1>3, <1>4
<1>7. 1 \in 1..2 /\ 2 \in 1..2 /\ 2 > 1 /\ 4 > 1
    OBVIOUS
<1>8. Owed(s, 1, 1, 2) /\ Owed(s, 1, 2, 2)
    BY <1>2, <1>5, <1>7, Zenon DEF Owed
<1>9. StackOK(s, 2, S)
  <2>1. \A i \in DOMAIN s : s[i].what = "call" => i = 1
      BY <1>1, <1>2, <1>5
  <2>2. \A i \in DOMAIN s : s[i].what = "call" =>
            Owed(s, i, s[i].t, 2) /\ Owed(s, i, s[i].f, 2)
      BY <1>3, <1>5, <1>8, <2>1
  <2>3. \A i \in DOMAIN s : s[i].what = "emit" =>
            \/ /\ s[i].item.code = "label" /\ s[i].item.jt \in 1..2
               /\ s[i] = Emit(Label(s[i].item.jt))
            \/ s[i].item.code = "ret" /\ s[i].item.jt = 0 /\ s[i].item.jf = 0
      BY <1>1, <1>2, <1>3, <1>5, <1>7
  <2>4. \A i \in DOMAIN s : s[i].what = "emit" /\ s[i].item.code = "label"
            => i = 2 \/ i = 4
      BY <1>1, <1>2, <1>3, <1>5
  <2>5. a # b
      BY <1>2
  <2>6. ASSUME NEW i \in DOMAIN s, NEW j \in DOMAIN s, s[i].what = "emit",
               s[i].item.code = "label", s[i] = s[j]
        PROVE  i = j
      BY <1>5, <2>4, <2>5, <2>6
  <2> QED BY <1>1, <1>5, <2>2, <2>3, <2>6 DEF StackOK
<1> QED BY <1>5, <1>9 DEF s

LEMMA CodegenInit ==
    ASSUME NEW S, Exprs \subseteq S, Init
    PROVE  CodegenInv(S)
<1>1. /\ labels = 2 /\ items = <<>> /\ program = <<>> /\ phase = "compiling"
      /\ expr \in S /\ todo = Frame(expr)
    BY DEF Init
<1>2. StackOK(todo, labels, S) /\ todo # <<>>
    BY <1>1, FrameStack
<1>3. StreamInv
  <2>1. Fragment(items, PromisedLabels, {})
      BY <1>1, FragmentEmpty
  <2> QED BY <2>1 DEF StreamInv
<1>4. program \in Seq(Items)
    BY <1>1
<1> QED BY <1>1, <1>2, <1>3, <1>4 DEF CodegenInv, PhaseInv, ProgramSound, OwnLoads

(* A primitive: its block goes behind the stream, its labels are fresh.    *)
LEMMA CodegenPrimitive ==
    ASSUME NEW S, WellFormed(S), CodegenInv(S), CompilePrimitive
    PROVE  CodegenInv(S)'
<1> DEFINE c == todo[1]  n == labels + LabelsPerBlock
           t == c.t  f == c.f  W == {t, f}
           b == Block(c.node, t, f, labels)
<1>1. /\ labels \in Nat /\ StackOK(todo, labels, S) /\ todo # <<>>
      /\ todo \in Seq(Calls(S) \cup Emits) /\ n \in Nat /\ labels <= n
    BY DEF CodegenInv, StackOK, CompilePrimitive, CompileCall, LabelsPerBlock
<1>2. /\ 1 \in DOMAIN todo /\ c.what = "call" /\ c \in Calls(S)
      /\ c.node \in S /\ c.node.op \in {"proto", "host", "port"}
    BY <1>1 DEF CompilePrimitive, CompileCall, Calls, Emits
<1>3. Owed(todo, 1, c.t, labels) /\ Owed(todo, 1, c.f, labels)
    BY <1>2 DEF CodegenInv, StackOK
<1>4. /\ c.t \in 1..labels /\ c.f \in 1..labels /\ c.t \in Nat /\ c.f \in Nat
      /\ PromisedBy(todo, c.t) /\ PromisedBy(todo, c.f)
    BY <1>3 DEF Owed, PromisedBy
<1>5. PICK M \in SUBSET (labels + 1 .. n) : Fragment(b, W, M)
  <2> DEFINE e == c.node
  <2>1. e \in S /\ e.op \in {"proto", "host", "port"} /\ t \in Nat /\ f \in Nat
      BY <1>2, <1>4
  <2> HIDE DEF e, t, f
  <2>2. \E M \in SUBSET (labels + 1 .. labels + LabelsPerBlock) :
            Fragment(Block(e, t, f, labels), {t, f}, M)
      BY <1>1, <2>1, FragmentBlock
  <2> QED BY <2>2 DEF e
<1> HIDE DEF b
<1>6. todo' = Tail(todo) /\ labels' = n /\ items' = items \o b
      /\ UNCHANGED <<phase, program>> /\ phase = "compiling"
    BY DEF CompilePrimitive, CompileCall, b
<1>7. StackOK(todo', labels', S)
    BY <1>1, <1>6, StackPop
<1>8. \A l : c # Emit(Label(l))
    BY <1>2 DEF Emit
<1>9. \A l : PromisedBy(todo', l) <=> PromisedBy(todo, l)
    BY <1>1, <1>6, <1>8, PromisedTail
<1>10. PICK L \in SUBSET (1..labels) :
           Fragment(items, PromisedLabels, L) /\ \A l \in L : ~PromisedBy(todo, l)
    BY DEF CodegenInv, StreamInv
<1>11. 1..labels \subseteq 1..n /\ (labels + 1 .. n) \subseteq 1..n
    BY <1>1
<1>12. L \cap M = {} /\ L \cup M \subseteq 1..n
  <2>1. \A l \in labels + 1 .. n : l \notin 1..labels
      BY <1>1
  <2> QED BY <2>1, <1>11
<1>13. PromisedLabels \subseteq PromisedLabels' \cup M /\ W \subseteq PromisedLabels'
    BY <1>4, <1>6, <1>9, <1>11 DEF PromisedLabels
<1>14. Fragment(items \o b, PromisedLabels', L \cup M)
  <2> DEFINE T == PromisedLabels  V == PromisedLabels'
  <2>1. /\ Fragment(items, T, L) /\ Fragment(b, W, M) /\ L \cap M = {}
        /\ T \subseteq V \cup M /\ W \subseteq V
      BY <1>5, <1>10, <1>12, <1>13
  <2> HIDE DEF T, V, W
  <2>2. Fragment(items \o b, V, L \cup M)
      BY <2>1, FragmentConcat
  <2> QED BY <2>2 DEF V
<1>15. \A l \in L \cup M : ~PromisedBy(todo', l)
  <2>1. ASSUME NEW l \in M, PromisedBy(todo, l) PROVE FALSE
    <3>1. l \in Nat /\ l \notin 1..labels
        BY <1>1
    <3> QED BY <1>1, <2>1, <3>1, PromisedExists
  <2> QED BY <1>9, <1>10, <2>1
<1>16. StreamInv'
    BY <1>6, <1>12, <1>14, <1>15 DEF StreamInv
<1>17. PhaseInv' /\ ProgramSound' /\ OwnLoads' /\ program' \in Seq(Items)
  <2>1. todo' # <<>>
    <3>1. PICK j \in DOMAIN todo : j > 1
        BY <1>3 DEF Owed
    <3>2. Len(todo) >= 2 /\ Len(Tail(todo)) = Len(todo) - 1
        BY <1>1, <3>1
    <3>3. Tail(todo) # <<>>
        BY <3>2
    <3> QED BY <1>6, <3>3
  <2> QED BY <1>6, <2>1 DEF CodegenInv, PhaseInv, ProgramSound, OwnLoads
<1> QED BY <1>1, <1>6, <1>7, <1>16, <1>17 DEF CodegenInv

(* What holds of the call at the head of the stack and of the rest.        *)
LEMMA HeadCall ==
    ASSUME NEW S, CodegenInv(S), NEW ops, CompileCall(ops)
    PROVE  /\ labels \in Nat /\ phase = "compiling"
           /\ todo \in Seq(Calls(S) \cup Emits)
           /\ todo[1] \in Calls(S) /\ todo[1].node.op \in ops
           /\ todo[1].t \in 1..labels /\ todo[1].f \in 1..labels
           /\ PromisedBy(Tail(todo), todo[1].t) /\ PromisedBy(Tail(todo), todo[1].f)
           /\ \A n \in Nat : labels <= n => StackOK(Tail(todo), n, S)
           /\ \A l : PromisedBy(Tail(todo), l) <=> PromisedBy(todo, l)
<1> DEFINE c == todo[1]
<1>1. /\ labels \in Nat /\ StackOK(todo, labels, S) /\ todo # <<>>
      /\ todo \in Seq(Calls(S) \cup Emits) /\ c.what = "call"
      /\ c.node.op \in ops /\ phase = "compiling"
    BY DEF CodegenInv, StackOK, CompileCall
<1>2. 1 \in DOMAIN todo /\ c \in Calls(S)
    BY <1>1 DEF Calls, Emits
<1>3. Owed(todo, 1, c.t, labels) /\ Owed(todo, 1, c.f, labels)
    BY <1>1, <1>2 DEF StackOK
<1>4. /\ c.t \in 1..labels /\ c.f \in 1..labels
      /\ PromisedBy(todo, c.t) /\ PromisedBy(todo, c.f)
    BY <1>3 DEF Owed, PromisedBy
<1>5. \A l : c # Emit(Label(l))
    BY <1>1 DEF Emit
<1>6. \A l : PromisedBy(Tail(todo), l) <=> PromisedBy(todo, l)
    BY <1>1, <1>5, PromisedTail
<1>7. \A n \in Nat : labels <= n => StackOK(Tail(todo), n, S)
    BY <1>1, StackPop
<1> QED BY <1>1, <1>2, <1>4, <1>6, <1>7

(* not: one call takes the place of another.                               *)
LEMMA CodegenNot ==
    ASSUME NEW S, WellFormed(S), CodegenInv(S), CompileNot
    PROVE  CodegenInv(S)'
<1> DEFINE h == todo[1]  r == Tail(todo)
           c == Call(h.node.operand, h.f, h.t, h.depth + 1)
<1>1. CompileCall({"not"})
    BY DEF CompileNot
<1>2. /\ labels \in Nat /\ phase = "compiling"
      /\ h \in Calls(S) /\ h.node.op \in {"not"}
      /\ h.t \in 1..labels /\ h.f \in 1..labels
      /\ PromisedBy(r, h.t) /\ PromisedBy(r, h.f)
      /\ StackOK(r, labels, S)
      /\ \A l : PromisedBy(r, l) <=> PromisedBy(todo, l)
  <2>1. labels \in Nat
      BY DEF CodegenInv
  <2>2. labels <= labels
      BY <2>1
  <2> QED BY <1>1, <2>1, <2>2, HeadCall
<1>3. h.node.operand \in S /\ h.depth + 1 \in Nat /\ h.t \in Nat /\ h.f \in Nat
    BY <1>2 DEF Calls, WellFormed, Trees
<1>4. /\ c \in Calls(S) /\ c.what = "call" /\ c.t = h.f /\ c.f = h.t
      /\ \A x : Emit(x) # c
    BY <1>3 DEF Call, Calls, Emit
<1>5. todo' = <<c>> \o r /\ UNCHANGED <<items, labels, phase, program>>
    BY DEF CompileNot
<1> HIDE DEF c, h
<1>6. StackOK(<<c>> \o r, labels, S)
    BY <1>2, <1>4, StackPushCall
<1>7. r \in Seq(Calls(S) \cup Emits) /\ c \in Calls(S) \cup Emits
    BY <1>2, <1>4 DEF StackOK
<1>8. ASSUME NEW l PROVE PromisedBy(todo', l) <=> PromisedBy(todo, l)
    BY <1>2, <1>4, <1>5, <1>7, PromisedCons
<1>9. StreamInv'
  <2>1. PromisedLabels' = PromisedLabels
      BY <1>5, <1>8 DEF PromisedLabels
  <2>2. PICK L \in SUBSET (1..labels) :
            Fragment(items, PromisedLabels, L) /\ \A l \in L : ~PromisedBy(todo, l)
      BY DEF CodegenInv, StreamInv
  <2> QED BY <1>5, <1>8, <2>1, <2>2 DEF StreamInv
<1>10. todo' # <<>>
    BY <1>5, <1>7
<1> QED BY <1>2, <1>5, <1>6, <1>9, <1>10
        DEF CodegenInv, PhaseInv, ProgramSound, OwnLoads

(* and, or: a fresh label is promised between two calls.                   *)
LEMMA CodegenChain ==
    ASSUME NEW S, WellFormed(S), CodegenInv(S), CompileCall({"and", "or"}),
           NEW lt, NEW lf,
           lt \in {labels + 1, todo[1].t}, lf \in {labels + 1, todo[1].f},
           Chain(lt, lf)
    PROVE  CodegenInv(S)'
<1> DEFINE h == todo[1]  r == Tail(todo)  n == labels + 1
           x == Call(h.node.left, lt, lf, h.depth + 1)
           y == Emit(Label(n))
           z == Call(h.node.right, h.t, h.f, h.depth + 1)
           s1 == <<z>> \o r  s2 == <<y>> \o s1  s3 == <<x>> \o s2
           E == Calls(S) \cup Emits
<1>1. /\ labels \in Nat /\ phase = "compiling" /\ n \in Nat /\ labels <= n
      /\ h \in Calls(S) /\ h.node.op \in {"and", "or"}
      /\ h.t \in 1..labels /\ h.f \in 1..labels
      /\ PromisedBy(r, h.t) /\ PromisedBy(r, h.f)
      /\ StackOK(r, n, S) /\ StackOK(r, labels, S)
      /\ \A l : PromisedBy(r, l) <=> PromisedBy(todo, l)
  <2>1. labels \in Nat
      BY DEF CodegenInv
  <2>2. n \in Nat /\ labels <= n /\ labels <= labels
      BY <2>1
  <2> QED BY <2>1, <2>2, HeadCall
<1>2. /\ h.node.left \in S /\ h.node.right \in S /\ h.depth + 1 \in Nat
      /\ h.t \in Nat /\ h.f \in Nat /\ h.t \in 1..n /\ h.f \in 1..n
  <2>1. h.node \in S /\ h.depth \in Nat /\ h.t \in Nat /\ h.f \in Nat
      BY <1>1 DEF Calls
  <2>2. h.node.left \in S /\ h.node.right \in S
      BY <1>1, <2>1 DEF WellFormed, Trees
  <2>3. h.t \in 1..n /\ h.f \in 1..n /\ h.depth + 1 \in Nat
      BY <1>1, <2>1
  <2> QED BY <2>1, <2>2, <2>3
<1>3. lt \in 1..n /\ lf \in 1..n /\ lt \in Nat /\ lf \in Nat /\ n \in 1..n
    BY <1>1, <1>2
<1>4. todo' = <<x, y, z>> \o r /\ labels' = n /\ UNCHANGED <<items, phase, program>>
    BY DEF Chain
<1>5. /\ z \in Calls(S) /\ z.t = h.t /\ z.f = h.f /\ \A w : Emit(w) # z
      /\ x \in Calls(S) /\ x.t = lt /\ x.f = lf /\ \A w : Emit(w) # x
    BY <1>2, <1>3 DEF Call, Calls, Emit
<1>6. y \in Emits /\ \A l : Emit(Label(l)) = y => l = n
    BY <1>1, EmitFacts
<1>7. r \in Seq(E) /\ x \in E /\ y \in E /\ z \in E
    BY <1>1, <1>5, <1>6 DEF StackOK
<1> HIDE DEF h, x, z, E
<1>8. StackOK(s1, n, S)
    BY <1>1, <1>2, <1>5, StackPushCall
<1>9. ASSUME NEW l PROVE PromisedBy(s1, l) <=> PromisedBy(todo, l)
    BY <1>1, <1>5, <1>7, PromisedCons
<1>10. s1 \in Seq(E) /\ s1 # <<>>
    BY <1>7
<1> HIDE DEF s1
<1>11. ~PromisedBy(todo, n)
  <2>1. n \notin 1..labels
      BY <1>1
  <2> QED BY <1>1, <2>1, PromisedExists
<1>12. StackOK(s2, n, S)
    BY <1>1, <1>3, <1>8, <1>9, <1>10, <1>11, StackPushLabel
<1>13. ASSUME NEW l PROVE PromisedBy(s2, l) <=> l = n \/ PromisedBy(todo, l)
  <2>1. PromisedBy(s2, l) <=> y = Emit(Label(l)) \/ PromisedBy(s1, l)
    <3> HIDE DEF y
    <3> QED BY <1>7, <1>10, PromisedCons
  <2> QED BY <1>6, <1>9, <2>1
<1>14. s2 \in Seq(E)
  <2> HIDE DEF y
  <2> QED BY <1>7, <1>10
<1> HIDE DEF s2
<1>15. PromisedBy(s2, lt) /\ PromisedBy(s2, lf)
    BY <1>1, <1>13 DEF h
<1>16. StackOK(s3, n, S)
    BY <1>1, <1>3, <1>5, <1>12, <1>15, StackPushCall
<1>17. ASSUME NEW l PROVE PromisedBy(s3, l) <=> l = n \/ PromisedBy(todo, l)
    BY <1>5, <1>7, <1>13, <1>14, PromisedCons
<1>18. todo' = s3
  <2> HIDE DEF y, r
  <2>1. <<x, y, z>> \o r = <<x>> \o (<<y>> \o (<<z>> \o r))
      BY <1>7, ConsThree
  <2> QED BY <1>4, <2>1, Zenon DEF s2, s1
<1>19. s3 # <<>>
    BY <1>7, <1>14
<1> HIDE DEF s3
<1>20. StreamInv'
  <2>1. PICK L \in SUBSET (1..labels) :
            Fragment(items, PromisedLabels, L) /\ \A l \in L : ~PromisedBy(todo, l)
      BY DEF CodegenInv, StreamInv
  <2>2. 1..labels \subseteq 1..n /\ n \notin 1..labels
      BY <1>1
  <2>3. PromisedLabels \subseteq PromisedLabels'
      BY <1>4, <1>17, <1>18, <2>2 DEF PromisedLabels
  <2>4. Fragment(items, PromisedLabels', L)
      BY <2>1, <2>3, FragmentWeaken
  <2>5. \A l \in L : ~PromisedBy(todo', l)
      BY <1>17, <1>18, <2>1, <2>2
  <2>6. L \in SUBSET (1..n)
      BY <2>2
  <2> QED BY <1>4, <2>4, <2>5, <2>6 DEF StreamInv
<1> QED BY <1>1, <1>4, <1>16, <1>18, <1>19, <1>20
        DEF CodegenInv, PhaseInv, ProgramSound, OwnLoads

(* place() and emit(): what was promised is in the stream.                 *)
LEMMA CodegenEmit ==
    ASSUME NEW S, CodegenInv(S), EmitItem
    PROVE  CodegenInv(S)'
<1> DEFINE h == todo[1]  x == h.item  E == Calls(S) \cup Emits
<1>1. /\ labels \in Nat /\ StackOK(todo, labels, S) /\ todo # <<>>
      /\ todo \in Seq(E) /\ h.what = "emit" /\ phase = "compiling"
      /\ labels <= labels
    BY DEF CodegenInv, StackOK, EmitItem
<1>2. 1 \in DOMAIN todo /\ h \in Emits /\ x \in Items
    BY <1>1 DEF Calls, Emits
<1>3. /\ items' = Append(items, x) /\ todo' = Tail(todo)
      /\ phase' = IF Len(todo) = 1 THEN "resolving" ELSE "compiling"
      /\ UNCHANGED <<labels, program>>
    BY DEF EmitItem
<1>4. StackOK(todo', labels', S)
    BY <1>1, <1>3, StackPop
<1>5. PICK L \in SUBSET (1..labels) :
          Fragment(items, PromisedLabels, L) /\ \A l \in L : ~PromisedBy(todo, l)
    BY DEF CodegenInv, StreamInv
<1>6. items \in Seq(Items) /\ Append(items, x) = items \o <<x>>
  <2>1. items \in Seq(Items)
      BY <1>5 DEF Fragment
  <2> HIDE DEF x
  <2> QED BY <1>2, <2>1
<1>7. ASSUME NEW l PROVE PromisedBy(todo', l) <=> PromisedBy(todo, l) /\ h # Emit(Label(l))
    BY <1>1, <1>3, PromisedTail
<1> HIDE DEF E
<1>8. StreamInv'
  <2>1. CASE x.code = "label"
    <3> DEFINE k == x.jt  M == {k}  T == PromisedLabels  V == PromisedLabels'
    <3>1. k \in 1..labels /\ h = Emit(Label(k)) /\ k \in Nat /\ "label" # "ret"
        BY <1>1, <1>2, <2>1 DEF StackOK
    <3>2. x = Label(k)
        BY <3>1, EmitFacts
    <3>3. \A l : h = Emit(Label(l)) => l = k
        BY <3>1, EmitFacts
    <3> HIDE DEF k, x, h
    <3>4. PromisedBy(todo, k)
        BY <1>2, <3>1 DEF PromisedBy, h
    <3>5. L \cap M = {} /\ L \cup M \in SUBSET (1..labels)
        BY <1>5, <3>1, <3>4
    <3>6. T \subseteq V \cup M
        BY <1>3, <1>7, <3>3 DEF PromisedLabels
    <3>7. Fragment(<<x>>, {}, M)
        BY <3>1, <3>2, FragmentLabel
    <3> HIDE DEF T, V, M
    <3>8. Fragment(items \o <<x>>, V, L \cup M)
        BY <1>5, <3>5, <3>6, <3>7, FragmentConcat DEF T
    <3>9. \A l \in L \cup M : ~PromisedBy(todo', l)
        BY <1>5, <1>7, <3>1 DEF M
    <3> QED BY <1>3, <1>6, <3>5, <3>8, <3>9 DEF StreamInv, V, x
  <2>2. CASE x.code # "label"
    <3> DEFINE T == PromisedLabels  M == {}
    <3>1. x.code = "ret" /\ x.jt = 0 /\ x.jf = 0
        BY <1>1, <1>2, <2>2 DEF StackOK
    <3>2. Fragment(<<x>>, {}, M)
      <4> HIDE DEF x
      <4> QED BY <1>2, <3>1, FragmentRet
    <3>3. \A l : h # Emit(Label(l))
      <4>1. \A l : Emit(Label(l)).item.code = "label"
          BY DEF Emit, Label
      <4> QED BY <2>2, <4>1
    <3>4. PromisedLabels' = T
        BY <1>3, <1>7, <3>3 DEF PromisedLabels
    <3>5. L \cap M = {} /\ L \cup M = L /\ T \subseteq T \cup M
        OBVIOUS
    <3> HIDE DEF T, M, x, h
    <3>6. Fragment(items \o <<x>>, T, L \cup M)
        BY <1>5, <3>2, <3>5, FragmentConcat DEF T
    <3>7. \A l \in L : ~PromisedBy(todo', l)
        BY <1>5, <1>7
    <3>8. Fragment(items', PromisedLabels', L)
        BY <1>3, <1>6, <3>4, <3>5, <3>6, Zenon DEF x
    <3> QED BY <1>3, <3>7, <3>8 DEF StreamInv
  <2> QED BY <2>1, <2>2
<1>9. PhaseInv'
  <2>1. CASE Len(todo) = 1
    <3>1. todo' = <<>> /\ phase' = "resolving"
        BY <1>1, <1>3, <2>1
    <3>2. h.item.code = "ret"
        BY <1>1, <2>1 DEF StackOK
    <3>3. items' # <<>> /\ items'[Len(items')] = x
      <4> HIDE DEF x
      <4> QED BY <1>2, <1>3, <1>6
    <3> QED BY <3>1, <3>2, <3>3 DEF PhaseInv
  <2>2. CASE Len(todo) # 1
    <3>0. Len(todo) \in Nat /\ Len(todo) # 0 /\ Len(Tail(todo)) = Len(todo) - 1
        BY <1>1
    <3>1. todo' # <<>> /\ phase' = "compiling"
      <4>1. Len(Tail(todo)) # 0
          BY <2>2, <3>0
      <4>2. Tail(todo) # <<>>
        <5>1. Len(<<>>) = 0
            OBVIOUS
        <5> QED BY <4>1, <5>1, Zenon
      <4>3. phase' = "compiling"
          BY <1>3, <2>2
      <4> QED BY <1>3, <4>2, <4>3
    <3> QED BY <3>1 DEF PhaseInv
  <2> QED BY <2>1, <2>2
<1>10. program' \in Seq(Items) /\ ProgramSound' /\ OwnLoads'
    BY <1>3 DEF CodegenInv, ProgramSound, OwnLoads
<1> QED BY <1>1, <1>3, <1>4, <1>8, <1>9, <1>10 DEF CodegenInv

(* The resolution pass, and the emitter that goes out of scope.            *)
LEMMA CodegenResolve ==
    ASSUME NEW S, CodegenInv(S), Resolve
    PROVE  CodegenInv(S)'
<1>1. /\ phase = "resolving" /\ program' = Resolved /\ phase' = "done"
      /\ items' = <<>> /\ labels' = 0 /\ todo' = todo
      /\ \A i \in JumpsAt : InRange(i)
    BY DEF Resolve
<1>2. todo = <<>> /\ items # <<>> /\ items[Len(items)].code = "ret"
    BY <1>1 DEF CodegenInv, PhaseInv
<1>3. PICK L \in SUBSET (1..labels) : Fragment(items, PromisedLabels, L)
    BY DEF CodegenInv, StreamInv
<1>4. PromisedLabels = {} /\ L \subseteq Nat
    BY <1>2 DEF PromisedLabels, PromisedBy
<1>5. Fragment(items, {}, L)
    BY <1>3, <1>4
<1>6. /\ program' \in Seq(Items)
      /\ Len(program') > 0
      /\ program'[Len(program')].code = "ret"
      /\ \A n \in 1..Len(program') : program'[n].code \in Jumps =>
             \A o \in {program'[n].jt, program'[n].jf} :
                 o \in 0..MaxJump /\ n + 1 + o <= Len(program')
    BY <1>1, <1>2, <1>4, <1>5, ResolvedSound
<1>7. ProgramSound'
    BY <1>6 DEF ProgramSound
<1>12. OwnLoads'
  <2>1. DOMAIN program' = 1..Len(program')
      BY <1>6
  <2> QED BY <1>1, <1>2, <1>4, <1>5, <2>1, ResolvedSound DEF OwnLoads
<1>8. StackOK(todo', labels', S)
    BY <1>1, <1>2 DEF StackOK
<1>9. StreamInv'
  <2>1. Fragment(items', PromisedLabels', {})
      BY <1>1, FragmentEmpty
  <2> QED BY <2>1 DEF StreamInv
<1>10. labels' \in Nat
    BY <1>1
<1>11. PhaseInv'
    BY <1>1, <1>2 DEF PhaseInv
<1> QED BY <1>6, <1>7, <1>8, <1>9, <1>10, <1>11, <1>12 DEF CodegenInv

LEMMA CodegenStutter ==
    ASSUME NEW S, CodegenInv(S), UNCHANGED vars
    PROVE  CodegenInv(S)'
    BY DEF CodegenInv, StreamInv, PromisedLabels, PhaseInv, ProgramSound, OwnLoads, vars

LEMMA CodegenNext ==
    ASSUME NEW S, WellFormed(S), CodegenInv(S), [Next]_vars
    PROVE  CodegenInv(S)'
<1>1. CASE CompileTooDeep
  <2>1. UNCHANGED <<todo, items, labels, program>> /\ phase' = "RecursionError"
      BY <1>1 DEF CompileTooDeep
  <2> QED BY <2>1
          DEF CodegenInv, StreamInv, PromisedLabels, PhaseInv, ProgramSound, OwnLoads
<1>2. CASE CompilePrimitive
    BY <1>2, CodegenPrimitive
<1>3. CASE CompileNot
    BY <1>3, CodegenNot
<1>4. CASE CompileAnd
  <2>1. CompileCall({"and", "or"}) /\ Chain(labels + 1, todo[1].f)
      BY <1>4 DEF CompileAnd, CompileCall
  <2> QED BY <2>1, CodegenChain
<1>5. CASE CompileOr
  <2>1. CompileCall({"and", "or"}) /\ Chain(todo[1].t, labels + 1)
      BY <1>5 DEF CompileOr, CompileCall
  <2> QED BY <2>1, CodegenChain
<1>6. CASE EmitItem
    BY <1>6, CodegenEmit
<1>7. CASE Resolve
    BY <1>7, CodegenResolve
<1>8. CASE ResolveFails
  <2>1. /\ UNCHANGED <<todo, items, labels, program>> /\ phase = "resolving"
        /\ phase' = "BPFCompileError"
      BY <1>8 DEF ResolveFails
  <2> QED BY <2>1
          DEF CodegenInv, StreamInv, PromisedLabels, PhaseInv, ProgramSound, OwnLoads
<1>9. CASE Returned
    BY <1>9, CodegenStutter DEF Returned
<1>10. CASE UNCHANGED vars
    BY <1>10, CodegenStutter
<1> QED BY <1>1, <1>2, <1>3, <1>4, <1>5, <1>6, <1>7, <1>8, <1>9, <1>10 DEF Next

LEMMA CodegenInvariant ==
    ASSUME NEW S, Exprs \subseteq S, WellFormed(S)
    PROVE  Spec => []CodegenInv(S)
<1>1. Init => CodegenInv(S)
    BY CodegenInit
<1>2. CodegenInv(S) /\ [Next]_vars => CodegenInv(S)'
    BY CodegenNext
<1> QED BY <1>1, <1>2, PTL DEF Spec

-----------------------------------------------------------------------------
(* What the invariant says of the state.                                   *)
LEMMA InvTypes ==
    ASSUME NEW S, CodegenInv(S)
    PROVE  TypeOK
<1>1. /\ labels \in Nat /\ StackOK(todo, labels, S) /\ program \in Seq(Items)
      /\ todo \in Seq(Calls(S) \cup Emits)
    BY DEF CodegenInv, StackOK
<1>2. PICK L \in SUBSET (1..labels) : Fragment(items, PromisedLabels, L)
    BY DEF CodegenInv, StreamInv
<1>3. 1..labels \subseteq 0..labels /\ 0 \in 0..labels
    BY <1>1
<1>4. ASSUME NEW n \in DOMAIN todo PROVE Entry(todo[n])
  <2>1. todo[n] \in Calls(S) \/ todo[n] \in Emits
      BY <1>1
  <2>2. CASE todo[n] \in Calls(S)
    <3>1. todo[n].what = "call" /\ todo[n].depth \in Nat
        BY <2>2 DEF Calls
    <3>2. todo[n].t \in 1..labels /\ todo[n].f \in 1..labels
        BY <1>1, <3>1 DEF StackOK, Owed
    <3> QED BY <3>1, <3>2 DEF Entry
  <2>3. CASE todo[n] \in Emits
    <3>1. todo[n].what = "emit" /\ todo[n].item \in Items
        BY <2>3 DEF Emits
    <3>2. todo[n].item.jt \in 0..labels
        BY <1>1, <1>3, <3>1 DEF StackOK
    <3> QED BY <3>1, <3>2 DEF Entry
  <2> QED BY <2>1, <2>2, <2>3
<1>5. ASSUME NEW i \in DOMAIN items PROVE TargetsOf(i) \subseteq 0..labels
  <2>1. CASE items[i].code = "label"
    <3>1. items[i].jt \in L /\ items[i] = Label(items[i].jt)
        BY <1>2, <2>1 DEF Fragment
    <3>2. items[i].jf = items[i].jt
        BY <3>1 DEF Label
    <3> QED BY <1>3, <3>1, <3>2 DEF TargetsOf
  <2>2. CASE items[i].code \in Jumps
    <3>1. ASSUME NEW l \in TargetsOf(i) PROVE l \in 1..labels
      <4>1. CASE l \in PromisedLabels
          BY <4>1 DEF PromisedLabels
      <4>2. ASSUME NEW j \in DOMAIN items, items[j] = Label(l) PROVE l \in 1..labels
        <5>1. items[j].code = "label" /\ items[j].jt = l
            BY <4>2 DEF Label
        <5> QED BY <1>2, <5>1 DEF Fragment
      <4>3. l \in PromisedLabels \/ \E j \in DOMAIN items : items[j] = Label(l)
          BY <1>2, <2>2 DEF Fragment, TargetsOf
      <4> QED BY <4>1, <4>2, <4>3
    <3> QED BY <1>3, <3>1
  <2>3. CASE items[i].code \notin Jumps \cup {"label"}
      BY <1>2, <1>3, <2>3 DEF Fragment, TargetsOf
  <2> QED BY <2>1, <2>2, <2>3
<1>6. items \in Seq(Items)
    BY <1>2 DEF Fragment
<1>7. phase \in {"idle", "compiling", "resolving", "done", "BPFCompileError",
                 "RecursionError"}
    BY DEF CodegenInv, PhaseInv
<1> QED BY <1>1, <1>4, <1>5, <1>6, <1>7 DEF TypeOK

LEMMA InvForward ==
    ASSUME NEW S, CodegenInv(S)
    PROVE  JumpsForward
<1>1. PICK L \in SUBSET (1..labels) : Fragment(items, PromisedLabels, L)
    BY DEF CodegenInv, StreamInv
<1>2. ASSUME NEW i \in JumpsAt, NEW l \in TargetsOf(i)
      PROVE  Promised(l) \/ \E j \in PlacesOf(l) : j > i
  <2>1. l \in PromisedLabels \/ \E j \in DOMAIN items : j > i /\ items[j] = Label(l)
      BY <1>1 DEF Fragment, JumpsAt, TargetsOf
  <2> QED BY <2>1 DEF PromisedLabels, PromisedBy, Promised, PlacesOf
<1> QED BY <1>2 DEF JumpsForward

LEMMA InvPlacedOnce ==
    ASSUME NEW S, CodegenInv(S)
    PROVE  LabelsPlacedOnce
<1>1. PICK L \in SUBSET (1..labels) :
          Fragment(items, PromisedLabels, L) /\ \A l \in L : ~PromisedBy(todo, l)
    BY DEF CodegenInv, StreamInv
<1>2. ASSUME NEW l \in 1..labels
      PROVE  LET promises == {n \in DOMAIN todo : todo[n] = Emit(Label(l))}
             IN  Cardinality(PlacesOf(l)) + Cardinality(promises) <= 1
  <2> DEFINE P == PlacesOf(l)
             Q == {n \in DOMAIN todo : todo[n] = Emit(Label(l))}
  <2>0. l \in Nat
      BY DEF CodegenInv
  <2>1. \A i, j \in P : i = j
    <3>1. \A i \in P : i \in DOMAIN items /\ items[i] = Label(l) /\ items[i].code = "label"
        BY <2>0, LabelFacts DEF PlacesOf
    <3> QED BY <1>1, <3>1 DEF Fragment
  <2>2. \A i, j \in Q : i = j
    <3>1. \A i \in Q : /\ todo[i].what = "emit" /\ todo[i].item.code = "label"
                       /\ i \in DOMAIN todo /\ todo[i] = Emit(Label(l))
        BY <2>0, EmitFacts
    <3> QED BY <3>1 DEF CodegenInv, StackOK
  <2>3. P = {} \/ Q = {}
    <3>1. ASSUME NEW i \in P, NEW j \in Q PROVE FALSE
      <4>1. items[i].code = "label" /\ items[i].jt = l /\ i \in DOMAIN items
          BY <2>0, LabelFacts DEF PlacesOf
      <4>2. l \in L
          BY <1>1, <4>1 DEF Fragment
      <4> QED BY <1>1, <4>2 DEF PromisedBy
    <3> QED BY <3>1
  <2> HIDE DEF P, Q
  <2>4. ASSUME NEW X, \A i, j \in X : i = j
        PROVE  X = {} \/ \E x : X = {x}
      BY <2>4
  <2>5. P = {} \/ \E x : P = {x}
      BY <2>1, <2>4
  <2>6. Q = {} \/ \E x : Q = {x}
      BY <2>2, <2>4
  <2>7. /\ Cardinality(P) = 0 \/ Cardinality(P) = 1
        /\ Cardinality(Q) = 0 \/ Cardinality(Q) = 1
        /\ Cardinality(P) = 0 \/ Cardinality(Q) = 0
      BY <2>3, <2>5, <2>6, FS_EmptySet, FS_Singleton
  <2>8. Cardinality(P) + Cardinality(Q) <= 1
      BY <2>7
  <2> QED BY <2>8 DEF P, Q
<1> QED BY <1>2 DEF LabelsPlacedOnce

-----------------------------------------------------------------------------
(* The generator's state keeps its shape: no call and no item refers to a  *)
(* label that new_label has not handed out, whatever is compiled.          *)
THEOREM CodegenTypes ==
    ASSUME NEW S, Exprs \subseteq S, WellFormed(S)
    PROVE  Spec => []TypeOK
<1>1. CodegenInv(S) => TypeOK
    BY InvTypes
<1>2. Spec => []CodegenInv(S)
    BY CodegenInvariant
<1> QED BY <1>1, <1>2, PTL

(* Whatever expression _compile is given, every jump it emits points to a  *)
(* label behind it, placed or still to be placed by a caller: the lower    *)
(* bound and the dictionary lookup of _resolve never fail.                 *)
THEOREM AlwaysForward ==
    ASSUME NEW S, Exprs \subseteq S, WellFormed(S)
    PROVE  Spec => []JumpsForward
<1>1. CodegenInv(S) => JumpsForward
    BY InvForward
<1>2. Spec => []CodegenInv(S)
    BY CodegenInvariant
<1> QED BY <1>1, <1>2, PTL

(* No label is placed twice, whatever expression is compiled: _resolve's   *)
(* dictionary has one position per label.                                  *)
THEOREM AlwaysPlacedOnce ==
    ASSUME NEW S, Exprs \subseteq S, WellFormed(S)
    PROVE  Spec => []LabelsPlacedOnce
<1>1. CodegenInv(S) => LabelsPlacedOnce
    BY InvPlacedOnce
<1>2. Spec => []CodegenInv(S)
    BY CodegenInvariant
<1> QED BY <1>1, <1>2, PTL

(* Every program that compile_expression returns, for an expression of any *)
(* size, passes the kernel's checks on control flow: it ends in a ret and  *)
(* every jump, of at most MaxJump, lands inside it.                        *)
THEOREM AlwaysSound ==
    ASSUME NEW S, Exprs \subseteq S, WellFormed(S)
    PROVE  Spec => []ProgramSound
<1>1. CodegenInv(S) => ProgramSound
    BY DEF CodegenInv
<1>2. Spec => []CodegenInv(S)
    BY CodegenInvariant
<1> QED BY <1>1, <1>2, PTL
=============================================================================
