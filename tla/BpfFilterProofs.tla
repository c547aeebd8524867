-------------------------- MODULE BpfFilterProofs --------------------------
(***************************************************************************)
(* Proofs about --filter from its text to the verdict on a frame, for      *)
(* every text, every depth of Python's stack and every frame.              *)
(*                                                                         *)
(*  1. The lexer and the parser hand only well-formed trees to the code    *)
(*     generator, and the machine that runs a program, compiled or canned, *)
(*     stays inside it (FilterInv).                                        *)
(*  2. An accepted text has its literals read whole (LiteralInv).          *)
(*  3. The verdict on a frame is what the expression means (VerdictInv):   *)
(*     Keeps as equations, the claims that hold along the code of each     *)
(*     primitive and operator, resolution, the machine.                    *)
(*  4. The parser accepts exactly what the grammar derives (GrammarInv):   *)
(*     Derived as equations, what each waiting method can complete a node  *)
(*     to, the call stack.                                                 *)
(***************************************************************************)
EXTENDS FilterReference, BpfCodegenProofs, Induction

-----------------------------------------------------------------------------
(* Int10: f gives the values of the first digits of d.                     *)
Values(d, n, f) == /\ f \in [0..n -> Nat] /\ f[0] = 0
                   /\ \A i \in 1..n : f[i] = 10 * f[i - 1] + d[i]

LEMMA ValuesExist ==
    ASSUME NEW d \in Seq(0..9)
    PROVE  \E f : Values(d, Len(d), f)
<1> DEFINE S == {m \in Nat : m <= Len(d) => \E f : Values(d, m, f)}
<1>0. Len(d) \in Nat
    OBVIOUS
<1>1. 0 \in S
  <2> DEFINE g == [i \in 0..0 |-> 0]
  <2>1. Values(d, 0, g)
      BY DEF Values
  <2> QED BY <2>1
<1>2. ASSUME NEW m \in Nat, m \in S PROVE m + 1 \in S
  <2> SUFFICES ASSUME m + 1 <= Len(d) PROVE \E f : Values(d, m + 1, f)
      OBVIOUS
  <2>1. PICK f : Values(d, m, f)
      BY <1>0, <1>2
  <2>2. m + 1 \in 1..Len(d)
      BY <1>0
  <2>3. d[m + 1] \in Nat /\ f[m] \in Nat
    <3>1. d[m + 1] \in 0..9
        BY <2>2
    <3>2. f[m] \in Nat
        BY <2>1 DEF Values
    <3> QED BY <3>1, <3>2
  <2> DEFINE x == 10 * f[m] + d[m + 1]
             g == [i \in 0..(m + 1) |-> IF i <= m THEN f[i] ELSE x]
  <2>4. x \in Nat
      BY <2>3
  <2> HIDE DEF x
  <2>5. g \in [0..(m + 1) -> Nat] /\ g[0] = 0
      BY <2>1, <2>4 DEF Values
  <2>6. ASSUME NEW i \in 1..(m + 1) PROVE g[i] = 10 * g[i - 1] + d[i]
    <3>1. CASE i <= m
        BY <3>1, <2>1 DEF Values
    <3>2. CASE i = m + 1
        BY <3>2 DEF x
    <3> QED BY <3>1, <3>2
  <2>7. Values(d, m + 1, g)
    <3> HIDE DEF g
    <3> QED BY <2>5, <2>6 DEF Values
  <2> QED BY <2>7
<1> HIDE DEF S
<1>3. Nat \subseteq S
    BY <1>1, <1>2, SetInduction
<1>4. Len(d) \in S
    BY <1>0, <1>3
<1> QED BY <1>0, <1>4 DEF S

(* The value of a run of digits is a natural.                              *)
LEMMA Int10Nat ==
    ASSUME NEW d \in Seq(0..9)
    PROVE  Int10(d) \in Nat
<1> DEFINE n == Len(d)
           Step(v) == [i \in 0..n |-> IF i = 0 THEN 0 ELSE 10 * v[i - 1] + d[i]]
           v == CHOOSE g : g = Step(g)
<1>0. n \in Nat
    OBVIOUS
<1>1. Int10(d) = v[n]
    BY DEF Int10
<1>2. PICK f : Values(d, n, f)
    BY ValuesExist
<1> HIDE DEF n
<1>3. f = Step(f)
    BY <1>2 DEF Values
<1>4. v = Step(v)
  <2> HIDE DEF Step
  <2> QED BY <1>3
<1> HIDE DEF v
<1>5. v[0] = 0 /\ \A i \in 1..n : v[i] = 10 * v[i - 1] + d[i]
    BY <1>0, <1>4
<1> HIDE DEF Step
<1> DEFINE S == {m \in Nat : m <= n => v[m] \in Nat}
<1>6. 0 \in S
    BY <1>5
<1>7. ASSUME NEW m \in Nat, m \in S PROVE m + 1 \in S
  <2> SUFFICES ASSUME m + 1 <= n PROVE v[m + 1] \in Nat
      OBVIOUS
  <2>1. m + 1 \in 1..n /\ (m + 1) - 1 = m /\ v[m] \in Nat
      BY <1>0, <1>7
  <2>2. d[m + 1] \in Nat
      BY <2>1 DEF n
  <2>3. v[m + 1] = 10 * v[m] + d[m + 1]
      BY <1>5, <2>1
  <2> QED BY <2>1, <2>2, <2>3
<1> HIDE DEF S
<1>8. n \in S
    BY <1>0, <1>6, <1>7, SetInduction
<1> QED BY <1>0, <1>1, <1>8 DEF S

-----------------------------------------------------------------------------
(* The trees the grammar has, by the nesting of their operators.           *)
Dirs == {"any", "src", "dst"}
Primitives == {Proto(name) : name \in Protocols}
                \cup {Host(a, d) : a \in Nat, d \in Dirs}
                \cup {Port(p, d) : p \in Nat, d \in Dirs}
Grown(S) == S \cup {Not(e) : e \in S}
              \cup {And(l, r) : l \in S, r \in S}
              \cup {Or(l, r) : l \in S, r \in S}

Levels(n, f) == /\ f = [i \in 0..n |-> f[i]] /\ f[0] = Primitives
                /\ \A i \in 1..n : f[i] = Grown(f[i - 1])
LevelTo(n) == (CHOOSE f : Levels(n, f))[n]
AllTrees == UNION {LevelTo(n) : n \in Nat}

LEMMA LevelsExist ==
    ASSUME NEW n \in Nat
    PROVE  \E f : Levels(n, f)
<1> DEFINE S == {m \in Nat : \E f : Levels(m, f)}
<1>1. 0 \in S
  <2> DEFINE g == [i \in 0..0 |-> Primitives]
  <2>1. Levels(0, g)
      BY DEF Levels
  <2> QED BY <2>1
<1>2. ASSUME NEW m \in Nat, m \in S PROVE m + 1 \in S
  <2>1. PICK f : Levels(m, f)
      BY <1>2
  <2> DEFINE g == [i \in 0..(m + 1) |-> IF i <= m THEN f[i] ELSE Grown(f[m])]
  <2>2. g = [i \in 0..(m + 1) |-> g[i]] /\ g[0] = Primitives
      BY <2>1 DEF Levels
  <2>3. ASSUME NEW i \in 1..(m + 1) PROVE g[i] = Grown(g[i - 1])
    <3>1. CASE i <= m
      <4>1. i \in 1..m /\ i - 1 <= m /\ i - 1 \in 0..(m + 1) /\ i \in 0..(m + 1)
          BY <3>1
      <4>2. g[i] = f[i] /\ g[i - 1] = f[i - 1]
          BY <3>1, <4>1
      <4> QED BY <2>1, <4>1, <4>2 DEF Levels
    <3>2. CASE i = m + 1
        BY <3>2
    <3> QED BY <3>1, <3>2
  <2>4. Levels(m + 1, g)
    <3> HIDE DEF g
    <3> QED BY <2>2, <2>3 DEF Levels
  <2> QED BY <2>4
<1> HIDE DEF S
<1>3. n \in S
    BY <1>1, <1>2, SetInduction
<1> QED BY <1>3 DEF S

LEMMA LevelsUnique ==
    ASSUME NEW n \in Nat, NEW m \in Nat, NEW f, NEW g, Levels(n, f), Levels(m, g),
           NEW k \in Nat, k <= n, k <= m
    PROVE  f[k] = g[k]
<1> DEFINE S == {i \in Nat : i <= k => f[i] = g[i]}
<1>1. 0 \in S
    BY DEF Levels
<1>2. ASSUME NEW i \in Nat, i \in S PROVE i + 1 \in S
  <2> SUFFICES ASSUME i + 1 <= k PROVE f[i + 1] = g[i + 1]
      OBVIOUS
  <2>1. /\ f[i] = g[i] /\ i + 1 \in 1..n /\ i + 1 \in 1..m /\ (i + 1) - 1 = i
      BY <1>2
  <2> QED BY <2>1 DEF Levels
<1> HIDE DEF S
<1>3. k \in S
    BY <1>1, <1>2, SetInduction
<1> QED BY <1>3 DEF S

LEMMA LevelGrows ==
    /\ LevelTo(0) = Primitives
    /\ \A n \in Nat : LevelTo(n + 1) = Grown(LevelTo(n))
<1>1. \A n \in Nat : Levels(n, CHOOSE f : Levels(n, f))
    BY LevelsExist
<1>2. LevelTo(0) = Primitives
    BY <1>1 DEF Levels, LevelTo
<1>3. ASSUME NEW n \in Nat PROVE LevelTo(n + 1) = Grown(LevelTo(n))
  <2> DEFINE f == CHOOSE h : Levels(n, h)
             g == CHOOSE h : Levels(n + 1, h)
  <2>1. Levels(n, f) /\ Levels(n + 1, g)
      BY <1>1
  <2>2. LevelTo(n) = f[n] /\ LevelTo(n + 1) = g[n + 1]
      BY DEF LevelTo
  <2> HIDE DEF f, g
  <2>3. f[n] = g[n]
    <3>1. n <= n /\ n <= n + 1 /\ n + 1 \in Nat
        OBVIOUS
    <3> QED BY <2>1, <3>1, LevelsUnique
  <2>4. g[n + 1] = Grown(g[n])
    <3>1. n + 1 \in 1..(n + 1) /\ (n + 1) - 1 = n
        OBVIOUS
    <3> QED BY <2>1, <3>1 DEF Levels
  <2> QED BY <2>2, <2>3, <2>4
<1> QED BY <1>2, <1>3

LEMMA LevelMonotonic ==
    ASSUME NEW m \in Nat, NEW n \in Nat, m <= n
    PROVE  LevelTo(m) \subseteq LevelTo(n)
<1> DEFINE S == {k \in Nat : LevelTo(m) \subseteq LevelTo(m + k)}
<1>1. 0 \in S
    OBVIOUS
<1>2. ASSUME NEW k \in Nat, k \in S PROVE k + 1 \in S
  <2>1. m + k \in Nat /\ m + (k + 1) = (m + k) + 1
      OBVIOUS
  <2>2. LevelTo((m + k) + 1) = Grown(LevelTo(m + k))
      BY <2>1, LevelGrows
  <2> QED BY <1>2, <2>1, <2>2 DEF Grown
<1> HIDE DEF S
<1>3. n - m \in S
    BY <1>1, <1>2, SetInduction
<1>4. m + (n - m) = n
    OBVIOUS
<1> QED BY <1>3, <1>4 DEF S

(* Two trees have a level in common.                                       *)
LEMMA CommonLevel ==
    ASSUME NEW l \in AllTrees, NEW r \in AllTrees
    PROVE  \E n \in Nat : l \in LevelTo(n) /\ r \in LevelTo(n)
<1>1. PICK a \in Nat, b \in Nat : l \in LevelTo(a) /\ r \in LevelTo(b)
    BY DEF AllTrees
<1>2. CASE a <= b
    BY <1>1, <1>2, LevelMonotonic
<1>3. CASE b <= a
    BY <1>1, <1>3, LevelMonotonic
<1> QED BY <1>2, <1>3

(* Every node the parser can build is a tree,                              *)
LEMMA TreesClosed ==
    /\ \A name \in Protocols : Proto(name) \in AllTrees
    /\ \A a \in Nat, d \in Dirs : Host(a, d) \in AllTrees /\ Port(a, d) \in AllTrees
    /\ \A e \in AllTrees : Not(e) \in AllTrees
    /\ \A l, r \in AllTrees : And(l, r) \in AllTrees /\ Or(l, r) \in AllTrees
<1>1. LevelTo(0) \subseteq AllTrees
    BY DEF AllTrees
<1>2. \A n \in Nat : Grown(LevelTo(n)) \subseteq AllTrees
    BY LevelGrows DEF AllTrees
<1>3. \A e \in AllTrees : Not(e) \in AllTrees
    BY <1>2 DEF AllTrees, Grown
<1>4. ASSUME NEW l \in AllTrees, NEW r \in AllTrees
      PROVE  And(l, r) \in AllTrees /\ Or(l, r) \in AllTrees
  <2>1. PICK n \in Nat : l \in LevelTo(n) /\ r \in LevelTo(n)
      BY CommonLevel
  <2>2. And(l, r) \in Grown(LevelTo(n)) /\ Or(l, r) \in Grown(LevelTo(n))
      BY <2>1 DEF Grown
  <2> QED BY <1>2, <2>2
<1>5. /\ \A name \in Protocols : Proto(name) \in AllTrees
      /\ \A a \in Nat, d \in Dirs : Host(a, d) \in AllTrees /\ Port(a, d) \in AllTrees
    BY <1>1, LevelGrows DEF Primitives
<1> QED BY <1>3, <1>4, <1>5

(* and every tree is one the code generator knows.                         *)
LEMMA TreesWellFormed == WellFormed(AllTrees)
<1> DEFINE S == {n \in Nat : LevelTo(n) \subseteq Trees(AllTrees)}
<1>0. \A n \in Nat : LevelTo(n) \subseteq AllTrees
    BY DEF AllTrees
<1>1. 0 \in S
  <2>1. Primitives \subseteq AllTrees
      BY <1>0, LevelGrows
  <2>2. Primitives \subseteq Trees(AllTrees)
      BY <2>1 DEF Primitives, Trees, Proto, Host, Port, Protocols, Dirs
  <2> QED BY <2>2, LevelGrows
<1>2. ASSUME NEW n \in Nat, n \in S PROVE n + 1 \in S
  <2>1. LevelTo(n) \subseteq Trees(AllTrees) /\ LevelTo(n) \subseteq AllTrees
      BY <1>0, <1>2
  <2>2. Grown(LevelTo(n)) \subseteq AllTrees
      BY <1>0, LevelGrows
  <2>3. ASSUME NEW x \in Grown(LevelTo(n)) PROVE x \in Trees(AllTrees)
    <3>1. CASE x \in LevelTo(n)
        BY <2>1, <3>1
    <3>2. ASSUME NEW e \in LevelTo(n), x = Not(e) PROVE x \in Trees(AllTrees)
        BY <2>1, <2>2, <3>2 DEF Trees, Not
    <3>3. ASSUME NEW l \in LevelTo(n), NEW r \in LevelTo(n),
                 x = And(l, r) \/ x = Or(l, r)
          PROVE  x \in Trees(AllTrees)
      <4>1. x.op \in {"and", "or"} /\ x.left = l /\ x.right = r
          BY <3>3 DEF And, Or
      <4>2. x.left \in AllTrees /\ x.right \in AllTrees /\ x \in AllTrees
          BY <2>1, <2>2, <4>1
      <4> QED BY <4>1, <4>2 DEF Trees
    <3> QED BY <3>1, <3>2, <3>3 DEF Grown
  <2> QED BY <2>3, LevelGrows
<1> HIDE DEF S
<1>3. Nat \subseteq S
    BY <1>1, <1>2, SetInduction
<1> QED BY <1>3 DEF S, WellFormed, AllTrees

-----------------------------------------------------------------------------
(* What the lexer and the parser keep: pieces, tokens with as many runs of *)
(* digits as their kind has, and nodes that are trees.                     *)
TextPieces == [c : STRING \cup {"digits"}, t : STRING \cup {""}, d : Seq(0..9)]
Toks == {k \in [kind : {"ipv4", "number", "word", "(", ")"},
                text : STRING \cup {"", "unknown"}, nums : Seq(Seq(0..9))] :
            /\ k.kind = "ipv4" => Len(k.nums) = 4
            /\ k.kind = "number" => Len(k.nums) = 1}
Nodes == AllTrees \cup {Nil}
Waiting == [method : {"or_expr", "and_expr", "not_expr", "primary"}, node : Nodes]

ParserInv == /\ rest \in Seq(TextPieces)
             /\ tokens \in Seq(Toks)
             /\ pos \in Nat
             /\ callers \in Seq(Waiting)
             /\ result \in Nodes
             /\ at \in {"return", "parsed"} => result \in AllTrees

LEMMA ParserInitInv == ParserInit => ParserInv
<1> SUFFICES ASSUME ParserInit PROVE ParserInv
    OBVIOUS
<1>1. rest \in Seq(Pieces)
    BY ParserAssumption DEF ParserInit
<1>2. Pieces \subseteq TextPieces
    BY DEF Pieces, TextPieces
<1>3. rest \in Seq(TextPieces)
    BY <1>1, <1>2
<1> QED BY <1>3 DEF ParserInit, ParserInv, Nodes

(* A step of the lexer.                                                    *)
LEMMA LexedInv ==
    ASSUME ParserInv, NEW new \in Seq(Toks), NEW left \in Seq(TextPieces),
           Lexed(new, left)
    PROVE  ParserInv'
<1>1. tokens \o new \in Seq(Toks)
    BY DEF ParserInv
<1> QED BY <1>1 DEF Lexed, ParserInv

LEMMA TokenTypes ==
    /\ \A a, b, c, d \in Seq(0..9) : Token("ipv4", "", <<a, b, c, d>>) \in Toks
    /\ \A a \in Seq(0..9) : Token("number", "", <<a>>) \in Toks
    /\ \A k \in {"(", ")"} : Token(k, "", <<>>) \in Toks
    /\ \A t \in STRING \cup {"", "unknown"} : Token("word", t, <<>>) \in Toks
<1>1. \A a, b, c, d \in Seq(0..9) :
          /\ <<a, b, c, d>> \in Seq(Seq(0..9)) /\ Len(<<a, b, c, d>>) = 4
          /\ <<a>> \in Seq(Seq(0..9)) /\ Len(<<a>>) = 1
  <2> DEFINE D == Seq(0..9)
  <2> HIDE DEF D
  <2>1. \A a, b, c, d \in D :
            /\ <<a, b, c, d>> \in Seq(D) /\ Len(<<a, b, c, d>>) = 4
            /\ <<a>> \in Seq(D) /\ Len(<<a>>) = 1
      OBVIOUS
  <2> QED BY <2>1 DEF D
<1>2. <<>> \in Seq(Seq(0..9))
    OBVIOUS
<1> QED BY <1>1, <1>2 DEF Token, Toks

LEMMA Singleton ==
    ASSUME NEW S, NEW x \in S
    PROVE  <<x>> \in Seq(S)
    OBVIOUS

(* What is left behind a number of pieces, and the digits of a piece.      *)
LEMMA DropType ==
    ASSUME NEW S, NEW s \in Seq(S), NEW n \in Nat
    PROVE  Drop(s, n) \in Seq(S)
<1>1. n + 1 \in Nat /\ Len(s) \in Nat /\ n + 1 >= 1
    OBVIOUS
<1> QED BY <1>1 DEF Drop

LEMMA PieceTypes ==
    ASSUME ParserInv, NEW i \in DOMAIN rest
    PROVE  rest[i].d \in Seq(0..9) /\ rest[i].t \in STRING \cup {""}
<1>1. rest[i] \in TextPieces
    BY DEF ParserInv
<1> QED BY <1>1 DEF TextPieces

LEMMA LexIpv4Inv == ParserInv /\ LexIpv4 => ParserInv'
<1> SUFFICES ASSUME ParserInv, LexIpv4 PROVE ParserInv'
    OBVIOUS
<1> DEFINE d == rest[7].d
           n == IF Len(d) > 3 THEN 3 ELSE Len(d)
           new == <<Token("ipv4", "", <<rest[1].d, rest[3].d, rest[5].d,
                                        SubSeq(d, 1, n)>>)>>
           cut == IF n < Len(d) THEN <<Digits(Drop(d, n))>> ELSE <<>>
           left == cut \o Drop(rest, 7)
<1>1. rest \in Seq(TextPieces) /\ {1, 3, 5, 7} \subseteq DOMAIN rest
  <2>1. rest \in Seq(TextPieces) /\ Len(rest) >= 7
      BY DEF LexIpv4, AtIpv4, ParserInv
  <2>2. Len(rest) \in Nat /\ DOMAIN rest = 1..Len(rest)
      BY <2>1
  <2> QED BY <2>1, <2>2
<1>2. rest[1].d \in Seq(0..9) /\ rest[3].d \in Seq(0..9) /\ rest[5].d \in Seq(0..9)
      /\ d \in Seq(0..9)
    BY <1>1, PieceTypes
<1>3. Lexed(new, left)
    BY DEF LexIpv4
<1> HIDE DEF d
<1>4. n \in Nat /\ SubSeq(d, 1, n) \in Seq(0..9)
  <2>1. Len(d) \in Nat
      BY <1>2
  <2>2. n \in Nat /\ n <= Len(d)
      BY <2>1
  <2> HIDE DEF n
  <2> QED BY <1>2, <2>1, <2>2
<1> HIDE DEF n
<1>5. new \in Seq(Toks)
  <2>1. Token("ipv4", "", <<rest[1].d, rest[3].d, rest[5].d, SubSeq(d, 1, n)>>) \in Toks
      BY <1>2, <1>4, TokenTypes
  <2> QED BY <2>1, Singleton
<1>6. cut \in Seq(TextPieces)
  <2>1. Drop(d, n) \in Seq(0..9)
      BY <1>2, <1>4, DropType
  <2>2. Digits(Drop(d, n)) \in TextPieces
      BY <2>1 DEF Digits, TextPieces
  <2> QED BY <2>2
<1>7. Drop(rest, 7) \in Seq(TextPieces)
    BY <1>1, DropType
<1> HIDE DEF cut
<1>8. left \in Seq(TextPieces)
    BY <1>6, <1>7
<1> QED BY <1>3, <1>5, <1>8, LexedInv

LEMMA RestFacts ==
    ASSUME ParserInv, rest # <<>>
    PROVE  1 \in DOMAIN rest /\ Tail(rest) \in Seq(TextPieces) /\ Len(rest) \in Nat
           /\ Len(rest) >= 1
    BY DEF ParserInv

LEMMA LexNumberInv == ParserInv /\ LexNumber => ParserInv'
<1> SUFFICES ASSUME ParserInv, LexNumber PROVE ParserInv'
    OBVIOUS
<1>1. 1 \in DOMAIN rest /\ Tail(rest) \in Seq(TextPieces)
    BY RestFacts DEF LexNumber, Next1
<1>2. Token("number", "", <<rest[1].d>>) \in Toks
    BY <1>1, PieceTypes, TokenTypes
<1>3. <<Token("number", "", <<rest[1].d>>)>> \in Seq(Toks)
    BY <1>2, Singleton
<1> QED BY <1>1, <1>3, LexedInv DEF LexNumber

LEMMA LexWordInv == ParserInv /\ LexWord => ParserInv'
<1> SUFFICES ASSUME ParserInv, LexWord PROVE ParserInv'
    OBVIOUS
<1> DEFINE ends == {n \in 1..Len(rest) :
                        \A i \in 1..n : rest[i].c \in {"letters", "digits"}}
           n == CHOOSE m \in ends : \A k \in ends : k <= m
           text == IF n = 1 THEN rest[1].t ELSE "unknown"
<1>1. 1 \in DOMAIN rest /\ Len(rest) \in Nat /\ Len(rest) >= 1
      /\ rest \in Seq(TextPieces)
    BY RestFacts DEF LexWord, Next1, ParserInv
<1>2. 1 \in ends /\ ends \subseteq 0..Len(rest)
    BY <1>1 DEF LexWord, Next1
<1>3. Lexed(<<Token("word", text, <<>>)>>, Drop(rest, n))
    BY DEF LexWord
<1>4. n \in Nat
  <2> HIDE DEF ends
  <2>1. \E m \in ends : \A k \in ends : k <= m
      BY <1>1, <1>2, GreatestOf
  <2>2. n \in ends
      BY <2>1
  <2> HIDE DEF n
  <2> QED BY <1>1, <1>2, <2>2
<1> HIDE DEF n
<1>5. text \in STRING \cup {"", "unknown"}
    BY <1>1, PieceTypes
<1> HIDE DEF text
<1>6. Token("word", text, <<>>) \in Toks
    BY <1>5, TokenTypes
<1>7. <<Token("word", text, <<>>)>> \in Seq(Toks)
    BY <1>6, Singleton
<1>8. Drop(rest, n) \in Seq(TextPieces)
    BY <1>1, <1>4, DropType
<1> QED BY <1>3, <1>7, <1>8, LexedInv

LEMMA LexOtherInv == ParserInv /\ (LexParen \/ LexSpace) => ParserInv'
<1> SUFFICES ASSUME ParserInv, LexParen \/ LexSpace PROVE ParserInv'
    OBVIOUS
<1>1. Tail(rest) \in Seq(TextPieces)
    BY RestFacts DEF LexParen, LexSpace, Next1
<1>2. CASE LexParen
  <2>1. rest[1].c \in {"(", ")"}
      BY <1>2 DEF LexParen, Next1
  <2>2. Token(rest[1].c, "", <<>>) \in Toks
      BY <2>1, TokenTypes
  <2>3. <<Token(rest[1].c, "", <<>>)>> \in Seq(Toks)
      BY <2>2, Singleton
  <2> QED BY <1>1, <1>2, <2>3, LexedInv DEF LexParen
<1>3. CASE LexSpace
  <2>1. <<>> \in Seq(Toks)
      OBVIOUS
  <2> QED BY <1>1, <1>3, <2>1, LexedInv DEF LexSpace
<1> QED BY <1>2, <1>3

(* A call, a return or an exception of the parser.                         *)
LEMMA GotoInv ==
    ASSUME ParserInv, NEW method, NEW p \in Nat, NEW stack \in Seq(Waiting),
           NEW node \in Nodes, method \in {"return", "parsed"} => node \in AllTrees,
           Goto(method, p, stack, node)
    PROVE  ParserInv'
    BY DEF Goto, ParserInv

LEMMA RaiseInv ==
    ASSUME ParserInv, NEW error, error \notin {"return", "parsed"}, Raise(error)
    PROVE  ParserInv'
    BY DEF Raise, Goto, ParserInv

LEMMA FailInv == ParserInv /\ Fail => ParserInv'
    BY RaiseInv DEF Fail

(* A method calls another, which it waits for.                             *)
LEMMA CallerType ==
    /\ \A m \in {"or_expr", "and_expr", "not_expr", "primary"}, e \in Nodes :
           Caller(m, e) \in Waiting
    /\ Nil \in Nodes
    BY DEF Caller, Waiting, Nodes

LEMMA PushedType ==
    ASSUME NEW s \in Seq(Waiting), NEW e \in Nodes,
           NEW m \in {"or_expr", "and_expr", "not_expr", "primary"}
    PROVE  Append(s, Caller(m, e)) \in Seq(Waiting)
<1> DEFINE c == Caller(m, e)
<1>1. c \in Waiting
    BY CallerType
<1> HIDE DEF c
<1>2. Append(s, c) \in Seq(Waiting)
    BY <1>1
<1> QED BY <1>2 DEF c

LEMMA CallInv ==
    ParserInv /\ (OrExpr \/ AndExpr \/ NotExpr \/ Primary \/ LexEnds) => ParserInv'
<1> SUFFICES ASSUME ParserInv, OrExpr \/ AndExpr \/ NotExpr \/ Primary \/ LexEnds
             PROVE  ParserInv'
    OBVIOUS
<1>1. /\ pos \in Nat /\ pos + 1 \in Nat /\ callers \in Seq(Waiting)
      /\ Nil \in Nodes /\ <<>> \in Seq(Waiting) /\ 1 \in Nat
    BY CallerType DEF ParserInv
<1>2. \A m \in {"or_expr", "and_expr", "not_expr", "primary"} :
          Append(callers, Caller(m, Nil)) \in Seq(Waiting)
    BY <1>1, PushedType
<1>3. ASSUME NEW m \in {"or_expr", "and_expr", "not_expr", "primary", "primitive"},
             NEW p \in {1, pos, pos + 1},
             NEW s \in {<<>>, callers} \cup
                       {Append(callers, Caller(w, Nil)) :
                           w \in {"or_expr", "and_expr", "not_expr", "primary"}},
             Goto(m, p, s, Nil)
      PROVE  ParserInv'
  <2>1. p \in Nat /\ s \in Seq(Waiting) /\ m \notin {"return", "parsed"}
      BY <1>1, <1>2
  <2> QED BY <1>1, <1>3, <2>1, GotoInv
<1>4. CASE OrExpr
    BY <1>3, <1>4 DEF OrExpr
<1>5. CASE AndExpr
    BY <1>3, <1>5 DEF AndExpr
<1>6. CASE NotExpr
    BY <1>3, <1>6 DEF NotExpr
<1>7. CASE Primary
    BY <1>3, <1>7 DEF Primary
<1>8. CASE LexEnds
    BY <1>3, <1>8, FailInv DEF LexEnds
<1> QED BY <1>4, <1>5, <1>6, <1>7, <1>8

(* The exceptions.                                                         *)
LEMMA ErrorInv ==
    ParserInv /\ (LexFails \/ ParseTooDeep \/ PrimitivePortTooLong \/ PrimitiveFails)
        => ParserInv'
<1>1. ParserInv /\ (Raise("RecursionError") \/ Raise("ValueError")) => ParserInv'
    BY RaiseInv
<1>2. (LexFails => Fail) /\ (ParseTooDeep => Raise("RecursionError"))
    BY DEF LexFails, ParseTooDeep
<1>3. (PrimitivePortTooLong => Raise("ValueError")) /\ (PrimitiveFails => Fail)
    BY DEF PrimitivePortTooLong, PrimitiveFails
<1> QED BY <1>1, <1>2, <1>3, FailInv

(* The primitives: what was read is a protocol, an address or a port.      *)
LEMMA PrimitiveFacts ==
    ASSUME ParserInv
    PROVE  Direction \in Dirs /\ Past \in Nat
    BY DEF ParserInv, Direction, Past, Dirs

LEMMA KindIs ==
    ASSUME ParserInv, NEW p \in Nat, NEW k \in {"ipv4", "number"}, KindAt(p) = k
    PROVE  /\ tokens[p].nums \in Seq(Seq(0..9))
           /\ Len(tokens[p].nums) = IF k = "ipv4" THEN 4 ELSE 1
<1>1. p \in DOMAIN tokens /\ tokens[p].kind = k
    BY DEF KindAt
<1>2. tokens[p] \in Toks
    BY <1>1 DEF ParserInv
<1> QED BY <1>1, <1>2 DEF Toks

LEMMA OctetsNat ==
    ASSUME ParserInv, IsHost
    PROVE  \A n \in 1..4 : Octets[n] \in Nat
<1> DEFINE nums == tokens[Past + 1].nums
<1>1. nums \in Seq(Seq(0..9)) /\ Len(nums) = 4
    BY PrimitiveFacts, KindIs DEF IsHost
<1>2. ASSUME NEW n \in 1..4 PROVE Octets[n] \in Nat
  <2>1. nums[n] \in Seq(0..9)
    <3> DEFINE D == Seq(0..9)
    <3> HIDE DEF D, nums
    <3>1. nums \in Seq(D) /\ n \in 1..Len(nums)
        BY <1>1 DEF D
    <3>2. nums[n] \in D
        BY <3>1
    <3> QED BY <3>2 DEF D
  <2>2. Int10(nums[n]) \in Nat
      BY <2>1, Int10Nat
  <2> QED BY <2>2 DEF Octets
<1> QED BY <1>2

LEMMA PortNat ==
    ASSUME ParserInv, HasPort
    PROVE  Int10(PortDigits) \in Nat
<1> DEFINE nums == tokens[Past + 1].nums
<1>1. nums \in Seq(Seq(0..9)) /\ Len(nums) = 1
    BY PrimitiveFacts, KindIs DEF HasPort
<1>2. nums[1] \in Seq(0..9)
  <2> DEFINE D == Seq(0..9)
  <2> HIDE DEF D, nums
  <2>1. nums \in Seq(D) /\ 1 \in 1..Len(nums)
      BY <1>1 DEF D
  <2>2. nums[1] \in D
      BY <2>1
  <2> QED BY <2>2 DEF D
<1> QED BY <1>2, Int10Nat DEF PortDigits

LEMMA PrimitiveInv ==
    ParserInv /\ (PrimitiveProto \/ PrimitiveHost \/ PrimitivePort) => ParserInv'
<1> SUFFICES ASSUME ParserInv, PrimitiveProto \/ PrimitiveHost \/ PrimitivePort
             PROVE  ParserInv'
    OBVIOUS
<1>1. /\ Direction \in Dirs /\ Past + 1 \in Nat /\ Past + 2 \in Nat
      /\ callers \in Seq(Waiting)
    BY PrimitiveFacts DEF ParserInv
<1>2. ASSUME NEW e \in AllTrees, NEW p \in Nat, Reduce(e, p)
      PROVE  ParserInv'
  <2>1. e \in Nodes
      BY DEF Nodes
  <2> QED BY <1>1, <1>2, <2>1, GotoInv DEF Reduce
<1>3. CASE PrimitiveProto
  <2>1. Proto(WordAt(Past)) \in AllTrees
      BY <1>3, TreesClosed DEF PrimitiveProto, IsProto
  <2> QED BY <1>1, <1>2, <1>3, <2>1 DEF PrimitiveProto
<1>4. CASE PrimitiveHost
  <2> DEFINE a == 16777216 * Octets[1] + 65536 * Octets[2] + 256 * Octets[3] + Octets[4]
  <2>1. a \in Nat
    <3>1. Octets[1] \in Nat /\ Octets[2] \in Nat /\ Octets[3] \in Nat /\ Octets[4] \in Nat
        BY <1>4, OctetsNat DEF PrimitiveHost
    <3> QED BY <3>1
  <2>2. Reduce(Host(a, Direction), Past + 2)
      BY <1>4 DEF PrimitiveHost
  <2> HIDE DEF a
  <2>3. Host(a, Direction) \in AllTrees
      BY <1>1, <2>1, TreesClosed
  <2> QED BY <1>1, <1>2, <2>2, <2>3
<1>5. CASE PrimitivePort
  <2>1. Port(Int10(PortDigits), Direction) \in AllTrees
      BY <1>1, <1>5, PortNat, TreesClosed DEF PrimitivePort
  <2> QED BY <1>1, <1>2, <1>5, <2>1 DEF PrimitivePort
<1> QED BY <1>3, <1>4, <1>5

(* A method returns: what it returns is a tree.                            *)
LEMMA ReturnFacts ==
    ASSUME ParserInv, NEW method, Returning(method)
    PROVE  /\ Popped \in Seq(Waiting) /\ callers[Len(callers)] \in Waiting
           /\ callers[Len(callers)].node \in Nodes
           /\ result \in AllTrees /\ pos \in Nat /\ pos + 1 \in Nat
<1>1. /\ callers \in Seq(Waiting) /\ callers # <<>> /\ result \in AllTrees /\ pos \in Nat
    BY DEF ParserInv, Returning
<1>2. Len(callers) \in Nat /\ Len(callers) >= 1
    BY <1>1
<1>3. callers[Len(callers)] \in Waiting
    BY <1>1, <1>2
<1>4. Popped \in Seq(Waiting)
    BY <1>1, <1>2 DEF Popped
<1> QED BY <1>1, <1>3, <1>4 DEF Waiting

LEMMA LoopInv ==
    ASSUME ParserInv, NEW method \in {"and_expr", "or_expr"}, NEW word, NEW joined,
           NEW operand \in {"not_expr", "and_expr"}, Returning(method),
           joined \in AllTrees,
           IF WordAt(pos) = word
           THEN Goto(operand, pos + 1, Append(Popped, Caller(method, joined)), Nil)
           ELSE Goto("return", pos, Popped, joined)
    PROVE  ParserInv'
<1>1. joined \in Nodes /\ Nil \in Nodes /\ operand \notin {"return", "parsed"}
    BY DEF Nodes
<1>2. Popped \in Seq(Waiting) /\ pos \in Nat /\ pos + 1 \in Nat
    BY ReturnFacts
<1>3. Append(Popped, Caller(method, joined)) \in Seq(Waiting)
    BY <1>1, <1>2, PushedType
<1>4. CASE WordAt(pos) = word
    BY <1>1, <1>2, <1>3, <1>4, GotoInv
<1>5. CASE WordAt(pos) # word
    BY <1>1, <1>2, <1>5, GotoInv
<1> QED BY <1>4, <1>5

LEMMA ReturnInv ==
    ParserInv /\ (ReturnToNot \/ ReturnToAnd \/ ReturnToOr \/ ReturnToPrimary)
        => ParserInv'
<1> SUFFICES ASSUME ParserInv,
                    ReturnToNot \/ ReturnToAnd \/ ReturnToOr \/ ReturnToPrimary
             PROVE  ParserInv'
    OBVIOUS
<1> DEFINE node == callers[Len(callers)].node
<1>1. CASE ReturnToNot
  <2>1. Popped \in Seq(Waiting) /\ pos \in Nat /\ result \in AllTrees
      BY <1>1, ReturnFacts DEF ReturnToNot
  <2>2. Not(result) \in AllTrees /\ Not(result) \in Nodes
      BY <2>1, TreesClosed DEF Nodes
  <2> QED BY <1>1, <2>1, <2>2, GotoInv DEF ReturnToNot
<1>2. CASE ReturnToAnd
  <2> DEFINE joined == IF node = Nil THEN result ELSE And(node, result)
  <2>1. Returning("and_expr")
      BY <1>2 DEF ReturnToAnd, Loop
  <2>2. node \in Nodes /\ result \in AllTrees
      BY <2>1, ReturnFacts
  <2>3. joined \in AllTrees
      BY <2>2, TreesClosed DEF Nodes
  <2>4. IF WordAt(pos) = "and"
        THEN Goto("not_expr", pos + 1, Append(Popped, Caller("and_expr", joined)), Nil)
        ELSE Goto("return", pos, Popped, joined)
      BY <1>2 DEF ReturnToAnd, Loop
  <2> HIDE DEF joined
  <2> QED BY <2>1, <2>3, <2>4, LoopInv
<1>3. CASE ReturnToOr
  <2> DEFINE joined == IF node = Nil THEN result ELSE Or(node, result)
  <2>1. Returning("or_expr")
      BY <1>3 DEF ReturnToOr, Loop
  <2>2. node \in Nodes /\ result \in AllTrees
      BY <2>1, ReturnFacts
  <2>3. joined \in AllTrees
      BY <2>2, TreesClosed DEF Nodes
  <2>4. IF WordAt(pos) = "or"
        THEN Goto("and_expr", pos + 1, Append(Popped, Caller("or_expr", joined)), Nil)
        ELSE Goto("return", pos, Popped, joined)
      BY <1>3 DEF ReturnToOr, Loop
  <2> HIDE DEF joined
  <2> QED BY <2>1, <2>3, <2>4, LoopInv
<1>4. CASE ReturnToPrimary
  <2>1. Popped \in Seq(Waiting) /\ pos + 1 \in Nat /\ result \in AllTrees
      BY <1>4, ReturnFacts DEF ReturnToPrimary
  <2>2. result \in Nodes
      BY <2>1 DEF Nodes
  <2>3. CASE KindAt(pos) = ")"
      BY <1>4, <2>1, <2>2, <2>3, GotoInv DEF ReturnToPrimary
  <2> QED BY <1>4, <2>3, FailInv DEF ReturnToPrimary
<1> QED BY <1>1, <1>2, <1>3, <1>4

LEMMA ParserStep ==
    ASSUME ParserInv, ParserNext
    PROVE  ParserInv'
<1>1. CASE Parse
    BY <1>1, FailInv DEF Parse, Raise, Goto, ParserInv
<1> QED BY <1>1, LexIpv4Inv, LexNumberInv, LexWordInv, LexOtherInv, CallInv,
           ErrorInv, PrimitiveInv, ReturnInv DEF ParserNext

-----------------------------------------------------------------------------
(* A program that control cannot leave.                                    *)
Closed(p) ==
    /\ p \in Seq(Items)
    /\ Len(p) > 0
    /\ p[Len(p)].code = "ret"
    /\ \A i \in 1..Len(p) : p[i].code \in Jumps =>
           \A o \in {p[i].jt, p[i].jf} : o \in 0..MaxJump /\ i + 1 + o <= Len(p)

CannedPrograms == {CANNED_FILTERS[name] : name \in DOMAIN CANNED_FILTERS}

LEMMA PlainType ==
    ASSUME NEW c \in {"ldh", "ldb", "ret"}, NEW k \in Nat
    PROVE  /\ Insn(c, 0, 0, k) \in Items
           /\ Insn(c, 0, 0, k).code = c /\ Insn(c, 0, 0, k).code \notin Jumps
    BY DEF Insn, Items, Codes, Jumps

LEMMA JeqType ==
    ASSUME NEW t \in 0..6, NEW f \in 0..6, NEW k \in Nat
    PROVE  /\ Insn("jeq", t, f, k) \in Items
           /\ Insn("jeq", t, f, k).jt = t /\ Insn("jeq", t, f, k).jf = f
    BY DEF Insn, Items, Codes

(* _TCP and _UDP: every jump stays inside.                                 *)
LEMMA TransportClosed ==
    ASSUME NEW proto \in Nat
    PROVE  Closed(Transport(proto))
<1> DEFINE a1 == Insn("ldh", 0, 0, 12)      a2 == Insn("jeq", 0, 5, IPV6)
           a3 == Insn("ldb", 0, 0, 20)      a4 == Insn("jeq", 6, 0, proto)
           a5 == Insn("jeq", 0, 6, FRAGMENT_EXT_HEADER)
           a6 == Insn("ldb", 0, 0, 54)      a7 == Insn("jeq", 3, 4, proto)
           a8 == Insn("jeq", 0, 3, IPV4)
           a9 == Insn("ldb", 0, 0, 23)      a10 == Insn("jeq", 0, 1, proto)
           a11 == Insn("ret", 0, 0, ACCEPT_LENGTH)  a12 == Insn("ret", 0, 0, 0)
           p == <<a1, a2, a3, a4, a5, a6, a7, a8, a9, a10, a11, a12>>
<1>2. /\ IPV6 \in Nat /\ IPV4 \in Nat /\ FRAGMENT_EXT_HEADER \in Nat
      /\ ACCEPT_LENGTH \in Nat
    BY DEF IPV6, IPV4, FRAGMENT_EXT_HEADER, ACCEPT_LENGTH
<1>3. /\ a1 \in Items /\ a1.code \notin Jumps /\ a3 \in Items /\ a3.code \notin Jumps
      /\ a6 \in Items /\ a6.code \notin Jumps /\ a9 \in Items /\ a9.code \notin Jumps
      /\ a11 \in Items /\ a11.code \notin Jumps
      /\ a12 \in Items /\ a12.code \notin Jumps /\ a12.code = "ret"
  <2>1. a1 \in Items /\ a1.code \notin Jumps
      BY PlainType
  <2>2. a3 \in Items /\ a3.code \notin Jumps
      BY PlainType
  <2>3. a6 \in Items /\ a6.code \notin Jumps
      BY PlainType
  <2>4. a9 \in Items /\ a9.code \notin Jumps
      BY PlainType
  <2>5. a11 \in Items /\ a11.code \notin Jumps
      BY <1>2, PlainType
  <2>6. a12 \in Items /\ a12.code \notin Jumps /\ a12.code = "ret"
      BY PlainType
  <2> QED BY <2>1, <2>2, <2>3, <2>4, <2>5, <2>6
<1>4. /\ a2 \in Items /\ a2.jt = 0 /\ a2.jf = 5 /\ a4 \in Items /\ a4.jt = 6 /\ a4.jf = 0
      /\ a5 \in Items /\ a5.jt = 0 /\ a5.jf = 6 /\ a7 \in Items /\ a7.jt = 3 /\ a7.jf = 4
      /\ a8 \in Items /\ a8.jt = 0 /\ a8.jf = 3
      /\ a10 \in Items /\ a10.jt = 0 /\ a10.jf = 1
  <2>1. a2 \in Items /\ a2.jt = 0 /\ a2.jf = 5
      BY <1>2, JeqType
  <2>2. a4 \in Items /\ a4.jt = 6 /\ a4.jf = 0
      BY JeqType
  <2>3. a5 \in Items /\ a5.jt = 0 /\ a5.jf = 6
      BY <1>2, JeqType
  <2>4. a7 \in Items /\ a7.jt = 3 /\ a7.jf = 4
      BY JeqType
  <2>5. a8 \in Items /\ a8.jt = 0 /\ a8.jf = 3
      BY <1>2, JeqType
  <2>6. a10 \in Items /\ a10.jt = 0 /\ a10.jf = 1
      BY JeqType
  <2> QED BY <2>1, <2>2, <2>3, <2>4, <2>5, <2>6
<1>5. p = Transport(proto)
    BY DEF Transport, Ret
<1> HIDE DEF a1, a2, a3, a4, a5, a6, a7, a8, a9, a10, a11, a12
<1>6. /\ p \in Seq(Items) /\ Len(p) = 12
      /\ p[1] = a1 /\ p[2] = a2 /\ p[3] = a3 /\ p[4] = a4 /\ p[5] = a5 /\ p[6] = a6
      /\ p[7] = a7 /\ p[8] = a8 /\ p[9] = a9 /\ p[10] = a10 /\ p[11] = a11
      /\ p[12] = a12
    BY <1>3, <1>4
<1> HIDE DEF p
<1>7. MaxJump \in Nat /\ MaxJump >= 6
    BY BpfAssumption, CannedFit
<1>8. ASSUME NEW i \in 1..Len(p), p[i].code \in Jumps, NEW o \in {p[i].jt, p[i].jf}
      PROVE  o \in 0..MaxJump /\ i + 1 + o <= Len(p)
  <2>1. i \in {1, 2, 3, 4, 5, 6, 7, 8, 9, 10, 11, 12}
      BY <1>6
  <2>2. i \in {2, 4, 5, 7, 8, 10}
      BY <1>3, <1>6, <1>8, <2>1
  <2>3. o \in 0..6 /\ i + 1 + o <= 12
      BY <1>4, <1>6, <1>8, <2>2
  <2> QED BY <1>6, <1>7, <2>3
<1> QED BY <1>3, <1>5, <1>6, <1>8 DEF Closed

(* _ARP and _IP6.                                                          *)
LEMMA EtherTypeClosed ==
    ASSUME NEW type \in Nat
    PROVE  Closed(EtherType(type))
<1> DEFINE a1 == Insn("ldh", 0, 0, 12)      a2 == Insn("jeq", 0, 1, type)
           a3 == Insn("ret", 0, 0, ACCEPT_LENGTH)  a4 == Insn("ret", 0, 0, 0)
           p == <<a1, a2, a3, a4>>
<1>1. a1 \in Items /\ a1.code \notin Jumps
    BY PlainType
<1>2. /\ a3 \in Items /\ a3.code \notin Jumps
      /\ a4 \in Items /\ a4.code \notin Jumps /\ a4.code = "ret"
      /\ a2 \in Items /\ a2.jt = 0 /\ a2.jf = 1
  <2>1. a3 \in Items /\ a3.code \notin Jumps
      BY PlainType DEF ACCEPT_LENGTH
  <2>2. a4 \in Items /\ a4.code \notin Jumps /\ a4.code = "ret"
      BY PlainType
  <2>3. a2 \in Items /\ a2.jt = 0 /\ a2.jf = 1
      BY JeqType
  <2> QED BY <2>1, <2>2, <2>3
<1>3. p = EtherType(type)
    BY DEF EtherType, Ret
<1> HIDE DEF a1, a2, a3, a4
<1>4. /\ p \in Seq(Items) /\ Len(p) = 4
      /\ p[1] = a1 /\ p[2] = a2 /\ p[3] = a3 /\ p[4] = a4
    BY <1>1, <1>2
<1> HIDE DEF p
<1>5. MaxJump \in Nat /\ MaxJump >= 6
    BY BpfAssumption, CannedFit
<1>6. ASSUME NEW i \in 1..Len(p), p[i].code \in Jumps, NEW o \in {p[i].jt, p[i].jf}
      PROVE  o \in 0..MaxJump /\ i + 1 + o <= Len(p)
  <2>1. i = 2
      BY <1>1, <1>2, <1>4, <1>6
  <2> QED BY <1>2, <1>4, <1>5, <2>1
<1> QED BY <1>2, <1>3, <1>4, <1>6 DEF Closed

LEMMA CannedClosed ==
    ASSUME NEW p \in CannedPrograms
    PROVE  Closed(p)
<1>1. /\ TCP \in Nat /\ UDP \in Nat /\ ARP \in Nat /\ IPV6 \in Nat
    BY DEF TCP, UDP, ARP, IPV6
<1>2. p \in {Transport(TCP), Transport(UDP), EtherType(ARP), EtherType(IPV6)}
    BY DEF CannedPrograms, CANNED_FILTERS
<1> QED BY <1>1, <1>2, TransportClosed, EtherTypeClosed

-----------------------------------------------------------------------------
(* A canned name is never lexed; any other text is compiled.  The machine  *)
(* runs only once there is a program, inside it.                           *)
CannedInv == /\ at = "lexing"
             /\ todo = <<>> /\ items = <<>> /\ labels = 0
             /\ phase \in {"idle", "done"}
             /\ phase = "idle" => program = <<>>
             /\ phase = "done" => program \in CannedPrograms

VmInv == running => phase = "done" /\ pc \in 1..Len(program)

FilterInv == /\ IsCanned => CannedInv
             /\ ~IsCanned => CodegenInv(AllTrees) /\ ParserInv
             /\ VmInv

(* Either way control cannot leave the program.                            *)
LEMMA ProgramClosed ==
    ASSUME FilterInv, phase = "done"
    PROVE  Closed(program)
<1>1. CASE IsCanned
    BY <1>1, CannedClosed DEF FilterInv, CannedInv
<1>2. CASE ~IsCanned
    BY <1>2 DEF FilterInv, CodegenInv, ProgramSound, Closed
<1> QED BY <1>1, <1>2

LEMMA FilterInitInv == FilterInit => FilterInv
<1> SUFFICES ASSUME FilterInit PROVE FilterInv
    OBVIOUS
<1>1. /\ todo = <<>> /\ items = <<>> /\ labels = 0 /\ phase = "idle"
      /\ program = <<>> /\ running = FALSE /\ ParserInit /\ at = "lexing"
    BY DEF FilterInit, ParserInit
<1>2. ParserInv
    BY <1>1, ParserInitInv
<1>3. StreamInv
  <2>1. Fragment(items, PromisedLabels, {})
      BY <1>1, FragmentEmpty
  <2> QED BY <2>1 DEF StreamInv
<1>4. StackOK(todo, labels, AllTrees)
    BY <1>1 DEF StackOK
<1>5. CodegenInv(AllTrees)
  <2>1. labels \in Nat /\ program \in Seq(Items)
      BY <1>1
  <2>2. PhaseInv /\ ProgramSound /\ OwnLoads
      BY <1>1 DEF PhaseInv, ProgramSound, OwnLoads
  <2> QED BY <1>3, <1>4, <2>1, <2>2 DEF CodegenInv
<1> QED BY <1>1, <1>2, <1>5 DEF FilterInv, CannedInv, VmInv

(* What the compiler leaves alone.                                         *)
LEMMA SameSource ==
    ASSUME source' = source
    PROVE  IsCanned' <=> IsCanned
    BY DEF IsCanned

LEMMA ParserKeepsSource == ParserNext => source' = source
<1>1. \A m, p, c, e : Goto(m, p, c, e) => source' = source
    BY DEF Goto
<1>2. \A new, left : Lexed(new, left) => source' = source
    BY DEF Lexed
<1>3. LexIpv4 \/ LexNumber \/ LexWord \/ LexParen \/ LexSpace => source' = source
    BY <1>2 DEF LexIpv4, LexNumber, LexWord, LexParen, LexSpace
<1>4. (\E error : Raise(error)) \/ Fail => source' = source
    BY <1>1 DEF Raise, Fail
<1>5. LexFails \/ LexEnds \/ ParseTooDeep \/ PrimitivePortTooLong \/ PrimitiveFails
          \/ Parse => source' = source
  <2>1. PrimitiveFails => Fail
      BY DEF PrimitiveFails
  <2>2. PrimitivePortTooLong => Raise("ValueError")
      BY DEF PrimitivePortTooLong
  <2>3. LexFails \/ LexEnds \/ ParseTooDeep \/ Parse => source' = source
      BY <1>1, <1>4 DEF LexFails, LexEnds, ParseTooDeep, Parse
  <2> QED BY <1>4, <2>1, <2>2, <2>3
<1>6. OrExpr \/ AndExpr \/ NotExpr \/ Primary => source' = source
    BY <1>1 DEF OrExpr, AndExpr, NotExpr, Primary
<1>7. PrimitiveProto \/ PrimitiveHost \/ PrimitivePort => source' = source
    BY <1>1 DEF PrimitiveProto, PrimitiveHost, PrimitivePort, Reduce
<1>8. ReturnToNot \/ ReturnToPrimary => source' = source
    BY <1>1, <1>4 DEF ReturnToNot, ReturnToPrimary
<1>9. ReturnToAnd => source' = source
    BY DEF ReturnToAnd, Loop, Goto
<1>10. ReturnToOr => source' = source
    BY DEF ReturnToOr, Loop, Goto
<1> QED BY <1>3, <1>5, <1>6, <1>7, <1>8, <1>9, <1>10 DEF ParserNext

LEMMA CompilerUnchanged ==
    ASSUME FilterInv, UNCHANGED compiler
    PROVE  /\ IsCanned' => CannedInv'
           /\ ~IsCanned' => CodegenInv(AllTrees)' /\ ParserInv'
<1>1. UNCHANGED <<source, rest, tokens, at, pos, callers, result>>
      /\ UNCHANGED vars
    BY DEF compiler, parserVars
<1>2. UNCHANGED <<expr, todo, items, labels, phase, program>>
    BY <1>1 DEF vars
<1>3. ~IsCanned => CodegenInv(AllTrees)'
    BY <1>1, CodegenStutter DEF FilterInv
<1>4. ~IsCanned => ParserInv'
    BY <1>1 DEF FilterInv, ParserInv
<1>5. IsCanned => CannedInv'
    BY <1>1, <1>2 DEF FilterInv, CannedInv
<1> QED BY <1>1, <1>3, <1>4, <1>5, SameSource

LEMMA VmUnchanged ==
    ASSUME FilterInv, UNCHANGED vm, phase = "done" => UNCHANGED <<phase, program>>
    PROVE  VmInv'
    BY DEF FilterInv, VmInv, vm

LEMMA UseCannedStep == FilterInv /\ UseCanned /\ UNCHANGED vm => FilterInv'
<1> SUFFICES ASSUME FilterInv, UseCanned, UNCHANGED vm PROVE FilterInv'
    OBVIOUS
<1>1. /\ IsCanned /\ phase = "idle" /\ phase' = "done" /\ UNCHANGED <<todo, items, labels>>
      /\ program' = CANNED_FILTERS[source[1].t] /\ UNCHANGED <<source, at>>
    BY DEF UseCanned, parserVars
<1>2. program' \in CannedPrograms
    BY <1>1 DEF IsCanned, CannedPrograms
<1>3. CannedInv'
    BY <1>1, <1>2 DEF FilterInv, CannedInv
<1>4. VmInv'
    BY <1>1, VmUnchanged
<1> QED BY <1>1, <1>3, <1>4, SameSource DEF FilterInv

LEMMA ParseTextStep == FilterInv /\ ParseText /\ UNCHANGED vm => FilterInv'
<1> SUFFICES ASSUME FilterInv, ParseText, UNCHANGED vm PROVE FilterInv'
    OBVIOUS
<1>1. ~IsCanned /\ ParserNext /\ UNCHANGED vars
    BY DEF ParseText
<1>2. ParserInv'
    BY <1>1, ParserStep DEF FilterInv
<1>3. CodegenInv(AllTrees)'
    BY <1>1, CodegenStutter DEF FilterInv
<1>4. source' = source
    BY <1>1, ParserKeepsSource
<1>5. VmInv'
    BY <1>1, VmUnchanged DEF vars
<1> QED BY <1>1, <1>2, <1>3, <1>4, <1>5, SameSource DEF FilterInv

LEMMA CompileParsedStep == FilterInv /\ CompileParsed /\ UNCHANGED vm => FilterInv'
<1> SUFFICES ASSUME FilterInv, CompileParsed, UNCHANGED vm PROVE FilterInv'
    OBVIOUS
<1>1. /\ phase = "idle" /\ at = "parsed" /\ todo' = Frame(result) /\ labels' = 2
      /\ phase' = "compiling" /\ UNCHANGED <<items, program>>
      /\ UNCHANGED <<source, rest, tokens, at, pos, callers, result>>
    BY DEF CompileParsed, parserVars
<1>2. ~IsCanned
    BY <1>1 DEF FilterInv, CannedInv
<1>3. CodegenInv(AllTrees) /\ ParserInv /\ result \in AllTrees
    BY <1>1, <1>2 DEF FilterInv, ParserInv
<1>4. items' = <<>> /\ program' = <<>>
    BY <1>1, <1>3 DEF CodegenInv, PhaseInv
<1>5. StackOK(todo', labels', AllTrees) /\ todo' # <<>>
    BY <1>1, <1>3, FrameStack
<1>6. StreamInv'
  <2>1. Fragment(items', PromisedLabels', {})
      BY <1>4, FragmentEmpty
  <2> QED BY <2>1 DEF StreamInv
<1>7. CodegenInv(AllTrees)'
  <2>1. labels' \in Nat /\ program' \in Seq(Items)
      BY <1>1, <1>4
  <2>2. PhaseInv' /\ ProgramSound' /\ OwnLoads'
      BY <1>1, <1>4, <1>5 DEF PhaseInv, ProgramSound, OwnLoads
  <2> QED BY <1>5, <1>6, <2>1, <2>2 DEF CodegenInv
<1>8. ParserInv'
    BY <1>1, <1>3 DEF ParserInv
<1>9. VmInv'
    BY <1>1, VmUnchanged
<1> QED BY <1>1, <1>2, <1>7, <1>8, <1>9, SameSource DEF FilterInv

(* A step of the code generator, which has nothing to do for a canned name *)
(* and nothing more to do once there is a program.                         *)
LEMMA GeneratorStep ==
    FilterInv /\ Next /\ UNCHANGED parserVars /\ UNCHANGED vm => FilterInv'
<1> SUFFICES ASSUME FilterInv, Next, UNCHANGED parserVars, UNCHANGED vm
             PROVE  FilterInv'
    OBVIOUS
<1>1. UNCHANGED <<source, rest, tokens, at, pos, callers, result>>
    BY DEF parserVars
<1>2. phase \in {"idle", "done"} => UNCHANGED vars
    BY DEF Next, CompileTooDeep, CompilePrimitive, CompileNot, CompileAnd, CompileOr,
           CompileCall, EmitItem, Resolve, ResolveFails, Returned
<1>3. CASE IsCanned
  <2>1. UNCHANGED <<todo, items, labels, phase, program>>
      BY <1>2, <1>3 DEF FilterInv, CannedInv, vars
  <2>2. CannedInv' /\ VmInv'
      BY <1>1, <1>3, <2>1, VmUnchanged DEF FilterInv, CannedInv
  <2> QED BY <1>1, <1>3, <2>2, SameSource DEF FilterInv
<1>4. CASE ~IsCanned
  <2>1. CodegenInv(AllTrees)'
      BY <1>4, CodegenNext, TreesWellFormed DEF FilterInv
  <2>2. ParserInv'
      BY <1>1, <1>4 DEF FilterInv, ParserInv
  <2>3. VmInv'
      BY <1>2, VmUnchanged DEF vars
  <2> QED BY <1>1, <1>4, <2>1, <2>2, <2>3, SameSource DEF FilterInv
<1> QED BY <1>3, <1>4

(* The machine: a load or a jump is never the last instruction.            *)
LEMMA MachineStep ==
    FilterInv /\ ((\E p \in Frames : Deliver(p)) \/ StepLoad \/ StepLoadOutside
                     \/ StepJump \/ StepRet)
        => FilterInv'
<1> SUFFICES ASSUME FilterInv,
                    (\E p \in Frames : Deliver(p)) \/ StepLoad \/ StepLoadOutside
                       \/ StepJump \/ StepRet
             PROVE  FilterInv'
    OBVIOUS
<1>1. UNCHANGED compiler
    BY DEF Deliver, StepLoad, StepLoadOutside, StepJump, StepRet
<1>2. UNCHANGED <<phase, program>>
    BY <1>1 DEF compiler, vars
<1>3. /\ IsCanned' => CannedInv'
      /\ ~IsCanned' => CodegenInv(AllTrees)' /\ ParserInv'
    BY <1>1, CompilerUnchanged
<1>4. VmInv'
  <2>1. CASE \E p \in Frames : Deliver(p)
    <3>1. phase = "done" /\ pc' = 1
        BY <2>1 DEF Deliver
    <3>2. Len(program) \in Nat /\ Len(program) > 0
        BY <3>1, ProgramClosed DEF Closed
    <3> QED BY <1>2, <3>1, <3>2 DEF VmInv
  <2>2. CASE StepLoadOutside \/ StepRet
      BY <2>2 DEF StepLoadOutside, StepRet, VmInv
  <2>3. CASE StepLoad \/ StepJump
    <3> DEFINE i == program[pc]  n == Len(program)
    <3>1. running /\ phase = "done" /\ pc \in 1..n
        BY <2>3 DEF StepLoad, StepJump, At, FilterInv, VmInv
    <3>2. /\ n \in Nat /\ program[n].code = "ret"
          /\ i.code \in Jumps => /\ i.jt \in Nat /\ pc + 1 + i.jt <= n
                                 /\ i.jf \in Nat /\ pc + 1 + i.jf <= n
      <4>1. Closed(program)
          BY <3>1, ProgramClosed
      <4>2. MaxJump \in Nat
          BY BpfAssumption
      <4> QED BY <3>1, <4>1, <4>2 DEF Closed
    <3>3. CASE StepLoad
      <4>1. i.code \in Loads /\ pc' = pc + 1
          BY <3>3 DEF StepLoad, At
      <4>2. pc # n
          BY <3>2, <4>1 DEF Loads, AccLoads
      <4>3. pc' \in 1..n
          BY <3>1, <3>2, <4>1, <4>2
      <4> QED BY <1>2, <3>1, <4>3 DEF VmInv
    <3>4. CASE StepJump
      <4>1. i.code \in Jumps /\ (pc' = pc + 1 + i.jt \/ pc' = pc + 1 + i.jf)
          BY <3>4 DEF StepJump, At
      <4>2. pc' \in 1..n
          BY <3>1, <3>2, <4>1
      <4> QED BY <1>2, <3>1, <4>2 DEF VmInv
    <3> QED BY <2>3, <3>3, <3>4
  <2> QED BY <2>1, <2>2, <2>3
<1> QED BY <1>3, <1>4 DEF FilterInv

LEMMA FilterStutter == FilterInv /\ UNCHANGED <<compiler, vm>> => FilterInv'
<1> SUFFICES ASSUME FilterInv, UNCHANGED <<compiler, vm>> PROVE FilterInv'
    OBVIOUS
<1>1. UNCHANGED <<phase, program>>
    BY DEF compiler, vars
<1>2. VmInv'
    BY <1>1, VmUnchanged
<1> QED BY <1>2, CompilerUnchanged DEF FilterInv

LEMMA FilterInductive == FilterSpec => []FilterInv
<1>1. FilterInv /\ [FilterNext]_<<compiler, vm>> => FilterInv'
  <2> SUFFICES ASSUME FilterInv, [FilterNext]_<<compiler, vm>> PROVE FilterInv'
      OBVIOUS
  <2>1. CASE Rejected /\ UNCHANGED vm
      BY <2>1, FilterStutter DEF Rejected
  <2> QED BY <2>1, UseCannedStep, ParseTextStep, CompileParsedStep, GeneratorStep,
             MachineStep, FilterStutter DEF FilterNext
<1> QED BY <1>1, FilterInitInv, PTL DEF FilterSpec

-----------------------------------------------------------------------------
(* Whatever the text, the code generator's state keeps its shape.          *)
THEOREM FilterTypes == FilterSpec => []TypeOK
<1>1. FilterInv => TypeOK
  <2> SUFFICES ASSUME FilterInv PROVE TypeOK
      OBVIOUS
  <2>1. CASE IsCanned
    <3>1. /\ todo = <<>> /\ items = <<>> /\ labels = 0 /\ phase \in {"idle", "done"}
        BY <2>1 DEF FilterInv, CannedInv
    <3>2. program \in Seq(Items)
      <4>1. CASE phase = "done"
          BY <4>1, ProgramClosed DEF Closed
      <4>2. CASE phase = "idle"
          BY <2>1, <4>2 DEF FilterInv, CannedInv
      <4> QED BY <3>1, <4>1, <4>2
    <3> QED BY <3>1, <3>2 DEF TypeOK
  <2>2. CASE ~IsCanned
      BY <2>2, InvTypes DEF FilterInv
  <2> QED BY <2>1, <2>2
<1> QED BY <1>1, FilterInductive, PTL

(* From any text that parses, every jump the compiler emits points to a    *)
(* label behind it.                                                        *)
THEOREM FilterForward == FilterSpec => []JumpsForward
<1>1. FilterInv => JumpsForward
  <2>1. IsCanned /\ FilterInv => JumpsForward
      BY DEF FilterInv, CannedInv, JumpsForward, JumpsAt
  <2>2. ~IsCanned /\ FilterInv => JumpsForward
      BY InvForward DEF FilterInv
  <2> QED BY <2>1, <2>2
<1> QED BY <1>1, FilterInductive, PTL

(* From any text that parses, no label is placed twice.                    *)
THEOREM FilterPlacedOnce == FilterSpec => []LabelsPlacedOnce
<1>1. FilterInv => LabelsPlacedOnce
  <2>1. IsCanned /\ FilterInv => LabelsPlacedOnce
      BY DEF FilterInv, CannedInv, LabelsPlacedOnce
  <2>2. ~IsCanned /\ FilterInv => LabelsPlacedOnce
      BY InvPlacedOnce DEF FilterInv
  <2> QED BY <2>1, <2>2
<1> QED BY <1>1, FilterInductive, PTL

(* Every program attached to a socket, canned or compiled from a text of   *)
(* any length, passes the kernel's checks on control flow.                 *)
THEOREM FilterSound == FilterSpec => []ProgramSound
<1>1. FilterInv => ProgramSound
    BY ProgramClosed DEF Closed, ProgramSound
<1> QED BY <1>1, FilterInductive, PTL

(* No comparison of a compiled program relies on what an earlier one left  *)
(* in the accumulator, whatever the expression: every jump is preceded by  *)
(* the load of its own value, and no jump lands between the two.           *)
THEOREM AlwaysFresh == FilterSpec => []FreshLoads
<1>1. FilterInv => FreshLoads
    BY DEF FilterInv, CodegenInv, FreshLoads
<1> QED BY <1>1, FilterInductive, PTL

(* The kernel's machine never runs off a program, canned or compiled,      *)
(* whatever the text and whatever the frames.                              *)
THEOREM NeverLeaves == FilterSpec => []StaysInProgram
<1>1. FilterInv => StaysInProgram
  <2> SUFFICES ASSUME FilterInv, running PROVE pc \in DOMAIN program
      BY DEF StaysInProgram
  <2>1. phase = "done" /\ pc \in 1..Len(program)
      BY DEF FilterInv, VmInv
  <2>2. program \in Seq(Items)
      BY <2>1, ProgramClosed DEF Closed
  <2> QED BY <2>1, <2>2
<1> QED BY <1>1, FilterInductive, PTL
-----------------------------------------------------------------------------
(* Literals: no run of digits and dots of an accepted text is cut in two.  *)

(* The runs that begin in the first k pieces of the text s, and the        *)
(* literals among the tokens ts.                                           *)
IsRun(s, i) == /\ s[i].c = "digits"
               /\ i = 1 \/ s[i - 1].c \notin {"letters", "."}
Runs(s, k) == {i \in 1..k : IsRun(s, i)}

IsLiteral(t) == t.kind \in {"number", "ipv4"}
LiteralsOf(ts) == {n \in 1..Len(ts) : IsLiteral(ts[n])}

(* No literal follows another at once.                                     *)
Separated(ts) == \A n \in 2..Len(ts) : IsLiteral(ts[n]) => ~IsLiteral(ts[n - 1])

Counted(s, k, ts) ==
    Separated(ts) => Cardinality(Runs(s, k)) = Cardinality(LiteralsOf(ts))

(* _tokenize has taken the first k pieces; what is left of the text is r.  *)
Clean(s, k, r) ==
    /\ Len(r) = Len(s) - k
    /\ \A i \in 1..Len(r) : r[i] = s[k + i]
    /\ k >= 1 => s[k].c # "."
    /\ k >= 1 /\ k < Len(s) /\ s[k].c = "letters" => s[k + 1].c # "digits"

(* The last of those pieces was cut, its remaining digits are still there, *)
(* and the literal they were cut from is the last token.                   *)
Split(s, k, r, ts) ==
    /\ k >= 1 /\ Len(r) = Len(s) - k + 1
    /\ r[1].c = "digits" /\ s[k].c = "digits"
    /\ \A i \in 2..Len(r) : r[i] = s[k + i - 1]
    /\ ts # <<>> /\ IsLiteral(ts[Len(ts)])

LexedTo(s, k, r, ts) == /\ Counted(s, k, ts)
                        /\ Clean(s, k, r) \/ Split(s, k, r, ts)

(* Every literal the parser has passed stands behind a word.               *)
Introduced(p, ts) ==
    \A n \in 1..Len(ts) : n < p /\ IsLiteral(ts[n]) => n > 1 /\ ts[n - 1].kind = "word"

Parsing == at \notin {"lexing", "BPFCompileError", "RecursionError", "ValueError"}

LiteralInv ==
    /\ source \in Texts
    /\ at = "lexing" => \E k \in 0..Len(source) : LexedTo(source, k, rest, tokens)
    /\ Parsing => /\ Counted(source, Len(source), tokens)
                  /\ pos \in Nat \ {0} /\ Introduced(pos, tokens)
    /\ at = "parsed" => pos = Len(tokens) + 1

LEMMA RunsFinite ==
    ASSUME NEW s, NEW k \in Nat
    PROVE  IsFiniteSet(Runs(s, k)) /\ Cardinality(Runs(s, k)) \in Nat
<1>1. IsFiniteSet(1..k)
    BY FS_Interval
<1>2. Runs(s, k) \subseteq 1..k
    BY DEF Runs
<1> QED BY <1>1, <1>2, FS_Subset, FS_CardinalityType

LEMMA NoRunBetween ==
    ASSUME NEW s, NEW k \in Nat, NEW m \in Nat, k <= m,
           \A i \in (k + 1)..m : ~IsRun(s, i)
    PROVE  Runs(s, m) = Runs(s, k)
    BY DEF Runs

LEMMA OneRunBetween ==
    ASSUME NEW s, NEW k \in Nat, NEW m \in Nat, k < m, IsRun(s, k + 1),
           \A i \in (k + 2)..m : ~IsRun(s, i)
    PROVE  Cardinality(Runs(s, m)) = Cardinality(Runs(s, k)) + 1
<1>1. Runs(s, m) = Runs(s, k) \cup {k + 1}
    BY DEF Runs
<1>2. k + 1 \notin Runs(s, k)
    BY DEF Runs
<1> DEFINE R == Runs(s, k)
           x == k + 1
<1>3. IsFiniteSet(R)
    BY RunsFinite
<1> HIDE DEF R, x
<1>4. x \notin R => Cardinality(R \cup {x}) = Cardinality(R) + 1
    BY <1>3, FS_AddElement
<1> QED BY <1>1, <1>2, <1>4 DEF R, x

(* One more token.                                                         *)
LEMMA OneMoreToken ==
    ASSUME NEW T, NEW ts \in Seq(T), NEW t \in T
    PROVE  /\ Separated(Append(ts, t)) => Separated(ts)
           /\ IsLiteral(t) =>
                 Cardinality(LiteralsOf(Append(ts, t))) = Cardinality(LiteralsOf(ts)) + 1
           /\ ~IsLiteral(t) => LiteralsOf(Append(ts, t)) = LiteralsOf(ts)
           /\ IsLiteral(t) /\ ts # <<>> /\ IsLiteral(ts[Len(ts)]) => ~Separated(Append(ts, t))
<1> DEFINE us == Append(ts, t)
           n == Len(ts)
<1>1. /\ n \in Nat /\ Len(us) = n + 1 /\ us[n + 1] = t
      /\ \A i \in 1..n : us[i] = ts[i]
    OBVIOUS
<1>2. ts # <<>> => n >= 1
    OBVIOUS
<1> HIDE DEF us
<1>3. Separated(us) => Separated(ts)
  <2> HIDE DEF n
  <2>1. ASSUME Separated(us), NEW i \in 2..n, IsLiteral(ts[i]) PROVE ~IsLiteral(ts[i - 1])
    <3>1. i \in 1..n /\ i - 1 \in 1..n /\ i \in 2..(n + 1)
        BY <1>1
    <3> QED BY <1>1, <2>1, <3>1 DEF Separated
  <2> QED BY <2>1 DEF Separated, n
<1>4. ASSUME IsLiteral(t), ts # <<>>, IsLiteral(ts[n]) PROVE ~Separated(us)
  <2> HIDE DEF n
  <2>1. n \in 1..n /\ n + 1 \in 2..(n + 1) /\ (n + 1) - 1 = n
      BY <1>1, <1>2, <1>4
  <2> QED BY <1>1, <1>4, <2>1 DEF Separated
<1> DEFINE L == LiteralsOf(ts)
<1>5. IsFiniteSet(L)
  <2>1. IsFiniteSet(1..n)
      BY <1>1, FS_Interval
  <2> QED BY <2>1, FS_Subset DEF LiteralsOf
<1>6. IsLiteral(t) => LiteralsOf(us) = L \cup {n + 1}
  <2> HIDE DEF n
  <2> QED BY <1>1 DEF LiteralsOf, n
<1>7. ~IsLiteral(t) => LiteralsOf(us) = L
  <2> HIDE DEF n
  <2> QED BY <1>1 DEF LiteralsOf, n
<1>8. n + 1 \notin L
    BY <1>1 DEF LiteralsOf
<1>9. IsLiteral(t) => Cardinality(LiteralsOf(us)) = Cardinality(L) + 1
  <2> DEFINE x == n + 1
  <2>1. x \notin L /\ (IsLiteral(t) => LiteralsOf(us) = L \cup {x})
      BY <1>6, <1>8
  <2> HIDE DEF x, L, n
  <2>2. Cardinality(L \cup {x}) = Cardinality(L) + 1
      BY <1>5, <2>1, FS_AddElement
  <2> QED BY <2>1, <2>2
<1> QED BY <1>3, <1>4, <1>7, <1>9 DEF us

LEMMA CountLiteral ==
    ASSUME NEW T, NEW ts \in Seq(T), NEW t \in T, IsLiteral(t), NEW s,
           NEW k \in Nat, NEW m \in Nat, k < m, IsRun(s, k + 1),
           \A i \in (k + 2)..m : ~IsRun(s, i), Counted(s, k, ts)
    PROVE  Counted(s, m, Append(ts, t))
<1>1. Cardinality(Runs(s, m)) = Cardinality(Runs(s, k)) + 1
    BY OneRunBetween
<1>2. /\ Separated(Append(ts, t)) => Separated(ts)
      /\ Cardinality(LiteralsOf(Append(ts, t))) = Cardinality(LiteralsOf(ts)) + 1
    BY OneMoreToken
<1> QED BY <1>1, <1>2 DEF Counted

LEMMA CountOther ==
    ASSUME NEW T, NEW ts \in Seq(T), NEW t \in T, ~IsLiteral(t), NEW s,
           NEW k \in Nat, NEW m \in Nat, k <= m,
           \A i \in (k + 1)..m : ~IsRun(s, i), Counted(s, k, ts)
    PROVE  Counted(s, m, Append(ts, t)) /\ Counted(s, m, ts)
<1>1. Runs(s, m) = Runs(s, k)
    BY NoRunBetween
<1>2. /\ Separated(Append(ts, t)) => Separated(ts)
      /\ LiteralsOf(Append(ts, t)) = LiteralsOf(ts)
    BY OneMoreToken
<1> QED BY <1>1, <1>2 DEF Counted

(* A literal behind the one it was cut from: the text will be refused.     *)
LEMMA CountSplit ==
    ASSUME NEW T, NEW ts \in Seq(T), NEW t \in T, IsLiteral(t), NEW s, NEW k, NEW r,
           Split(s, k, r, ts), NEW m
    PROVE  Counted(s, m, Append(ts, t))
<1>1. ~Separated(Append(ts, t))
    BY OneMoreToken DEF Split
<1> QED BY <1>1 DEF Counted

(* q is r without its first n pieces.                                      *)
Shortened(q, r, n) == /\ Len(q) = Len(r) - n
                      /\ \A i \in 1..Len(q) : q[i] = r[n + i]

LEMMA DropShortens ==
    ASSUME NEW S, NEW r \in Seq(S), NEW n \in 1..Len(r)
    PROVE  /\ Shortened(Drop(r, n), r, n)
           /\ n = 1 => Shortened(Tail(r), r, n)
<1>1. Shortened(Drop(r, n), r, n)
  <2> DEFINE N == Len(r)
  <2>1. N \in Nat /\ n + 1 \in Nat
      OBVIOUS
  <2>2. /\ Len(SubSeq(r, n + 1, N)) = N - n
        /\ \A i \in 1..(N - n) : SubSeq(r, n + 1, N)[i] = r[n + i]
      BY <2>1
  <2> QED BY <2>2 DEF Shortened, Drop
<1>2. n = 1 => Shortened(Tail(r), r, n)
  <2> SUFFICES ASSUME n = 1 PROVE Shortened(Tail(r), r, 1)
      OBVIOUS
  <2>1. /\ Len(Tail(r)) = Len(r) - 1
        /\ \A i \in 1..(Len(r) - 1) : Tail(r)[i] = r[i + 1]
      OBVIOUS
  <2> QED BY <2>1 DEF Shortened
<1> QED BY <1>1, <1>2

LEMMA CleanShortened ==
    ASSUME NEW s, NEW k, NEW r, k \in 0..Len(s), Len(s) \in Nat, Clean(s, k, r),
           NEW n \in 1..Len(r), NEW q, Shortened(q, r, n), r[n].c # ".",
           r[n].c = "letters" /\ n < Len(r) => r[n + 1].c # "digits"
    PROVE  k + n \in 0..Len(s) /\ Clean(s, k + n, q)
<1>1. /\ Len(r) = Len(s) - k /\ k + n \in 0..Len(s) /\ k + n \in Nat /\ Len(q) = Len(s) - (k + n)
    BY DEF Clean, Shortened
<1>2. ASSUME NEW i \in 1..Len(q) PROVE q[i] = s[(k + n) + i]
  <2>1. q[i] = r[n + i] /\ n + i \in 1..Len(r) /\ k + (n + i) = (k + n) + i
      BY <1>1 DEF Shortened
  <2>2. r[n + i] = s[k + (n + i)]
      BY <2>1 DEF Clean
  <2> QED BY <2>1, <2>2
<1>3. s[k + n] = r[n]
    BY DEF Clean
<1>4. ASSUME k + n < Len(s) PROVE n < Len(r) /\ s[(k + n) + 1] = r[n + 1]
  <2>1. n + 1 \in 1..Len(r) /\ k + (n + 1) = (k + n) + 1 /\ n < Len(r)
      BY <1>1, <1>4
  <2>2. r[n + 1] = s[k + (n + 1)]
      BY <2>1 DEF Clean
  <2> QED BY <2>1, <2>2
<1> QED BY <1>1, <1>2, <1>3, <1>4 DEF Clean

LEMMA SplitShortened ==
    ASSUME NEW s, NEW k, NEW r, NEW ts, k \in 0..Len(s), Len(s) \in Nat,
           Split(s, k, r, ts), NEW n \in 1..Len(r), NEW q, Shortened(q, r, n),
           r[n].c = "digits"
    PROVE  /\ k + n - 1 \in 0..Len(s) /\ k + n - 1 >= 1
           /\ s[k + n - 1].c = "digits" /\ Clean(s, k + n - 1, q)
<1> DEFINE m == k + n - 1
<1>1. /\ Len(r) = Len(s) - k + 1 /\ m \in 0..Len(s) /\ m >= 1 /\ Len(q) = Len(s) - m
    BY DEF Split, Shortened
<1>2. ASSUME NEW i \in 1..Len(q) PROVE q[i] = s[m + i]
  <2>1. q[i] = r[n + i] /\ n + i \in 2..Len(r) /\ k + (n + i) - 1 = m + i
      BY <1>1 DEF Shortened
  <2>2. r[n + i] = s[k + (n + i) - 1]
      BY <2>1 DEF Split
  <2> QED BY <2>1, <2>2
<1>3. s[m].c = "digits"
  <2>1. CASE n = 1
    <3>1. m = k
        BY <2>1
    <3> QED BY <3>1 DEF Split
  <2>2. CASE n # 1
    <3>1. n \in 2..Len(r)
        BY <2>2
    <3> QED BY <3>1 DEF Split
  <2> QED BY <2>1, <2>2
<1> QED BY <1>1, <1>2, <1>3 DEF Clean

(* The lexer takes a literal of n pieces, the first and the last of them   *)
(* digits.                                                                 *)
LEMMA TakeLiteral ==
    ASSUME NEW S, NEW s \in Seq(S), NEW k \in 0..Len(s), NEW r, Len(r) \in Nat,
           NEW T, NEW ts \in Seq(T), NEW t \in T, IsLiteral(t), LexedTo(s, k, r, ts),
           NEW n \in 1..Len(r), NEW q, Shortened(q, r, n),
           r[1].c = "digits", r[n].c = "digits",
           \A i \in 2..n : r[i].c # "digits" \/ r[i - 1].c = "."
    PROVE  \E m \in 0..Len(s) : /\ Counted(s, m, Append(ts, t)) /\ Clean(s, m, q)
                                /\ m >= 1 /\ s[m].c = "digits"
<1>0. Len(s) \in Nat
    OBVIOUS
<1>1. CASE Clean(s, k, r)
  <2>1. k + n \in 0..Len(s) /\ Clean(s, k + n, q)
      BY <1>0, <1>1, CleanShortened
  <2>2. \A i \in 1..n : s[k + i] = r[i]
      BY <1>1 DEF Clean
  <2>3. IsRun(s, k + 1)
    <3>1. s[k + 1].c = "digits" /\ k < Len(s)
        BY <1>0, <1>1, <2>2 DEF Clean
    <3>2. ASSUME k # 0 PROVE s[k].c \notin {"letters", "."}
      <4>1. k >= 1
          BY <1>0, <3>2
      <4> QED BY <1>1, <3>1, <4>1 DEF Clean
    <3>3. k # 0 => (k + 1) - 1 = k
        BY <1>0
    <3> QED BY <1>0, <3>1, <3>2, <3>3 DEF IsRun
  <2>4. ASSUME NEW j \in (k + 2)..(k + n) PROVE ~IsRun(s, j)
    <3> DEFINE i == j - k
    <3>1. /\ i \in 2..n /\ i \in 1..n /\ i - 1 \in 1..n /\ j = k + i
          /\ j - 1 = k + (i - 1) /\ j # 1
        BY <1>0
    <3> HIDE DEF i
    <3>2. s[j] = r[i] /\ s[j - 1] = r[i - 1]
        BY <2>2, <3>1
    <3> QED BY <3>1, <3>2 DEF IsRun
  <2>5. k \in Nat /\ k + n \in Nat /\ k < k + n
      BY <1>0
  <2>6. Counted(s, k + n, Append(ts, t))
    <3> DEFINE m == k + n
    <3>1. m \in Nat /\ k < m /\ \A j \in (k + 2)..m : ~IsRun(s, j)
        BY <2>4, <2>5
    <3> HIDE DEF m
    <3>2. Counted(s, m, Append(ts, t))
        BY <2>3, <2>5, <3>1, CountLiteral DEF LexedTo
    <3> QED BY <3>2 DEF m
  <2> QED BY <1>0, <2>1, <2>2, <2>6
<1>2. CASE Split(s, k, r, ts)
  <2>1. /\ k + n - 1 \in 0..Len(s) /\ k + n - 1 >= 1
        /\ s[k + n - 1].c = "digits" /\ Clean(s, k + n - 1, q)
      BY <1>0, <1>2, SplitShortened
  <2>2. Counted(s, k + n - 1, Append(ts, t))
      BY <1>2, CountSplit
  <2> QED BY <2>1, <2>2
<1> QED BY <1>1, <1>2 DEF LexedTo

(* It takes n other pieces, no run among them.                             *)
LEMMA TakeOther ==
    ASSUME NEW S, NEW s \in Seq(S), NEW k \in 0..Len(s), NEW r, Len(r) \in Nat,
           NEW T, NEW ts \in Seq(T), NEW t \in T, ~IsLiteral(t), LexedTo(s, k, r, ts),
           NEW n \in 1..Len(r), NEW q, Shortened(q, r, n),
           r[1].c # "digits", r[n].c # ".",
           r[n].c = "letters" /\ n < Len(r) => r[n + 1].c # "digits",
           \A i \in 2..n : r[i].c # "digits" \/ r[i - 1].c = "letters"
    PROVE  \E m \in 0..Len(s) : /\ Counted(s, m, Append(ts, t)) /\ Counted(s, m, ts)
                                /\ Clean(s, m, q)
<1>0. Len(s) \in Nat
    OBVIOUS
<1>1. Clean(s, k, r)
    BY DEF LexedTo, Split
<1>2. k + n \in 0..Len(s) /\ Clean(s, k + n, q)
    BY <1>0, <1>1, CleanShortened
<1>3. \A i \in 1..n : s[k + i] = r[i]
    BY <1>1 DEF Clean
<1>4. ASSUME NEW j \in (k + 1)..(k + n) PROVE ~IsRun(s, j)
  <2> DEFINE i == j - k
  <2>1. i \in 1..n /\ j = k + i /\ k \in Nat
      BY <1>0
  <2> HIDE DEF i
  <2>2. CASE i = 1
      BY <1>3, <2>1, <2>2 DEF IsRun
  <2>3. CASE i # 1
    <3>1. i \in Nat /\ n \in Nat /\ i >= 2 /\ i <= n
        BY <2>1, <2>3
    <3>2. i \in 2..n /\ i - 1 \in 1..n
        BY <3>1
    <3>3. j - 1 = k + (i - 1) /\ j # 1
        BY <2>1, <3>1
    <3>4. s[j] = r[i] /\ s[j - 1] = r[i - 1]
        BY <1>3, <2>1, <3>2, <3>3
    <3> QED BY <3>2, <3>3, <3>4 DEF IsRun
  <2> QED BY <2>2, <2>3
<1>5. k \in Nat /\ k + n \in Nat /\ k <= k + n
    BY <1>0
<1>6. Counted(s, k + n, Append(ts, t)) /\ Counted(s, k + n, ts)
  <2> DEFINE m == k + n
  <2>1. m \in Nat /\ k <= m /\ \A j \in (k + 1)..m : ~IsRun(s, j)
      BY <1>4, <1>5
  <2> HIDE DEF m
  <2>2. Counted(s, m, Append(ts, t)) /\ Counted(s, m, ts)
      BY <1>5, <2>1, CountOther DEF LexedTo
  <2> QED BY <2>2 DEF m
<1> QED BY <1>2, <1>6

LEMMA CutPiece ==
    ASSUME NEW S, NEW p \in S, NEW q \in Seq(S), NEW s, NEW m \in Nat, Len(s) \in Nat,
           Clean(s, m, q), m >= 1, s[m].c = "digits", p.c = "digits",
           NEW T, NEW ts \in Seq(T), NEW t \in T, IsLiteral(t)
    PROVE  Split(s, m, <<p>> \o q, Append(ts, t))
<1> DEFINE r == <<p>> \o q
<1>1. /\ Len(q) \in Nat /\ Len(r) = Len(q) + 1 /\ r[1] = p
      /\ \A i \in 2..Len(r) : r[i] = q[i - 1]
    OBVIOUS
<1> HIDE DEF r
<1>2. ASSUME NEW i \in 2..Len(r) PROVE r[i] = s[m + i - 1]
  <2>1. i - 1 \in 1..Len(q) /\ m + (i - 1) = m + i - 1
      BY <1>1
  <2> QED BY <1>1, <2>1 DEF Clean
<1>3. /\ Append(ts, t) # <<>>
      /\ Append(ts, t)[Len(Append(ts, t))] = t
    OBVIOUS
<1>4. Split(s, m, r, Append(ts, t))
  <2>1. Len(r) = Len(s) - m + 1
      BY <1>1 DEF Clean
  <2> HIDE DEF r
  <2> QED BY <1>1, <1>2, <1>3, <2>1 DEF Split
<1> QED BY <1>4 DEF r

(* The text, and the state of the lexer.                                   *)
LEMMA SourceFacts ==
    ASSUME source \in Texts
    PROVE  /\ source \in Seq(Pieces) /\ Len(source) \in Nat
           /\ \A i \in 2..Len(source) :
                  source[i].c = "digits" => source[i - 1].c # "digits"
    BY ParserAssumption

LEMMA AddToken ==
    ASSUME NEW T, NEW ts \in Seq(T), NEW t \in T
    PROVE  ts \o <<t>> = Append(ts, t)
    OBVIOUS

LexGoal == \E k \in 0..Len(source) : LexedTo(source, k, rest', tokens')

LEMMA LexNumberLiteral ==
    ASSUME ParserInv, LiteralInv, LexNumber
    PROVE  LexGoal
<1>1. PICK k \in 0..Len(source) : LexedTo(source, k, rest, tokens)
    BY DEF LiteralInv, LexNumber
<1> DEFINE t == Token("number", "", <<rest[1].d>>)
<1>2. /\ rest # <<>> /\ rest[1].c = "digits" /\ rest \in Seq(TextPieces)
      /\ tokens \in Seq(Toks)
    BY DEF LexNumber, Next1, ParserInv
<1>3. Len(rest) \in Nat /\ 1 \in 1..Len(rest) /\ 1 \in DOMAIN rest
    BY <1>2
<1>4. t \in Toks
    BY <1>3, PieceTypes, TokenTypes
<1>5. IsLiteral(t)
    BY DEF IsLiteral, Token
<1>6. rest' = Tail(rest) /\ tokens' = tokens \o <<t>>
    BY DEF LexNumber, Lexed
<1> HIDE DEF t
<1>7. tokens' = Append(tokens, t)
    BY <1>2, <1>4, <1>6, AddToken
<1>8. Shortened(Tail(rest), rest, 1)
    BY <1>2, <1>3, DropShortens
<1>9. source \in Seq(Pieces)
    BY SourceFacts DEF LiteralInv
<1>10. \E m \in 0..Len(source) : /\ Counted(source, m, Append(tokens, t))
                                 /\ Clean(source, m, Tail(rest))
    BY <1>1, <1>2, <1>3, <1>4, <1>5, <1>8, <1>9, TakeLiteral
<1> QED BY <1>6, <1>7, <1>10 DEF LexGoal, LexedTo

LEMMA LexIpv4Literal ==
    ASSUME ParserInv, LiteralInv, LexIpv4
    PROVE  LexGoal
<1>1. PICK k \in 0..Len(source) : LexedTo(source, k, rest, tokens)
    BY DEF LiteralInv, LexIpv4
<1> DEFINE d == rest[7].d
           n == IF Len(d) > 3 THEN 3 ELSE Len(d)
           t == Token("ipv4", "", <<rest[1].d, rest[3].d, rest[5].d, SubSeq(d, 1, n)>>)
           p == Digits(Drop(d, n))
           q == Drop(rest, 7)
<1>2. /\ rest \in Seq(TextPieces) /\ tokens \in Seq(Toks) /\ Len(rest) >= 7
      /\ rest[1].c = "digits" /\ rest[7].c = "digits"
      /\ rest[2].c = "." /\ rest[4].c = "." /\ rest[6].c = "."
    BY DEF LexIpv4, AtIpv4, ParserInv
<1>3. /\ Len(rest) \in Nat /\ 7 \in 1..Len(rest)
      /\ {1, 3, 5, 7} \subseteq DOMAIN rest
    BY <1>2
<1>4. /\ rest[1].d \in Seq(0..9) /\ rest[3].d \in Seq(0..9) /\ rest[5].d \in Seq(0..9)
      /\ d \in Seq(0..9)
    BY <1>3, PieceTypes
<1>5. /\ tokens' = tokens \o <<t>>
      /\ rest' = (IF n < Len(d) THEN <<p>> ELSE <<>>) \o q
    BY DEF LexIpv4, Lexed
<1> HIDE DEF d
<1>6. n \in Nat /\ SubSeq(d, 1, n) \in Seq(0..9)
  <2>1. Len(d) \in Nat
      BY <1>4
  <2>2. n \in Nat /\ n <= Len(d)
      BY <2>1
  <2> HIDE DEF n
  <2> QED BY <1>4, <2>1, <2>2
<1> HIDE DEF n
<1>7. t \in Toks
    BY <1>4, <1>6, TokenTypes
<1>8. IsLiteral(t)
    BY DEF IsLiteral, Token
<1>9. p \in TextPieces /\ p.c = "digits"
  <2>1. Drop(d, n) \in Seq(0..9)
      BY <1>4, <1>6, DropType
  <2> QED BY <2>1 DEF Digits, TextPieces
<1>10. q \in Seq(TextPieces) /\ Shortened(q, rest, 7)
  <2>1. q \in Seq(TextPieces)
      BY <1>2, DropType
  <2> QED BY <1>2, <1>3, <2>1, DropShortens
<1> HIDE DEF t, p, q
<1>11. tokens' = Append(tokens, t)
    BY <1>2, <1>5, <1>7, AddToken
<1>12. source \in Seq(Pieces) /\ Len(source) \in Nat
    BY SourceFacts DEF LiteralInv
<1> DEFINE N == 7
<1>13. /\ N \in 1..Len(rest) /\ rest[N].c = "digits" /\ Shortened(q, rest, N)
       /\ \A i \in 2..N : rest[i].c # "digits" \/ rest[i - 1].c = "."
    BY <1>2, <1>3, <1>10
<1> HIDE DEF N
<1>14. tokens \in Seq(Toks) /\ Len(rest) \in Nat /\ rest[1].c = "digits"
    BY <1>2, <1>3
<1>15. PICK m \in 0..Len(source) : /\ Counted(source, m, Append(tokens, t))
                                   /\ Clean(source, m, q)
                                   /\ m >= 1 /\ source[m].c = "digits"
    BY <1>1, <1>7, <1>8, <1>12, <1>13, <1>14, TakeLiteral
<1>16. CASE n < Len(d)
  <2>1. m \in Nat /\ rest' = <<p>> \o q
      BY <1>5, <1>12, <1>16
  <2>2. Split(source, m, <<p>> \o q, Append(tokens, t))
      BY <1>2, <1>7, <1>8, <1>9, <1>10, <1>12, <1>15, <2>1, CutPiece
  <2> QED BY <1>11, <1>15, <2>1, <2>2 DEF LexGoal, LexedTo
<1>17. CASE ~(n < Len(d))
  <2>1. rest' = q
      BY <1>5, <1>10, <1>17
  <2> QED BY <1>11, <1>15, <2>1 DEF LexGoal, LexedTo
<1> QED BY <1>16, <1>17

LEMMA LexWordLiteral ==
    ASSUME ParserInv, LiteralInv, LexWord
    PROVE  LexGoal
<1>1. PICK k \in 0..Len(source) : LexedTo(source, k, rest, tokens)
    BY DEF LiteralInv, LexWord
<1> DEFINE ends == {n \in 1..Len(rest) :
                        \A i \in 1..n : rest[i].c \in {"letters", "digits"}}
           n == CHOOSE m \in ends : \A j \in ends : j <= m
           text == IF n = 1 THEN rest[1].t ELSE "unknown"
           t == Token("word", text, <<>>)
<1>2. /\ 1 \in DOMAIN rest /\ Len(rest) \in Nat /\ Len(rest) >= 1
      /\ rest \in Seq(TextPieces) /\ tokens \in Seq(Toks) /\ rest[1].c = "letters"
    BY RestFacts DEF LexWord, Next1, ParserInv
<1>3. tokens' = tokens \o <<t>> /\ rest' = Drop(rest, n)
    BY DEF LexWord, Lexed
<1>4. text \in STRING \cup {"", "unknown"}
    BY <1>2, PieceTypes
<1> HIDE DEF text
<1>5. t \in Toks /\ ~IsLiteral(t)
    BY <1>4, TokenTypes DEF IsLiteral, Token
<1>6. n \in ends /\ \A j \in ends : j <= n
  <2>1. 1 \in ends /\ ends \subseteq 0..Len(rest)
      BY <1>2
  <2> HIDE DEF ends
  <2>2. \E m \in ends : \A j \in ends : j <= m
      BY <1>2, <2>1, GreatestOf
  <2> QED BY <2>2
<1> HIDE DEF n, t
<1>7. n \in 1..Len(rest) /\ \A i \in 1..n : rest[i].c \in {"letters", "digits"}
    BY <1>6
<1>8. n < Len(rest) => rest[n + 1].c \notin {"letters", "digits"}
  <2> SUFFICES ASSUME n < Len(rest), rest[n + 1].c \in {"letters", "digits"} PROVE FALSE
      OBVIOUS
  <2>1. n + 1 \in ends
    <3>1. n + 1 \in 1..Len(rest)
        BY <1>2, <1>7
    <3>2. ASSUME NEW i \in 1..(n + 1) PROVE rest[i].c \in {"letters", "digits"}
      <4>1. i \in 1..n \/ i = n + 1
          BY <1>7
      <4> QED BY <1>7, <4>1
    <3> QED BY <3>1, <3>2
  <2>2. n + 1 <= n
      BY <1>6, <2>1
  <2> QED BY <1>7, <2>2
<1> HIDE DEF ends
<1>9. source \in Seq(Pieces) /\ Len(source) \in Nat
      /\ \A i \in 2..Len(source) : source[i].c = "digits" => source[i - 1].c # "digits"
    BY SourceFacts DEF LiteralInv
<1>10. Clean(source, k, rest)
    BY <1>1, <1>2 DEF LexedTo, Split
<1>11. ASSUME NEW i \in 2..n PROVE rest[i].c # "digits" \/ rest[i - 1].c = "letters"
  <2>1. /\ i \in 1..Len(rest) /\ i - 1 \in 1..Len(rest) /\ i - 1 \in 1..n
        /\ k + i \in 2..Len(source) /\ k + (i - 1) = (k + i) - 1
      BY <1>2, <1>7, <1>9, <1>10 DEF Clean
  <2>2. rest[i] = source[k + i] /\ rest[i - 1] = source[(k + i) - 1]
      BY <1>10, <2>1 DEF Clean
  <2>3. rest[i].c = "digits" => rest[i - 1].c # "digits"
      BY <1>9, <2>1, <2>2
  <2> QED BY <1>7, <2>1, <2>3
<1>12. Shortened(Drop(rest, n), rest, n)
    BY <1>2, <1>7, DropShortens
<1>13. tokens' = Append(tokens, t)
    BY <1>2, <1>3, <1>5, AddToken
<1>14. rest[n].c # "."
    BY <1>7
<1>15. \E m \in 0..Len(source) : /\ Counted(source, m, Append(tokens, t))
                                 /\ Clean(source, m, Drop(rest, n))
    BY <1>1, <1>2, <1>5, <1>7, <1>8, <1>9, <1>11, <1>12, <1>14, TakeOther
<1> QED BY <1>3, <1>13, <1>15 DEF LexGoal, LexedTo

LEMMA LexOtherLiteral ==
    ASSUME ParserInv, LiteralInv, LexParen \/ LexSpace
    PROVE  LexGoal
<1>1. PICK k \in 0..Len(source) : LexedTo(source, k, rest, tokens)
    BY DEF LiteralInv, LexParen, LexSpace
<1> DEFINE t == Token("(", "", <<>>)
<1>2. /\ rest # <<>> /\ rest[1].c \in {"(", ")", " "} /\ rest \in Seq(TextPieces)
      /\ tokens \in Seq(Toks)
    BY DEF LexParen, LexSpace, Next1, ParserInv
<1>3. rest' = Tail(rest)
    BY DEF LexParen, LexSpace, Lexed
<1>4. Len(rest) \in Nat /\ 1 \in 1..Len(rest)
  <2>1. Len(rest) \in Nat /\ Len(rest) >= 1
      BY <1>2, RestFacts
  <2> QED BY <2>1
<1>5. Shortened(Tail(rest), rest, 1)
    BY <1>2, <1>4, DropShortens
<1>6. source \in Seq(Pieces)
    BY SourceFacts DEF LiteralInv
<1>7. ASSUME NEW u \in Toks, ~IsLiteral(u)
      PROVE  \E m \in 0..Len(source) : /\ Counted(source, m, Append(tokens, u))
                                       /\ Counted(source, m, tokens)
                                       /\ Clean(source, m, Tail(rest))
  <2> DEFINE N == 1
             q == Tail(rest)
  <2>1. /\ N \in 1..Len(rest) /\ Shortened(q, rest, N)
        /\ rest[1].c # "digits" /\ rest[N].c # "." /\ rest[N].c # "letters"
        /\ \A i \in 2..N : rest[i].c # "digits" \/ rest[i - 1].c = "letters"
    <3>1. \A i \in 2..1 : FALSE
        OBVIOUS
    <3> QED BY <1>2, <1>4, <1>5, <3>1
  <2> HIDE DEF N, q
  <2>2. \E m \in 0..Len(source) : /\ Counted(source, m, Append(tokens, u))
                                  /\ Counted(source, m, tokens)
                                  /\ Clean(source, m, q)
      BY <1>1, <1>2, <1>4, <1>6, <1>7, <2>1, TakeOther
  <2> QED BY <2>2 DEF q
<1>8. CASE LexParen
  <2> DEFINE v == Token(rest[1].c, "", <<>>)
  <2>1. rest[1].c \in {"(", ")"} /\ tokens' = tokens \o <<v>>
      BY <1>8 DEF LexParen, Next1, Lexed
  <2>2. v \in Toks /\ ~IsLiteral(v)
      BY <2>1, TokenTypes DEF IsLiteral, Token
  <2> HIDE DEF v
  <2>3. tokens' = Append(tokens, v)
      BY <1>2, <2>1, <2>2, AddToken
  <2> QED BY <1>2, <1>3, <1>7, <2>2, <2>3 DEF LexGoal, LexedTo
<1>9. CASE LexSpace
  <2>1. tokens' = tokens \o <<>> /\ tokens \in Seq(Toks)
      BY <1>2, <1>9 DEF LexSpace, Lexed
  <2>2. tokens' = tokens
      BY <2>1
  <2>3. t \in Toks /\ ~IsLiteral(t)
      BY TokenTypes DEF IsLiteral, Token
  <2> HIDE DEF t
  <2> QED BY <1>2, <1>3, <1>7, <2>2, <2>3 DEF LexGoal, LexedTo
<1> QED BY <1>8, <1>9

(* The parser.                                                             *)
LEMMA GotoLiteral ==
    ASSUME LiteralInv, Parsing, NEW method, method \notin {"lexing", "parsed"},
           NEW p \in Nat \ {0}, NEW stack, NEW node, Introduced(p, tokens),
           Goto(method, p, stack, node)
    PROVE  LiteralInv'
<1>1. /\ at' = method /\ pos' = p /\ source' = source /\ tokens' = tokens
    BY DEF Goto
<1>2. Counted(source, Len(source), tokens) /\ source \in Texts
    BY DEF LiteralInv
<1>3. Counted(source', Len(source'), tokens') /\ Introduced(pos', tokens')
    BY <1>1, <1>2
<1> QED BY <1>1, <1>2, <1>3 DEF LiteralInv

LEMMA ErrorLiteral ==
    ASSUME LiteralInv,
           NEW error \in {"BPFCompileError", "RecursionError", "ValueError"}, Raise(error)
    PROVE  LiteralInv'
<1>1. at' = error /\ source' = source
    BY DEF Raise, Goto
<1> QED BY <1>1 DEF LiteralInv, Parsing

LEMMA KindFacts ==
    ASSUME ParserInv, NEW p \in Nat \ {0}
    PROVE  /\ KindAt(p) \notin {"number", "ipv4"} /\ p \in 1..Len(tokens)
                 => ~IsLiteral(tokens[p])
           /\ KindAt(p) = "word" => p \in 1..Len(tokens) /\ tokens[p].kind = "word"
<1>1. tokens \in Seq(Toks)
    BY DEF ParserInv
<1>2. DOMAIN tokens = 1..Len(tokens)
    BY <1>1
<1> QED BY <1>2 DEF KindAt, IsLiteral

Keywords == Protocols \cup {"src", "dst", "host", "port", "not", "and", "or"}

LEMMA WordKind == \A p : WordAt(p) \in Keywords => KindAt(p) = "word"
<1> SUFFICES ASSUME NEW p, KindAt(p) # "word" PROVE WordAt(p) \notin Keywords
    OBVIOUS
<1>1. WordAt(p) = ""
    BY DEF WordAt
<1>2. "" \notin Keywords
    BY DEF Keywords, Protocols
<1> QED BY <1>1, <1>2

(* Behind a token that is no literal, and behind a word and its literal.   *)
LEMMA PastOne ==
    ASSUME ParserInv, NEW p \in Nat \ {0}, Introduced(p, tokens),
           KindAt(p) \notin {"number", "ipv4"}
    PROVE  p + 1 \in Nat \ {0} /\ Introduced(p + 1, tokens)
<1>1. ASSUME NEW n \in 1..Len(tokens), n < p + 1, IsLiteral(tokens[n])
      PROVE  n > 1 /\ tokens[n - 1].kind = "word"
  <2>1. n # p
      BY <1>1, KindFacts
  <2>2. n < p
      BY <1>1, <2>1
  <2> QED BY <1>1, <2>2 DEF Introduced
<1> QED BY <1>1 DEF Introduced

LEMMA PastWord ==
    ASSUME ParserInv, NEW p \in Nat \ {0}, Introduced(p, tokens), KindAt(p) = "word"
    PROVE  /\ p + 1 \in Nat \ {0} /\ Introduced(p + 1, tokens)
           /\ p + 2 \in Nat \ {0} /\ Introduced(p + 2, tokens)
<1>1. p \in 1..Len(tokens) /\ tokens[p].kind = "word" /\ ~IsLiteral(tokens[p])
    BY KindFacts DEF IsLiteral
<1>2. ASSUME NEW n \in 1..Len(tokens), n < p + 2, IsLiteral(tokens[n])
      PROVE  n > 1 /\ tokens[n - 1].kind = "word"
  <2>1. n # p
      BY <1>1, <1>2
  <2>2. CASE n < p
      BY <1>2, <2>2 DEF Introduced
  <2>3. CASE n = p + 1
    <3>1. n > 1 /\ n - 1 = p
        BY <2>3
    <3> QED BY <1>1, <3>1
  <2> QED BY <1>2, <2>1, <2>2, <2>3
<1>3. Introduced(p + 2, tokens)
    BY <1>2 DEF Introduced
<1>4. Introduced(p + 1, tokens)
  <2> SUFFICES ASSUME NEW n \in 1..Len(tokens), n < p + 1, IsLiteral(tokens[n])
               PROVE  n > 1 /\ tokens[n - 1].kind = "word"
      BY DEF Introduced
  <2>1. n < p + 2
      OBVIOUS
  <2> QED BY <1>2, <2>1
<1> QED BY <1>3, <1>4

LEMMA ParsingFacts ==
    ASSUME LiteralInv, Parsing
    PROVE  pos \in Nat \ {0} /\ Introduced(pos, tokens)
    BY DEF LiteralInv

LEMMA CallLiteral ==
    ASSUME ParserInv, LiteralInv, OrExpr \/ AndExpr \/ NotExpr \/ Primary
    PROVE  LiteralInv'
<1>1. Parsing
    BY DEF Parsing, OrExpr, AndExpr, NotExpr, Primary, Calling
<1>2. pos \in Nat \ {0} /\ Introduced(pos, tokens)
    BY <1>1, ParsingFacts
<1>3. \A m, s, e : m \notin {"lexing", "parsed"} /\ Goto(m, pos, s, e) => LiteralInv'
    BY <1>1, <1>2, GotoLiteral
<1>4. ASSUME KindAt(pos) \notin {"number", "ipv4"}
      PROVE  \A m, s, e : m \notin {"lexing", "parsed"} /\ Goto(m, pos + 1, s, e) => LiteralInv'
    BY <1>1, <1>2, <1>4, PastOne, GotoLiteral
<1>5. CASE OrExpr
    BY <1>3, <1>5 DEF OrExpr
<1>6. CASE AndExpr
    BY <1>3, <1>6 DEF AndExpr
<1>7. CASE NotExpr
  <2>1. WordAt(pos) = "not" => KindAt(pos) \notin {"number", "ipv4"}
      BY WordKind DEF Keywords
  <2> QED BY <1>3, <1>4, <1>7, <2>1 DEF NotExpr
<1>8. CASE Primary
    BY <1>3, <1>4, <1>8 DEF Primary
<1> QED BY <1>5, <1>6, <1>7, <1>8

LEMMA PrimitiveLiteral ==
    ASSUME ParserInv, LiteralInv, PrimitiveProto \/ PrimitiveHost \/ PrimitivePort
    PROVE  LiteralInv'
<1>1. Parsing
    BY DEF Parsing, PrimitiveProto, PrimitiveHost, PrimitivePort
<1>2. pos \in Nat \ {0} /\ Introduced(pos, tokens)
    BY <1>1, ParsingFacts
<1>3. Past \in Nat \ {0} /\ Introduced(Past, tokens)
  <2>1. Direction # "any" => KindAt(pos) = "word"
      BY WordKind DEF Direction, Keywords
  <2> QED BY <1>2, <2>1, PastWord DEF Past
<1>4. ASSUME KindAt(Past) = "word"
      PROVE  \A e : Reduce(e, Past + 1) \/ Reduce(e, Past + 2) => LiteralInv'
  <2>1. /\ Past + 1 \in Nat \ {0} /\ Introduced(Past + 1, tokens)
        /\ Past + 2 \in Nat \ {0} /\ Introduced(Past + 2, tokens)
      BY <1>3, <1>4, PastWord
  <2> QED BY <1>1, <2>1, GotoLiteral DEF Reduce
<1>5. CASE PrimitiveProto
  <2>1. KindAt(Past) = "word"
      BY <1>5, WordKind DEF PrimitiveProto, IsProto, Keywords
  <2> QED BY <1>4, <1>5, <2>1 DEF PrimitiveProto
<1>6. CASE PrimitiveHost
  <2>1. KindAt(Past) = "word"
      BY <1>6, WordKind DEF PrimitiveHost, IsHost, Keywords
  <2> QED BY <1>4, <1>6, <2>1 DEF PrimitiveHost
<1>7. CASE PrimitivePort
  <2>1. KindAt(Past) = "word"
      BY <1>7, WordKind DEF PrimitivePort, HasPort, Keywords
  <2> QED BY <1>4, <1>7, <2>1 DEF PrimitivePort
<1> QED BY <1>5, <1>6, <1>7

LEMMA ReturnLiteral ==
    ASSUME ParserInv, LiteralInv,
           ReturnToNot \/ ReturnToAnd \/ ReturnToOr \/ ReturnToPrimary
    PROVE  LiteralInv'
<1> DEFINE node == callers[Len(callers)].node
<1>1. Parsing
  <2>1. ReturnToAnd => Returning("and_expr")
      BY DEF ReturnToAnd, Loop
  <2>2. ReturnToOr => Returning("or_expr")
      BY DEF ReturnToOr, Loop
  <2>3. at = "return"
      BY <2>1, <2>2 DEF ReturnToNot, ReturnToPrimary, Returning
  <2> QED BY <2>3 DEF Parsing
<1>2. pos \in Nat \ {0} /\ Introduced(pos, tokens)
    BY <1>1, ParsingFacts
<1>3. \A m, s, e : m \notin {"lexing", "parsed"} /\ Goto(m, pos, s, e) => LiteralInv'
    BY <1>1, <1>2, GotoLiteral
<1>4. ASSUME KindAt(pos) \notin {"number", "ipv4"}
      PROVE  \A m, s, e : m \notin {"lexing", "parsed"} /\ Goto(m, pos + 1, s, e) => LiteralInv'
    BY <1>1, <1>2, <1>4, PastOne, GotoLiteral
<1>5. WordAt(pos) \in {"and", "or"} => KindAt(pos) \notin {"number", "ipv4"}
    BY WordKind DEF Keywords
<1>6. CASE ReturnToNot
    BY <1>3, <1>6 DEF ReturnToNot
<1>7. CASE ReturnToAnd
  <2> DEFINE joined == IF node = Nil THEN result ELSE And(node, result)
  <2>1. IF WordAt(pos) = "and"
        THEN Goto("not_expr", pos + 1, Append(Popped, Caller("and_expr", joined)), Nil)
        ELSE Goto("return", pos, Popped, joined)
      BY <1>7 DEF ReturnToAnd, Loop
  <2> HIDE DEF joined
  <2> QED BY <1>3, <1>4, <1>5, <2>1
<1>8. CASE ReturnToOr
  <2> DEFINE joined == IF node = Nil THEN result ELSE Or(node, result)
  <2>1. IF WordAt(pos) = "or"
        THEN Goto("and_expr", pos + 1, Append(Popped, Caller("or_expr", joined)), Nil)
        ELSE Goto("return", pos, Popped, joined)
      BY <1>8 DEF ReturnToOr, Loop
  <2> HIDE DEF joined
  <2> QED BY <1>3, <1>4, <1>5, <2>1
<1>9. CASE ReturnToPrimary
    BY <1>3, <1>4, <1>9, ErrorLiteral DEF ReturnToPrimary, Fail
<1> QED BY <1>6, <1>7, <1>8, <1>9

LEMMA LexEndsLiteral ==
    ASSUME ParserInv, LiteralInv, LexEnds
    PROVE  LiteralInv'
<1>1. PICK k \in 0..Len(source) : LexedTo(source, k, rest, tokens)
    BY DEF LiteralInv, LexEnds
<1>2. rest = <<>> /\ Len(rest) = 0
    BY DEF LexEnds
<1>3. source \in Texts /\ Len(source) \in Nat
    BY SourceFacts DEF LiteralInv
<1>4. k = Len(source)
  <2>1. CASE Clean(source, k, rest)
      BY <1>2, <1>3, <2>1 DEF Clean
  <2>2. CASE Split(source, k, rest, tokens)
      BY <1>2, <1>3, <2>2 DEF Split
  <2> QED BY <1>1, <2>1, <2>2 DEF LexedTo
<1>5. Counted(source, Len(source), tokens)
    BY <1>1, <1>4 DEF LexedTo
<1>6. CASE tokens = <<>>
    BY <1>6, ErrorLiteral DEF LexEnds, Fail
<1>7. CASE tokens # <<>>
  <2>1. at' = "or_expr" /\ pos' = 1 /\ source' = source /\ tokens' = tokens
      BY <1>7 DEF LexEnds, Goto
  <2>2. Introduced(1, tokens)
      BY DEF Introduced
  <2>3. Counted(source', Len(source'), tokens') /\ Introduced(pos', tokens')
      BY <1>5, <2>1, <2>2
  <2> QED BY <1>3, <2>1, <2>3 DEF LiteralInv
<1> QED BY <1>6, <1>7

LEMMA ParserLiteral ==
    ASSUME ParserInv, LiteralInv, ParserNext
    PROVE  LiteralInv'
<1>1. CASE LexIpv4 \/ LexNumber \/ LexWord \/ LexParen \/ LexSpace
  <2>1. LexGoal
      BY <1>1, LexIpv4Literal, LexNumberLiteral, LexWordLiteral, LexOtherLiteral
  <2>2. at = "lexing" /\ at' = at /\ source' = source
      BY <1>1 DEF LexIpv4, LexNumber, LexWord, LexParen, LexSpace, Lexed
  <2>3. \E k \in 0..Len(source') : LexedTo(source', k, rest', tokens')
      BY <2>1, <2>2 DEF LexGoal
  <2>4. source' \in Texts
      BY <2>2 DEF LiteralInv
  <2> QED BY <2>2, <2>3, <2>4 DEF LiteralInv, Parsing
<1>2. CASE LexFails \/ ParseTooDeep \/ PrimitivePortTooLong \/ PrimitiveFails
  <2>1. Raise("BPFCompileError") \/ Raise("RecursionError") \/ Raise("ValueError")
    <3>1. LexFails \/ PrimitiveFails => Raise("BPFCompileError")
      <4>1. PrimitiveFails => Fail
          BY DEF PrimitiveFails
      <4>2. LexFails => Fail
          BY DEF LexFails
      <4> QED BY <4>1, <4>2 DEF Fail
    <3>2. ParseTooDeep => Raise("RecursionError")
        BY DEF ParseTooDeep
    <3>3. PrimitivePortTooLong => Raise("ValueError")
        BY DEF PrimitivePortTooLong
    <3> QED BY <1>2, <3>1, <3>2, <3>3
  <2> QED BY <2>1, ErrorLiteral
<1>3. CASE Parse
  <2>1. CASE pos = Len(tokens) + 1
    <3>1. Parsing
        BY <1>3 DEF Parse, Parsing
    <3>2. pos \in Nat \ {0} /\ Introduced(pos, tokens)
        BY <3>1, ParsingFacts
    <3>3. /\ at' = "parsed" /\ pos' = pos /\ source' = source /\ tokens' = tokens
        BY <1>3, <2>1 DEF Parse, Raise, Goto
    <3>4. Counted(source, Len(source), tokens) /\ source \in Texts
        BY <3>1 DEF LiteralInv
    <3>5. /\ Counted(source', Len(source'), tokens') /\ Introduced(pos', tokens')
          /\ pos' = Len(tokens') + 1
        BY <2>1, <3>2, <3>3, <3>4
    <3> QED BY <3>2, <3>3, <3>4, <3>5 DEF LiteralInv
  <2>2. CASE pos # Len(tokens) + 1
      BY <1>3, <2>2, ErrorLiteral DEF Parse, Fail
  <2> QED BY <2>1, <2>2
<1> QED BY <1>1, <1>2, <1>3, CallLiteral, PrimitiveLiteral, ReturnLiteral, LexEndsLiteral
        DEF ParserNext

LEMMA LiteralStutter == LiteralInv /\ UNCHANGED parserVars => LiteralInv'
<1> SUFFICES ASSUME LiteralInv, UNCHANGED parserVars PROVE LiteralInv'
    OBVIOUS
<1>1. UNCHANGED <<source, rest, tokens, at, pos>>
    BY DEF parserVars
<1>2. Parsing' <=> Parsing
    BY <1>1 DEF Parsing
<1> QED BY <1>1, <1>2 DEF LiteralInv

LEMMA LiteralInit == FilterInit => LiteralInv
<1> SUFFICES ASSUME FilterInit PROVE LiteralInv
    OBVIOUS
<1>1. source \in Texts /\ rest = source /\ tokens = <<>> /\ at = "lexing"
    BY DEF FilterInit, ParserInit
<1>2. Len(source) \in Nat
    BY <1>1, SourceFacts
<1>3. Runs(source, 0) = {} /\ LiteralsOf(tokens) = {}
    BY <1>1 DEF Runs, LiteralsOf
<1>4. Counted(source, 0, tokens)
    BY <1>3 DEF Counted
<1>5. Clean(source, 0, rest)
    BY <1>1, <1>2 DEF Clean
<1>6. \E k \in 0..Len(source) : LexedTo(source, k, rest, tokens)
    BY <1>2, <1>4, <1>5 DEF LexedTo
<1> QED BY <1>1, <1>6 DEF LiteralInv, Parsing

(* Whatever the text: if the parser accepts it, each of its runs of digits *)
(* and dots outside a word was read as one number or one address.  The     *)
(* lexer does cut some ("1.2.3.1234"), but then two literals follow each   *)
(* other, and the parser takes none that is not behind a word.             *)
THEOREM LiteralsWhole == FilterSpec => []NoLiteralSplit
<1>1. FilterInv /\ LiteralInv /\ [FilterNext]_<<compiler, vm>> => LiteralInv'
  <2> SUFFICES ASSUME FilterInv, LiteralInv, [FilterNext]_<<compiler, vm>>
               PROVE  LiteralInv'
      OBVIOUS
  <2>1. CASE ParseText
    <3>1. ParserInv /\ ParserNext
        BY <2>1 DEF ParseText, FilterInv
    <3> QED BY <3>1, ParserLiteral
  <2>2. CASE UNCHANGED parserVars
      BY <2>2, LiteralStutter
  <2>3. CASE UseCanned \/ CompileParsed
      BY <2>2, <2>3 DEF UseCanned, CompileParsed
  <2>4. CASE UNCHANGED compiler
      BY <2>2, <2>4 DEF compiler
  <2>5. CASE Rejected
      BY <2>4, <2>5 DEF Rejected
  <2>6. CASE (\E p \in Frames : Deliver(p)) \/ StepLoad \/ StepLoadOutside \/ StepJump
                \/ StepRet
    <3>1. UNCHANGED compiler
        BY <2>6 DEF Deliver, StepLoad, StepLoadOutside, StepJump, StepRet
    <3> QED BY <2>4, <3>1
  <2> QED BY <2>1, <2>2, <2>3, <2>4, <2>5, <2>6 DEF FilterNext
<1>2. FilterInv /\ LiteralInv => NoLiteralSplit
  <2> SUFFICES ASSUME FilterInv, LiteralInv, at = "parsed" PROVE NoLiteralSplit
      BY DEF NoLiteralSplit
  <2>1. ParserInv
      BY DEF FilterInv, CannedInv
  <2>2. /\ Counted(source, Len(source), tokens) /\ pos \in Nat
        /\ Introduced(pos, tokens) /\ pos = Len(tokens) + 1
      BY DEF LiteralInv, Parsing
  <2>3. tokens \in Seq(Toks) /\ source \in Seq(Pieces)
      BY <2>1, SourceFacts DEF ParserInv, LiteralInv
  <2>4. DOMAIN tokens = 1..Len(tokens) /\ DOMAIN source = 1..Len(source) /\ Len(tokens) \in Nat
      BY <2>3
  <2>5. Separated(tokens)
    <3> SUFFICES ASSUME NEW n \in 2..Len(tokens), IsLiteral(tokens[n])
                 PROVE  ~IsLiteral(tokens[n - 1])
        BY DEF Separated
    <3>1. n \in 1..Len(tokens) /\ n < pos
        BY <2>2, <2>4
    <3>2. tokens[n - 1].kind = "word"
        BY <2>2, <3>1 DEF Introduced
    <3> QED BY <3>2 DEF IsLiteral
  <2>6. Cardinality(Runs(source, Len(source))) = Cardinality(LiteralsOf(tokens))
      BY <2>2, <2>5 DEF Counted
  <2> QED BY <2>4, <2>6 DEF NoLiteralSplit, Runs, LiteralsOf, IsRun, IsLiteral
<1> QED BY <1>1, <1>2, LiteralInit, FilterInductive, PTL DEF FilterSpec
-----------------------------------------------------------------------------
(* Recursion on the naturals: f gives the first n + 1 values of s applied  *)
(* again and again to a.                                                   *)
Iterates(a, s, n, f) == /\ f = [i \in 0..n |-> f[i]] /\ f[0] = a
                        /\ \A i \in 1..n : f[i] = s[f[i - 1]]

LEMMA IteratesExist ==
    ASSUME NEW a, NEW s, NEW n \in Nat
    PROVE  \E f : Iterates(a, s, n, f)
<1> DEFINE S == {m \in Nat : \E f : Iterates(a, s, m, f)}
<1>1. 0 \in S
  <2> DEFINE g == [i \in 0..0 |-> a]
  <2>1. Iterates(a, s, 0, g)
      BY DEF Iterates
  <2> QED BY <2>1
<1>2. ASSUME NEW m \in Nat, m \in S PROVE m + 1 \in S
  <2>1. PICK f : Iterates(a, s, m, f)
      BY <1>2
  <2> DEFINE g == [i \in 0..(m + 1) |-> IF i <= m THEN f[i] ELSE s[f[m]]]
  <2>2. g = [i \in 0..(m + 1) |-> g[i]] /\ g[0] = a
      BY <2>1 DEF Iterates
  <2>3. ASSUME NEW i \in 1..(m + 1) PROVE g[i] = s[g[i - 1]]
    <3>1. CASE i <= m
      <4>1. i \in 1..m /\ i - 1 <= m /\ i - 1 \in 0..(m + 1) /\ i \in 0..(m + 1)
          BY <3>1
      <4>2. g[i] = f[i] /\ g[i - 1] = f[i - 1]
          BY <3>1, <4>1
      <4> QED BY <2>1, <4>1, <4>2 DEF Iterates
    <3>2. CASE i = m + 1
        BY <3>2
    <3> QED BY <3>1, <3>2
  <2>4. Iterates(a, s, m + 1, g)
    <3> HIDE DEF g
    <3> QED BY <2>2, <2>3 DEF Iterates
  <2> QED BY <2>4
<1> HIDE DEF S
<1>3. n \in S
    BY <1>1, <1>2, SetInduction
<1> QED BY <1>3 DEF S

LEMMA IteratesUnique ==
    ASSUME NEW a, NEW s, NEW n \in Nat, NEW m \in Nat, NEW f, NEW g,
           Iterates(a, s, n, f), Iterates(a, s, m, g), NEW k \in Nat, k <= n, k <= m
    PROVE  f[k] = g[k]
<1> DEFINE S == {i \in Nat : i <= k => f[i] = g[i]}
<1>1. 0 \in S
    BY DEF Iterates
<1>2. ASSUME NEW i \in Nat, i \in S PROVE i + 1 \in S
  <2> SUFFICES ASSUME i + 1 <= k PROVE f[i + 1] = g[i + 1]
      OBVIOUS
  <2>1. /\ f[i] = g[i] /\ i + 1 \in 1..n /\ i + 1 \in 1..m /\ (i + 1) - 1 = i
      BY <1>2
  <2>2. f[i + 1] = s[f[(i + 1) - 1]] /\ g[i + 1] = s[g[(i + 1) - 1]]
      BY <2>1 DEF Iterates
  <2> QED BY <2>1, <2>2
<1> HIDE DEF S
<1>3. k \in S
    BY <1>1, <1>2, SetInduction
<1> QED BY <1>3 DEF S

Iterated(V, a, s, f) == /\ f \in [Nat -> V] /\ f[0] = a
                        /\ \A n \in Nat : f[n + 1] = s[f[n]]
Maps(s, V) == s \in [V -> V]

LEMMA Iteration ==
    ASSUME NEW V, NEW a, a \in V, NEW s, Maps(s, V)
    PROVE  \E f : Iterated(V, a, s, f)
<1> DEFINE h(n) == CHOOSE g : Iterates(a, s, n, g)
           f == [n \in Nat |-> h(n)[n]]
<1>1. \A n \in Nat : Iterates(a, s, n, h(n))
    BY IteratesExist
<1> HIDE DEF h
<1>2. f[0] = a
    BY <1>1 DEF Iterates
<1>3. ASSUME NEW n \in Nat PROVE f[n + 1] = s[f[n]]
  <2>1. n + 1 \in Nat /\ n <= n /\ n <= n + 1 /\ n + 1 \in 1..(n + 1) /\ (n + 1) - 1 = n
      OBVIOUS
  <2>2. Iterates(a, s, n, h(n)) /\ Iterates(a, s, n + 1, h(n + 1))
      BY <1>1, <2>1
  <2>3. h(n)[n] = h(n + 1)[n]
      BY <2>1, <2>2, IteratesUnique
  <2>4. h(n + 1)[n + 1] = s[h(n + 1)[n]]
      BY <2>1, <2>2 DEF Iterates
  <2> QED BY <2>1, <2>3, <2>4
<1>4. f = [n \in Nat |-> f[n]]
    OBVIOUS
<1> HIDE DEF f
<1> DEFINE S == {n \in Nat : f[n] \in V}
<1>5. 0 \in S
    BY <1>2
<1>6. ASSUME NEW n \in Nat, n \in S PROVE n + 1 \in S
    BY <1>3, <1>6 DEF Maps
<1> HIDE DEF S
<1>7. Nat \subseteq S
    BY <1>5, <1>6, SetInduction
<1>8. f \in [Nat -> V]
    BY <1>4, <1>7 DEF S
<1> QED BY <1>2, <1>3, <1>8 DEF Iterated

-----------------------------------------------------------------------------
(* What an expression matches: one row of MatchesWith's definition for     *)
(* every kind of node.                                                     *)
LEMMA NodeMatches ==
    ASSUME NEW p, NEW B, NEW b
    PROVE  /\ \A n : MatchesNode(Proto(n), p, B, b) = MatchesProto(n, p)
           /\ \A a, d : MatchesNode(Host(a, d), p, B, b)
                           = (p.eth = IPV4 /\ EitherIs(p.src, p.dst, d, a))
           /\ \A a, d : MatchesNode(Port(a, d), p, B, b)
                           = (b /\ EitherIs(p.sport, p.dport, d, a))
           /\ \A e : MatchesNode(Not(e), p, B, b) = (e \notin B)
           /\ \A l, r : MatchesNode(And(l, r), p, B, b) = (l \in B /\ r \in B)
           /\ \A l, r : MatchesNode(Or(l, r), p, B, b) = (l \in B \/ r \in B)
<1>1. ASSUME NEW n PROVE MatchesNode(Proto(n), p, B, b) = MatchesProto(n, p)
    BY DEF MatchesNode, Proto
<1>2. ASSUME NEW a, NEW d
      PROVE  MatchesNode(Host(a, d), p, B, b)
                = (p.eth = IPV4 /\ EitherIs(p.src, p.dst, d, a))
    BY DEF MatchesNode, Host
<1>3. ASSUME NEW a, NEW d
      PROVE  MatchesNode(Port(a, d), p, B, b)
                = (b /\ EitherIs(p.sport, p.dport, d, a))
    BY DEF MatchesNode, Port
<1>4. ASSUME NEW e PROVE MatchesNode(Not(e), p, B, b) = (e \notin B)
    BY DEF MatchesNode, Not
<1>5. ASSUME NEW l, NEW r
      PROVE  MatchesNode(And(l, r), p, B, b) = ({l, r} \subseteq B)
    BY DEF MatchesNode, And
<1>6. ASSUME NEW l, NEW r
      PROVE  MatchesNode(Or(l, r), p, B, b) = ({l, r} \cap B # {})
    BY DEF MatchesNode, Or
<1>7. ASSUME NEW l, NEW r
      PROVE  /\ ({l, r} \subseteq B) = (l \in B /\ r \in B)
             /\ ({l, r} \cap B # {}) = (l \in B \/ r \in B)
    OBVIOUS
<1> QED BY <1>1, <1>2, <1>3, <1>4, <1>5, <1>6, <1>7

LEMMA NodeOperands ==
    /\ \A x \in Primitives : Operands(x) = {}
    /\ \A e : Operands(Not(e)) = {e}
    /\ \A l, r : Operands(And(l, r)) = {l, r} /\ Operands(Or(l, r)) = {l, r}
<1>1. ASSUME NEW n PROVE Operands(Proto(n)) = {}
    BY DEF Operands, Proto
<1>2. ASSUME NEW a, NEW d PROVE Operands(Host(a, d)) = {} /\ Operands(Port(a, d)) = {}
  <2>1. Operands(Host(a, d)) = {}
      BY DEF Operands, Host
  <2>2. Operands(Port(a, d)) = {}
      BY DEF Operands, Port
  <2> QED BY <2>1, <2>2
<1>3. ASSUME NEW x \in Primitives PROVE Operands(x) = {}
    BY <1>1, <1>2 DEF Primitives
<1>4. ASSUME NEW e PROVE Operands(Not(e)) = {e}
    BY DEF Operands, Not
<1>5. ASSUME NEW l, NEW r PROVE Operands(And(l, r)) = {l, r}
    BY DEF Operands, And
<1>6. ASSUME NEW l, NEW r PROVE Operands(Or(l, r)) = {l, r}
    BY DEF Operands, Or
<1> QED BY <1>3, <1>4, <1>5, <1>6

(* A primitive, or an operator over trees of S.                            *)
Shape(x, S) == \/ x \in Primitives
               \/ \E e \in S : x = Not(e)
               \/ \E l, r \in S : x = And(l, r) \/ x = Or(l, r)

LEMMA LevelShape ==
    ASSUME NEW n \in Nat
    PROVE  \A x \in LevelTo(n + 1) : Shape(x, LevelTo(n))
<1> DEFINE S == {m \in Nat : \A x \in LevelTo(m + 1) : Shape(x, LevelTo(m))}
<1>0. \A m \in Nat : LevelTo(m + 1) = Grown(LevelTo(m))
    BY LevelGrows
<1>1. 0 \in S
    BY <1>0, LevelGrows DEF Grown, Shape
<1>2. ASSUME NEW m \in Nat, m \in S PROVE m + 1 \in S
  <2> SUFFICES ASSUME NEW x \in LevelTo((m + 1) + 1) PROVE Shape(x, LevelTo(m + 1))
      OBVIOUS
  <2>1. LevelTo((m + 1) + 1) = Grown(LevelTo(m + 1)) /\ LevelTo(m + 1) = Grown(LevelTo(m))
      BY <1>0
  <2>2. CASE x \in LevelTo(m + 1)
    <3>1. Shape(x, LevelTo(m))
        BY <1>2, <2>2
    <3>2. LevelTo(m) \subseteq LevelTo(m + 1)
        BY <2>1 DEF Grown
    <3> HIDE DEF S
    <3> QED BY <3>1, <3>2 DEF Shape
  <2>3. CASE x \notin LevelTo(m + 1)
      BY <2>1, <2>3 DEF Grown, Shape
  <2> QED BY <2>2, <2>3
<1> HIDE DEF S
<1>3. n \in S
    BY <1>1, <1>2, SetInduction
<1> QED BY <1>3 DEF S

(* A tree is settled by its operands.                                      *)
LEMMA NodeLocal ==
    ASSUME NEW S, NEW x, Shape(x, S), NEW p, NEW b, NEW B, NEW C,
           \A y \in S : y \in Operands(x) => (y \in B <=> y \in C)
    PROVE  MatchesNode(x, p, B, b) <=> MatchesNode(x, p, C, b)
<1>1. CASE x \in Primitives
    BY <1>1, NodeMatches DEF Primitives
<1>2. CASE \E e \in S : x = Not(e)
  <2>1. PICK e \in S : x = Not(e)
      BY <1>2
  <2>2. e \in B <=> e \in C
      BY <2>1, NodeOperands
  <2> QED BY <2>1, <2>2, NodeMatches
<1>3. CASE \E l, r \in S : x = And(l, r) \/ x = Or(l, r)
  <2>1. PICK l \in S, r \in S : x = And(l, r) \/ x = Or(l, r)
      BY <1>3
  <2>2. (l \in B <=> l \in C) /\ (r \in B <=> r \in C)
    <3>1. l \in Operands(x) /\ r \in Operands(x)
        BY <2>1, NodeOperands
    <3> QED BY <3>1
  <2> QED BY <2>1, <2>2, NodeMatches
<1> QED BY <1>1, <1>2, <1>3 DEF Shape


(* The trees that match p, each one as its operands say.                   *)
Truth(p, b, T) == T \subseteq AllTrees /\ \A x \in AllTrees : x \in T <=> MatchesNode(x, p, T, b)

LEMMA TruthExists ==
    ASSUME NEW p, NEW b
    PROVE  \E T : Truth(p, b, T)
<1> DEFINE V == SUBSET AllTrees
           s == [B \in V |-> {x \in AllTrees : MatchesNode(x, p, B, b)}]
<1>1. {} \in V /\ Maps(s, V)
    BY DEF Maps
<1>2. PICK f : f \in [Nat -> V] /\ \A n \in Nat : f[n + 1] = s[f[n]]
  <2> HIDE DEF V, s
  <2>1. PICK f : Iterated(V, {}, s, f)
      BY <1>1, Iteration
  <2> QED BY <2>1 DEF Iterated
<1>3. ASSUME NEW n \in Nat, NEW x \in AllTrees
      PROVE  x \in f[n + 1] <=> MatchesNode(x, p, f[n], b)
    BY <1>2
<1>4. f \in [Nat -> V]
    BY <1>2
<1> HIDE DEF s
<1> DEFINE Stable(n) == \A x \in LevelTo(n) : \A m \in Nat :
                            m >= n + 1 => (x \in f[m] <=> x \in f[n + 1])
           S == {n \in Nat : Stable(n)}
<1>5. \A n \in Nat : LevelTo(n) \subseteq AllTrees
    BY DEF AllTrees
<1>6. 0 \in S
  <2> SUFFICES ASSUME NEW x \in LevelTo(0), NEW m \in Nat, m >= 0 + 1
               PROVE  x \in f[m] <=> x \in f[0 + 1]
      OBVIOUS
  <2>1. x \in Primitives /\ x \in AllTrees /\ m - 1 \in Nat /\ (m - 1) + 1 = m
      BY <1>5, LevelGrows
  <2>2. MatchesNode(x, p, f[m - 1], b) <=> MatchesNode(x, p, f[0], b)
    <3>1. Shape(x, {})
        BY <2>1 DEF Shape
    <3> QED BY <3>1, NodeLocal
  <2>3. x \in f[(m - 1) + 1] <=> MatchesNode(x, p, f[m - 1], b)
      BY <1>3, <2>1
  <2> QED BY <1>3, <2>1, <2>2, <2>3
<1>7. ASSUME NEW n \in Nat, n \in S PROVE n + 1 \in S
  <2> SUFFICES ASSUME NEW x \in LevelTo(n + 1), NEW m \in Nat, m >= (n + 1) + 1
               PROVE  x \in f[m] <=> x \in f[(n + 1) + 1]
      OBVIOUS
  <2>1. x \in AllTrees /\ m - 1 \in Nat /\ (m - 1) + 1 = m /\ m - 1 >= n + 1
      BY <1>5
  <2>2. Shape(x, LevelTo(n))
      BY LevelShape
  <2>3. \A y \in LevelTo(n) : y \in f[m - 1] <=> y \in f[n + 1]
      BY <1>7, <2>1
  <2>4. MatchesNode(x, p, f[m - 1], b) <=> MatchesNode(x, p, f[n + 1], b)
      BY <2>2, <2>3, NodeLocal
  <2>5. /\ x \in f[(m - 1) + 1] <=> MatchesNode(x, p, f[m - 1], b)
        /\ x \in f[(n + 1) + 1] <=> MatchesNode(x, p, f[n + 1], b)
      BY <1>3, <2>1
  <2> QED BY <2>1, <2>4, <2>5
<1>8. \A n \in Nat : Stable(n)
  <2> HIDE DEF Stable
  <2>1. 0 \in S /\ \A n \in Nat : n \in S => n + 1 \in S
      BY <1>6, <1>7
  <2> HIDE DEF S
  <2>2. Nat \subseteq S
      BY <2>1, SetInduction
  <2> QED BY <2>2 DEF S
<1> DEFINE T == {x \in AllTrees : \E n \in Nat : x \in LevelTo(n) /\ x \in f[n + 1]}
<1>9. ASSUME NEW n \in Nat, NEW x \in LevelTo(n), NEW m \in Nat, m >= n + 1
      PROVE  x \in T <=> x \in f[m]
  <2>1. x \in f[m] <=> x \in f[n + 1]
      BY <1>8, <1>9
  <2>2. x \in AllTrees
      BY <1>5
  <2>3. ASSUME NEW k \in Nat, x \in LevelTo(k), x \in f[k + 1] PROVE x \in f[m]
    <3> DEFINE hi == n + 1 + k
    <3>1. hi \in Nat /\ hi >= n + 1 /\ hi >= k + 1
        OBVIOUS
    <3>2. x \in f[hi]
        BY <1>8, <2>3, <3>1
    <3>3. x \in f[n + 1]
        BY <1>8, <3>1, <3>2
    <3> QED BY <2>1, <3>3
  <2> QED BY <2>1, <2>2, <2>3
<1>10. ASSUME NEW x \in AllTrees PROVE x \in T <=> MatchesNode(x, p, T, b)
  <2>1. PICK n \in Nat : x \in LevelTo(n)
      BY DEF AllTrees
  <2>2. x \in LevelTo(n + 1) /\ n + 1 \in Nat /\ (n + 1) + 1 \in Nat
      BY <2>1, LevelGrows DEF Grown
  <2>3. Shape(x, LevelTo(n))
      BY <2>2, LevelShape
  <2>4. \A y \in LevelTo(n) : y \in T <=> y \in f[n + 1]
      BY <1>9
  <2>5. MatchesNode(x, p, T, b) <=> MatchesNode(x, p, f[n + 1], b)
    <3> HIDE DEF T
    <3> QED BY <2>3, <2>4, NodeLocal
  <2>6. x \in f[(n + 1) + 1] <=> MatchesNode(x, p, f[n + 1], b)
      BY <1>3, <2>2
  <2>7. x \in T <=> x \in f[(n + 1) + 1]
    <3>1. (n + 1) + 1 >= (n + 1)
        OBVIOUS
    <3> QED BY <1>9, <2>1, <2>2, <3>1
  <2> QED BY <2>5, <2>6, <2>7
<1>11. Truth(p, b, T)
  <2>1. T \subseteq AllTrees
      OBVIOUS
  <2> HIDE DEF T
  <2> QED BY <1>10, <2>1 DEF Truth
<1> QED BY <1>11

LEMMA TreeShape ==
    ASSUME NEW x \in AllTrees
    PROVE  Shape(x, AllTrees) /\ Operands(x) \subseteq AllTrees
<1>1. PICK n \in Nat : x \in LevelTo(n)
    BY DEF AllTrees
<1>2. x \in LevelTo(n + 1)
    BY <1>1, LevelGrows DEF Grown
<1>3. Shape(x, LevelTo(n))
    BY <1>2, LevelShape
<1>4. LevelTo(n) \subseteq AllTrees
    BY DEF AllTrees
<1>5. Shape(x, AllTrees)
    BY <1>3, <1>4 DEF Shape
<1> QED BY <1>5, NodeOperands DEF Shape


(* The rows of nodes below an expression,                                  *)
Rows(e, f) == /\ f \in [Nat -> SUBSET AllTrees] /\ f[0] = {e}
              /\ \A n \in Nat : f[n + 1] = UNION {Operands(x) : x \in f[n]}

LEMMA RowsExist ==
    ASSUME NEW e \in AllTrees
    PROVE  \E f : Rows(e, f)
<1> DEFINE V == SUBSET AllTrees
           s == [R \in V |-> UNION {Operands(x) : x \in R}]
           a == {e}
<1>1. a \in V
    OBVIOUS
<1>2. Maps(s, V)
  <2>1. ASSUME NEW R \in V PROVE UNION {Operands(x) : x \in R} \in V
    <3>1. \A x \in R : Operands(x) \subseteq AllTrees
        BY TreeShape
    <3> QED BY <3>1
  <2> QED BY <2>1 DEF Maps
<1>3. PICK f : Iterated(V, a, s, f)
  <2> HIDE DEF V, s, a
  <2> QED BY <1>1, <1>2, Iteration
<1>4. f \in [Nat -> V] /\ f[0] = {e} /\ \A n \in Nat : f[n + 1] = s[f[n]]
    BY <1>3 DEF Iterated
<1>5. ASSUME NEW n \in Nat PROVE f[n + 1] = UNION {Operands(x) : x \in f[n]}
    BY <1>4
<1> HIDE DEF s
<1> QED BY <1>4, <1>5 DEF Rows

(* and those of each row that match.                                       *)
RowStep(e, f) == [n \in Nat |-> IF n = 0 THEN {e} ELSE UNION {Operands(x) : x \in f[n - 1]}]
MatchStep(f, p, b, g) == [n \in Nat |-> IF f[n] = {} THEN {}
                                     ELSE {x \in f[n] : MatchesNode(x, p, g[n + 1], b)}]

LEMMA RowsUnfold ==
    ASSUME NEW e \in AllTrees
    PROVE  Rows(e, CHOOSE f : f = RowStep(e, f))
<1> DEFINE row == CHOOSE f : f = RowStep(e, f)
<1>1. PICK g : Rows(e, g)
    BY RowsExist
<1>2. g = RowStep(e, g)
  <2>1. ASSUME NEW n \in Nat PROVE g[n] = RowStep(e, g)[n]
    <3>1. CASE n = 0
        BY <3>1, <1>1 DEF Rows, RowStep
    <3>2. CASE n # 0
      <4>1. n - 1 \in Nat /\ (n - 1) + 1 = n
          BY <3>2
      <4>2. g[(n - 1) + 1] = UNION {Operands(x) : x \in g[n - 1]}
          BY <4>1, <1>1 DEF Rows
      <4> QED BY <3>2, <4>1, <4>2 DEF RowStep
    <3> QED BY <3>1, <3>2
  <2>2. g = [n \in Nat |-> g[n]] /\ RowStep(e, g) = [n \in Nat |-> RowStep(e, g)[n]]
      BY <1>1 DEF Rows, RowStep
  <2> QED BY <2>1, <2>2
<1>3. row = RowStep(e, row)
  <2> HIDE DEF row
  <2>1. \E f : f = RowStep(e, f)
      BY <1>2
  <2> QED BY <2>1, Zenon DEF row
<1> HIDE DEF row
<1>4. row[0] = {e} /\ row = [n \in Nat |-> row[n]]
    BY <1>3 DEF RowStep
<1>5. ASSUME NEW n \in Nat PROVE row[n + 1] = UNION {Operands(x) : x \in row[n]}
  <2>1. n + 1 \in Nat /\ n + 1 # 0 /\ (n + 1) - 1 = n
      OBVIOUS
  <2>2. RowStep(e, row)[n + 1] = UNION {Operands(x) : x \in row[(n + 1) - 1]}
      BY <2>1 DEF RowStep
  <2> QED BY <1>3, <2>1, <2>2
<1> DEFINE S == {n \in Nat : row[n] \subseteq AllTrees}
<1>6. 0 \in S
    BY <1>4
<1>7. ASSUME NEW n \in Nat, n \in S PROVE n + 1 \in S
  <2>1. \A x \in row[n] : Operands(x) \subseteq AllTrees
      BY <1>7, TreeShape
  <2> QED BY <1>5, <2>1
<1> HIDE DEF S
<1>8. Nat \subseteq S
    BY <1>6, <1>7, SetInduction
<1>9. Rows(e, row)
    BY <1>4, <1>5, <1>8 DEF Rows, S
<1> QED BY <1>9 DEF row

LEMMA MatchUnfold ==
    ASSUME NEW e \in AllTrees, NEW f, Rows(e, f), NEW p, NEW b, NEW T, Truth(p, b, T)
    PROVE  e \in (CHOOSE g : g = MatchStep(f, p, b, g))[0] <=> e \in T
<1> DEFINE m == CHOOSE g : g = MatchStep(f, p, b, g)
<1>1. ASSUME NEW n \in Nat, NEW x \in f[n]
      PROVE  x \in AllTrees /\ Operands(x) \subseteq f[n + 1]
    BY DEF Rows
<1>2. m = MatchStep(f, p, b, m)
  <2> DEFINE w == [n \in Nat |-> f[n] \cap T]
  <2>1. ASSUME NEW n \in Nat PROVE w[n] = MatchStep(f, p, b, w)[n]
    <3>1. ASSUME NEW x \in f[n]
          PROVE  x \in T <=> MatchesNode(x, p, w[n + 1], b)
      <4>1. x \in AllTrees /\ Operands(x) \subseteq f[n + 1] /\ Shape(x, AllTrees)
          BY <1>1, TreeShape
      <4>2. \A y \in AllTrees : y \in Operands(x) => (y \in w[n + 1] <=> y \in T)
          BY <4>1
      <4>3. MatchesNode(x, p, w[n + 1], b) <=> MatchesNode(x, p, T, b)
        <5> HIDE DEF w
        <5> QED BY <4>1, <4>2, NodeLocal
      <4> QED BY <4>1, <4>3 DEF Truth
    <3>2. MatchStep(f, p, b, w)[n] = IF f[n] = {} THEN {}
                                  ELSE {x \in f[n] : MatchesNode(x, p, w[n + 1], b)}
        BY DEF MatchStep
    <3>3. w[n] = f[n] \cap T
        OBVIOUS
    <3> HIDE DEF w
    <3> QED BY <3>1, <3>2, <3>3
  <2>2. MatchStep(f, p, b, w) = [n \in Nat |-> MatchStep(f, p, b, w)[n]]
      BY DEF MatchStep
  <2>3. w = [n \in Nat |-> w[n]]
      OBVIOUS
  <2> HIDE DEF w
  <2>4. w = MatchStep(f, p, b, w)
      BY <2>1, <2>2, <2>3
  <2> QED BY <2>4, Zenon
<1> HIDE DEF m
<1>3. ASSUME NEW n \in Nat, NEW x \in f[n]
      PROVE  x \in m[n] <=> MatchesNode(x, p, m[n + 1], b)
  <2>1. MatchStep(f, p, b, m)[n] = IF f[n] = {} THEN {}
                                ELSE {y \in f[n] : MatchesNode(y, p, m[n + 1], b)}
      BY DEF MatchStep
  <2> QED BY <1>2, <2>1
<1> DEFINE S == {k \in Nat : \A n \in Nat : \A x \in f[n] :
                                x \in LevelTo(k) => (x \in m[n] <=> x \in T)}
<1>4. ASSUME NEW n \in Nat, NEW x \in f[n], NEW L, Shape(x, L),
             \A y \in L : y \in Operands(x) => (y \in m[n + 1] <=> y \in T)
      PROVE  x \in m[n] <=> x \in T
  <2>1. MatchesNode(x, p, m[n + 1], b) <=> MatchesNode(x, p, T, b)
      BY <1>4, NodeLocal
  <2>2. x \in T <=> MatchesNode(x, p, T, b)
      BY <1>1 DEF Truth
  <2> QED BY <1>3, <2>1, <2>2
<1>5. 0 \in S
  <2>1. \A x \in LevelTo(0) : Shape(x, {})
      BY LevelGrows DEF Shape
  <2> QED BY <1>4, <2>1
<1>6. ASSUME NEW k \in Nat, k \in S PROVE k + 1 \in S
  <2> SUFFICES ASSUME NEW n \in Nat, NEW x \in f[n], x \in LevelTo(k + 1)
               PROVE  x \in m[n] <=> x \in T
      OBVIOUS
  <2>1. Shape(x, LevelTo(k))
      BY LevelShape
  <2>2. \A y \in LevelTo(k) : y \in Operands(x) => (y \in m[n + 1] <=> y \in T)
      BY <1>1, <1>6
  <2> QED BY <1>4, <2>1, <2>2
<1>7. Nat \subseteq S
  <2> HIDE DEF S
  <2> QED BY <1>5, <1>6, SetInduction
<1>8. PICK k \in Nat : e \in LevelTo(k)
    BY DEF AllTrees
<1>9. e \in f[0]
    BY DEF Rows
<1>10. e \in m[0] <=> e \in T
    BY <1>7, <1>8, <1>9
<1> QED BY <1>10 DEF m

LEMMA MatchesTruth ==
    ASSUME NEW e \in AllTrees, NEW p, NEW b, NEW T, Truth(p, b, T)
    PROVE  MatchesWith(e, p, b) <=> e \in T
<1> DEFINE row == CHOOSE f : f = RowStep(e, f)
<1>1. Rows(e, row)
    BY RowsUnfold
<1>2. MatchesWith(e, p, b) <=> e \in (CHOOSE g : g = MatchStep(row, p, b, g))[0]
    BY DEF MatchesWith, MatchStep, RowStep
<1> HIDE DEF row
<1> QED BY <1>1, <1>2, MatchUnfold


(* An expression matches a frame as its operator says of its operands.     *)
LEMMA MatchesEquations ==
    ASSUME NEW p, NEW b
    PROVE  /\ \A n \in Protocols : MatchesWith(Proto(n), p, b) <=> MatchesProto(n, p)
           /\ \A a \in Nat, d \in Dirs :
                 MatchesWith(Host(a, d), p, b) <=> p.eth = IPV4 /\ EitherIs(p.src, p.dst, d, a)
           /\ \A a \in Nat, d \in Dirs :
                 MatchesWith(Port(a, d), p, b)
                    <=> b /\ EitherIs(p.sport, p.dport, d, a)
           /\ \A e \in AllTrees : MatchesWith(Not(e), p, b) <=> ~MatchesWith(e, p, b)
           /\ \A l, r \in AllTrees :
                 /\ MatchesWith(And(l, r), p, b) <=> MatchesWith(l, p, b) /\ MatchesWith(r, p, b)
                 /\ MatchesWith(Or(l, r), p, b) <=> MatchesWith(l, p, b) \/ MatchesWith(r, p, b)
<1>1. PICK T : Truth(p, b, T)
    BY TruthExists
<1>2. \A e \in AllTrees : MatchesWith(e, p, b) <=> e \in T
    BY <1>1, MatchesTruth
<1>3. \A e \in AllTrees : MatchesWith(e, p, b) <=> MatchesNode(e, p, T, b)
    BY <1>1, <1>2 DEF Truth
<1>4. \A n \in Protocols : MatchesWith(Proto(n), p, b) <=> MatchesProto(n, p)
    BY <1>3, TreesClosed, NodeMatches
<1>5. ASSUME NEW a \in Nat, NEW d \in Dirs
      PROVE  MatchesWith(Host(a, d), p, b) <=> p.eth = IPV4 /\ EitherIs(p.src, p.dst, d, a)
  <2>1. Host(a, d) \in AllTrees
      BY TreesClosed
  <2>2. MatchesWith(Host(a, d), p, b) <=> MatchesNode(Host(a, d), p, T, b)
      BY <1>3, <2>1
  <2>3. MatchesNode(Host(a, d), p, T, b) = (p.eth = IPV4 /\ EitherIs(p.src, p.dst, d, a))
      BY NodeMatches
  <2> QED BY <2>2, <2>3
<1>6. ASSUME NEW a \in Nat, NEW d \in Dirs
      PROVE  MatchesWith(Port(a, d), p, b) <=> b /\ EitherIs(p.sport, p.dport, d, a)
  <2>1. Port(a, d) \in AllTrees
      BY TreesClosed
  <2>2. MatchesWith(Port(a, d), p, b) <=> MatchesNode(Port(a, d), p, T, b)
      BY <1>3, <2>1
  <2>3. MatchesNode(Port(a, d), p, T, b) = (b /\ EitherIs(p.sport, p.dport, d, a))
      BY NodeMatches
  <2> QED BY <2>2, <2>3
<1>7. \A e \in AllTrees : MatchesWith(Not(e), p, b) <=> ~MatchesWith(e, p, b)
    BY <1>2, <1>3, TreesClosed, NodeMatches, ZenonT(60)
<1>8. ASSUME NEW l \in AllTrees, NEW r \in AllTrees
      PROVE  /\ MatchesWith(And(l, r), p, b) <=> MatchesWith(l, p, b) /\ MatchesWith(r, p, b)
             /\ MatchesWith(Or(l, r), p, b) <=> MatchesWith(l, p, b) \/ MatchesWith(r, p, b)
  <2>1. And(l, r) \in AllTrees /\ Or(l, r) \in AllTrees
      BY TreesClosed
  <2>2. /\ MatchesWith(And(l, r), p, b) <=> l \in T /\ r \in T
        /\ MatchesWith(Or(l, r), p, b) <=> l \in T \/ r \in T
      BY <1>3, <2>1, NodeMatches
  <2> QED BY <1>2, <2>2
<1> QED BY <1>4, <1>5, <1>6, <1>7, <1>8

(* What the programs keep: _compile_port asks for IPv6 and takes every     *)
(* other frame for IPv4.                                                   *)
TakenForPorts(p) == p.proto \in {TCP, UDP} /\ (p.eth # IPV6 => p.frag % 8192 = 0)

Keeps(e, p) == MatchesWith(e, p, TakenForPorts(p))

LEMMA KeepsEquations ==
    ASSUME NEW p
    PROVE  /\ \A n \in Protocols : Keeps(Proto(n), p) <=> MatchesProto(n, p)
           /\ \A a \in Nat, d \in Dirs :
                 Keeps(Host(a, d), p) <=> p.eth = IPV4 /\ EitherIs(p.src, p.dst, d, a)
           /\ \A a \in Nat, d \in Dirs :
                 Keeps(Port(a, d), p)
                    <=> TakenForPorts(p) /\ EitherIs(p.sport, p.dport, d, a)
           /\ \A e \in AllTrees : Keeps(Not(e), p) <=> ~Keeps(e, p)
           /\ \A l, r \in AllTrees :
                 /\ Keeps(And(l, r), p) <=> Keeps(l, p) /\ Keeps(r, p)
                 /\ Keeps(Or(l, r), p) <=> Keeps(l, p) \/ Keeps(r, p)
<1> DEFINE b == TakenForPorts(p)
<1>1. \A e : Keeps(e, p) = MatchesWith(e, p, b)
    BY DEF Keeps
<1>2. b <=> TakenForPorts(p)
    OBVIOUS
<1> HIDE DEF b
<1>3. /\ \A n \in Protocols : MatchesWith(Proto(n), p, b) <=> MatchesProto(n, p)
      /\ \A a \in Nat, d \in Dirs :
            MatchesWith(Host(a, d), p, b) <=> p.eth = IPV4 /\ EitherIs(p.src, p.dst, d, a)
      /\ \A a \in Nat, d \in Dirs :
            MatchesWith(Port(a, d), p, b) <=> b /\ EitherIs(p.sport, p.dport, d, a)
      /\ \A e \in AllTrees : MatchesWith(Not(e), p, b) <=> ~MatchesWith(e, p, b)
      /\ \A l, r \in AllTrees :
            /\ MatchesWith(And(l, r), p, b) <=> MatchesWith(l, p, b) /\ MatchesWith(r, p, b)
            /\ MatchesWith(Or(l, r), p, b) <=> MatchesWith(l, p, b) \/ MatchesWith(r, p, b)
    BY MatchesEquations
<1> QED BY <1>1, <1>2, <1>3

(* Of a frame of IPv4 or IPv6 that is right, and it makes no difference to *)
(* an expression that does not hang on ports.                              *)
LEMMA KeepsMatches ==
    ASSUME NEW e, NEW p, p.eth \in {IPV4, IPV6} \/ Indifferent(e, p)
    PROVE  Keeps(e, p) <=> Matches(e, p)
<1>0. TakenForPorts(p) \in BOOLEAN /\ CarriesPorts(p) \in BOOLEAN
    BY DEF TakenForPorts, CarriesPorts
<1>1. CASE p.eth \in {IPV4, IPV6}
  <2>1. TakenForPorts(p) <=> CarriesPorts(p)
    <3>1. IPV4 # IPV6
        BY DEF IPV4, IPV6
    <3>2. CASE p.eth = IPV6
        BY <3>2 DEF TakenForPorts, CarriesPorts
    <3>3. CASE p.eth = IPV4
        BY <3>1, <3>3 DEF TakenForPorts, CarriesPorts
    <3> QED BY <1>1, <3>2, <3>3
  <2>2. TakenForPorts(p) = CarriesPorts(p)
      BY <1>0, <2>1
  <2> QED BY <2>2, Zenon DEF Keeps, Matches
<1>2. CASE Indifferent(e, p)
  <2>1. Keeps(e, p) <=> MatchesWith(e, p, TRUE)
    <3>1. CASE TakenForPorts(p) = TRUE
        BY <3>1 DEF Keeps
    <3>2. CASE TakenForPorts(p) = FALSE
        BY <1>2, <3>2 DEF Keeps, Indifferent
    <3> QED BY <1>0, <3>1, <3>2
  <2>2. Matches(e, p) <=> MatchesWith(e, p, TRUE)
    <3>1. CASE CarriesPorts(p) = TRUE
        BY <3>1 DEF Matches
    <3>2. CASE CarriesPorts(p) = FALSE
        BY <1>2, <3>2 DEF Matches, Indifferent
    <3> QED BY <1>0, <3>1, <3>2
  <2> QED BY <2>1, <2>2
<1> QED BY <1>1, <1>2


-----------------------------------------------------------------------------
(* What the loads of a program find in a frame.                            *)
LEMMA Weights ==
    /\ Weight[0 + 1] = 1 /\ Weight[1 + 1] = 256
    /\ Weight[2 + 1] = 65536 /\ Weight[3 + 1] = 16777216
    BY SMT DEF Weight

LEMMA HalfBytes ==
    ASSUME NEW v \in Half
    PROVE  256 * ByteOf(v, 1) + ByteOf(v, 0) = v
<1>1. v \in Nat /\ v < 65536
    BY DEF Half
<1> QED BY <1>1, Weights, SMTT(30) DEF ByteOf

LEMMA WordBytes ==
    ASSUME NEW v \in Word
    PROVE  16777216 * ByteOf(v, 3) + 65536 * ByteOf(v, 2) + 256 * ByteOf(v, 1)
              + ByteOf(v, 0) = v
<1>1. v \in Nat /\ v \div 16777216 \in 0..255
    BY SMT DEF Word, Byte
<1> QED BY <1>1, Weights, SMT DEF ByteOf

LEMMA FieldTypes ==
    ASSUME NEW p \in FrameFields
    PROVE  /\ p.eth \in Half /\ p.frag \in Half /\ p.sport \in Half /\ p.dport \in Half
           /\ p.proto \in Byte /\ p.inner \in Byte /\ p.ihl \in 5..15
           /\ p.src \in Word /\ p.dst \in Word /\ p.len \in Nat
    BY DEF FrameFields

LEMMA LoadIs ==
    ASSUME NEW p, NEW o \in Nat
    PROVE  /\ Load(p, o, 1) = ByteAt(p, o + 0)
           /\ Load(p, o, 2) = 256 * ByteAt(p, o + 0) + ByteAt(p, o + 1)
           /\ Load(p, o, 4) = 16777216 * ByteAt(p, o + 0) + 65536 * ByteAt(p, o + 1)
                                 + 256 * ByteAt(p, o + 2) + ByteAt(p, o + 3)
<1>1. Load(p, o, 1) = ByteAt(p, o + 0)
    BY SMT DEF Load
<1>2. Load(p, o, 2) = 256 * ByteAt(p, o + 0) + ByteAt(p, o + 1)
    BY SMT DEF Load
<1>3. Load(p, o, 4) = 16777216 * ByteAt(p, o + 0) + 65536 * ByteAt(p, o + 1)
                         + 256 * ByteAt(p, o + 2) + ByteAt(p, o + 3)
    BY SMT DEF Load
<1> QED BY <1>1, <1>2, <1>3, SMT

LEMMA LoadEth ==
    ASSUME NEW p \in FrameFields
    PROVE  Load(p, 12, 2) = p.eth
<1>0. p.ihl \in Nat /\ p.ihl >= 5
    BY FieldTypes
<1>1. ByteAt(p, 12) = ByteOf(p.eth, 1)
  <2>1. ByteAt(p, 12) = ByteOf(p.eth, 13 - 12)
      BY <1>0, SMT DEF ByteAt
  <2> QED BY <2>1
<1>2. ByteAt(p, 13) = ByteOf(p.eth, 0)
  <2>1. ByteAt(p, 13) = ByteOf(p.eth, 13 - 13)
      BY <1>0, SMT DEF ByteAt
  <2> QED BY <2>1
<1>3. Load(p, 12, 2) = 256 * ByteAt(p, 12 + 0) + ByteAt(p, 12 + 1)
    BY LoadIs
<1>4. 12 + 0 = 12 /\ 12 + 1 = 13
    OBVIOUS
<1> QED BY <1>1, <1>2, <1>3, <1>4, FieldTypes, HalfBytes


(* A frame that is not IPv6,                                               *)
LEMMA LoadFrag ==
    ASSUME NEW p \in FrameFields, p.eth # IPV6
    PROVE  Load(p, 20, 2) = p.frag
<1>0. p.ihl \in Nat /\ p.ihl >= 5
    BY FieldTypes
<1>1. ByteAt(p, 20) = ByteOf(p.frag, 1)
  <2>1. ByteAt(p, 20) = ByteOf(p.frag, 21 - 20)
      BY <1>0, SMT DEF ByteAt, IPV6
  <2> QED BY <2>1
<1>2. ByteAt(p, 21) = ByteOf(p.frag, 0)
  <2>1. ByteAt(p, 21) = ByteOf(p.frag, 21 - 21)
      BY <1>0, SMT DEF ByteAt, IPV6
  <2> QED BY <2>1
<1>3. Load(p, 20, 2) = 256 * ByteAt(p, 20 + 0) + ByteAt(p, 20 + 1)
    BY LoadIs, SMT
<1>4. 20 + 0 = 20 /\ 20 + 1 = 21
    OBVIOUS
<1> QED BY <1>1, <1>2, <1>3, <1>4, FieldTypes, HalfBytes, SMT

LEMMA LoadProtocol ==
    ASSUME NEW p \in FrameFields, p.eth # IPV6
    PROVE  Load(p, 23, 1) = p.proto
<1>0. p.ihl \in Nat /\ p.ihl >= 5
    BY FieldTypes
<1>1. ByteAt(p, 23) = p.proto
    BY <1>0, SMT DEF ByteAt, IPV6
<1>2. Load(p, 23, 1) = ByteAt(p, 23 + 0) /\ 23 + 0 = 23
    BY LoadIs
<1> QED BY <1>1, <1>2

LEMMA LoadSrc ==
    ASSUME NEW p \in FrameFields, p.eth # IPV6
    PROVE  Load(p, 26, 4) = p.src
<1>0. p.ihl \in Nat /\ p.ihl >= 5
    BY FieldTypes
<1>1. ByteAt(p, 26) = ByteOf(p.src, 3)
  <2>1. ByteAt(p, 26) = ByteOf(p.src, 29 - 26)
      BY <1>0, SMT DEF ByteAt, IPV6
  <2> QED BY <2>1
<1>2. ByteAt(p, 27) = ByteOf(p.src, 2)
  <2>1. ByteAt(p, 27) = ByteOf(p.src, 29 - 27)
      BY <1>0, SMT DEF ByteAt, IPV6
  <2> QED BY <2>1
<1>3. ByteAt(p, 28) = ByteOf(p.src, 1)
  <2>1. ByteAt(p, 28) = ByteOf(p.src, 29 - 28)
      BY <1>0, SMT DEF ByteAt, IPV6
  <2> QED BY <2>1
<1>4. ByteAt(p, 29) = ByteOf(p.src, 0)
  <2>1. ByteAt(p, 29) = ByteOf(p.src, 29 - 29)
      BY <1>0, SMT DEF ByteAt, IPV6
  <2> QED BY <2>1
<1>5. Load(p, 26, 4) = 16777216 * ByteAt(p, 26 + 0) + 65536 * ByteAt(p, 26 + 1)
                         + 256 * ByteAt(p, 26 + 2) + ByteAt(p, 26 + 3)
    BY LoadIs, SMT
<1>6. 26 + 0 = 26 /\ 26 + 1 = 27 /\ 26 + 2 = 28 /\ 26 + 3 = 29
    OBVIOUS
<1> QED BY <1>1, <1>2, <1>3, <1>4, <1>5, <1>6, FieldTypes, WordBytes, SMT

LEMMA LoadDst ==
    ASSUME NEW p \in FrameFields, p.eth # IPV6
    PROVE  Load(p, 30, 4) = p.dst
<1>0. p.ihl \in Nat /\ p.ihl >= 5
    BY FieldTypes
<1>1. ByteAt(p, 30) = ByteOf(p.dst, 3)
  <2>1. ByteAt(p, 30) = ByteOf(p.dst, 33 - 30)
      BY <1>0, SMT DEF ByteAt, IPV6
  <2> QED BY <2>1
<1>2. ByteAt(p, 31) = ByteOf(p.dst, 2)
  <2>1. ByteAt(p, 31) = ByteOf(p.dst, 33 - 31)
      BY <1>0, SMT DEF ByteAt, IPV6
  <2> QED BY <2>1
<1>3. ByteAt(p, 32) = ByteOf(p.dst, 1)
  <2>1. ByteAt(p, 32) = ByteOf(p.dst, 33 - 32)
      BY <1>0, SMT DEF ByteAt, IPV6
  <2> QED BY <2>1
<1>4. ByteAt(p, 33) = ByteOf(p.dst, 0)
  <2>1. ByteAt(p, 33) = ByteOf(p.dst, 33 - 33)
      BY <1>0, SMT DEF ByteAt, IPV6
  <2> QED BY <2>1
<1>5. Load(p, 30, 4) = 16777216 * ByteAt(p, 30 + 0) + 65536 * ByteAt(p, 30 + 1)
                         + 256 * ByteAt(p, 30 + 2) + ByteAt(p, 30 + 3)
    BY LoadIs, SMT
<1>6. 30 + 0 = 30 /\ 30 + 1 = 31 /\ 30 + 2 = 32 /\ 30 + 3 = 33
    OBVIOUS
<1> QED BY <1>1, <1>2, <1>3, <1>4, <1>5, <1>6, FieldTypes, WordBytes, SMT

(* X is four times the header length nibble where IPv4 has it.             *)
HeaderBytes(p) == 4 * (Load(p, 14, 1) % 16)

LEMMA HeaderLength ==
    ASSUME NEW p \in FrameFields
    PROVE  /\ HeaderBytes(p) \in Nat /\ HeaderBytes(p) <= 4 * p.ihl
           /\ p.eth # IPV6 => HeaderBytes(p) = 4 * p.ihl
<1>0. p.ihl \in Nat /\ p.ihl >= 5 /\ p.ihl <= 15
    BY FieldTypes
<1>1. Load(p, 14, 1) = ByteAt(p, 14 + 0) /\ 14 + 0 = 14
    BY LoadIs
<1>2. CASE p.eth # IPV6
  <2>1. ByteAt(p, 14) = 64 + p.ihl
      BY <1>0, <1>2, SMT DEF ByteAt, IPV6
  <2>2. (64 + p.ihl) % 16 = p.ihl
      BY <1>0
  <2> QED BY <1>0, <1>1, <2>1, <2>2 DEF HeaderBytes
<1>3. CASE p.eth = IPV6
  <2>1. ByteAt(p, 14) = 0
      BY <1>0, <1>3, SMT DEF ByteAt, IPV6
  <2>2. 0 % 16 = 0
      OBVIOUS
  <2>3. HeaderBytes(p) = 4 * 0
      BY <1>1, <2>1, <2>2 DEF HeaderBytes
  <2> QED BY <1>0, <1>3, <2>3
<1> QED BY <1>2, <1>3

LEMMA LoadSport ==
    ASSUME NEW p \in FrameFields, p.eth # IPV6
    PROVE  Load(p, 14 + HeaderBytes(p), 2) = p.sport
<1>0. p.ihl \in Nat /\ p.ihl >= 5
    BY FieldTypes
<1> DEFINE o == 14 + 4 * p.ihl
<1>1. HeaderBytes(p) = 4 * p.ihl /\ o \in Nat
    BY <1>0, HeaderLength
<1>2. ByteAt(p, o + 0) = ByteOf(p.sport, 1)
  <2>1. (o + 0) - (14 + 4 * p.ihl) = 0 /\ o + 0 > 33
      BY <1>0
  <2> DEFINE q == o + 0
  <2>2. q \in Nat /\ q > 33 /\ q - (14 + 4 * p.ihl) = 0
      BY <1>0, <2>1
  <2> HIDE DEF q
  <2>3. ByteAt(p, q) = PortByte(p, q - (14 + 4 * p.ihl))
      BY <1>0, <2>2, SMT DEF ByteAt, IPV6
  <2>4. PortByte(p, 0) = ByteOf(p.sport, 1)
      BY SMT DEF PortByte
  <2> QED BY <2>2, <2>3, <2>4 DEF q
<1>3. ByteAt(p, o + 1) = ByteOf(p.sport, 0)
  <2>1. (o + 1) - (14 + 4 * p.ihl) = 1 /\ o + 1 > 33
      BY <1>0
  <2> DEFINE q == o + 1
  <2>2. q \in Nat /\ q > 33 /\ q - (14 + 4 * p.ihl) = 1
      BY <1>0, <2>1
  <2> HIDE DEF q
  <2>3. ByteAt(p, q) = PortByte(p, q - (14 + 4 * p.ihl))
      BY <1>0, <2>2, SMT DEF ByteAt, IPV6
  <2>4. PortByte(p, 1) = ByteOf(p.sport, 0)
      BY SMT DEF PortByte
  <2> QED BY <2>2, <2>3, <2>4 DEF q
<1>4. Load(p, o, 2) = 256 * ByteAt(p, o + 0) + ByteAt(p, o + 1)
  <2> HIDE DEF o
  <2> QED BY <1>1, LoadIs
<1> HIDE DEF o
<1>5. Load(p, o, 2) = p.sport
    BY <1>2, <1>3, <1>4, FieldTypes, HalfBytes
<1> QED BY <1>1, <1>5 DEF o

LEMMA LoadDport ==
    ASSUME NEW p \in FrameFields, p.eth # IPV6
    PROVE  Load(p, 16 + HeaderBytes(p), 2) = p.dport
<1>0. p.ihl \in Nat /\ p.ihl >= 5
    BY FieldTypes
<1> DEFINE o == 16 + 4 * p.ihl
<1>1. HeaderBytes(p) = 4 * p.ihl /\ o \in Nat
    BY <1>0, HeaderLength
<1>2. ByteAt(p, o + 0) = ByteOf(p.dport, 1)
  <2>1. (o + 0) - (14 + 4 * p.ihl) = 2 /\ o + 0 > 33
      BY <1>0
  <2> DEFINE q == o + 0
  <2>2. q \in Nat /\ q > 33 /\ q - (14 + 4 * p.ihl) = 2
      BY <1>0, <2>1
  <2> HIDE DEF q
  <2>3. ByteAt(p, q) = PortByte(p, q - (14 + 4 * p.ihl))
      BY <1>0, <2>2, SMT DEF ByteAt, IPV6
  <2>4. PortByte(p, 2) = ByteOf(p.dport, 1)
      BY SMT DEF PortByte
  <2> QED BY <2>2, <2>3, <2>4 DEF q
<1>3. ByteAt(p, o + 1) = ByteOf(p.dport, 0)
  <2>1. (o + 1) - (14 + 4 * p.ihl) = 3 /\ o + 1 > 33
      BY <1>0
  <2> DEFINE q == o + 1
  <2>2. q \in Nat /\ q > 33 /\ q - (14 + 4 * p.ihl) = 3
      BY <1>0, <2>1
  <2> HIDE DEF q
  <2>3. ByteAt(p, q) = PortByte(p, q - (14 + 4 * p.ihl))
      BY <1>0, <2>2, SMT DEF ByteAt, IPV6
  <2>4. PortByte(p, 3) = ByteOf(p.dport, 0)
      BY SMT DEF PortByte
  <2> QED BY <2>2, <2>3, <2>4 DEF q
<1>4. Load(p, o, 2) = 256 * ByteAt(p, o + 0) + ByteAt(p, o + 1)
  <2> HIDE DEF o
  <2> QED BY <1>1, LoadIs
<1> HIDE DEF o
<1>5. Load(p, o, 2) = p.dport
    BY <1>2, <1>3, <1>4, FieldTypes, HalfBytes
<1> QED BY <1>1, <1>5 DEF o

(* and one that is.                                                        *)
LEMMA LoadNext ==
    ASSUME NEW p \in FrameFields, p.eth = IPV6
    PROVE  Load(p, 20, 1) = p.proto
<1>0. p.ihl \in Nat /\ p.ihl >= 5
    BY FieldTypes
<1>1. ByteAt(p, 20) = p.proto
    BY <1>0, SMT DEF ByteAt, IPV6
<1>2. Load(p, 20, 1) = ByteAt(p, 20 + 0) /\ 20 + 0 = 20
    BY LoadIs
<1> QED BY <1>1, <1>2

LEMMA LoadInner ==
    ASSUME NEW p \in FrameFields, p.eth = IPV6, p.proto = FRAGMENT_EXT_HEADER
    PROVE  Load(p, 54, 1) = p.inner
<1>0. p.ihl \in Nat /\ p.ihl >= 5
    BY FieldTypes
<1>1. ByteAt(p, 54) = p.inner
    BY <1>0, SMT DEF ByteAt, IPV6, FRAGMENT_EXT_HEADER
<1>2. Load(p, 54, 1) = ByteAt(p, 54 + 0) /\ 54 + 0 = 54
    BY LoadIs
<1> QED BY <1>1, <1>2

LEMMA LoadSport6 ==
    ASSUME NEW p \in FrameFields, p.eth = IPV6, p.proto # FRAGMENT_EXT_HEADER
    PROVE  Load(p, 54, 2) = p.sport
<1>0. p.ihl \in Nat /\ p.ihl >= 5
    BY FieldTypes
<1>1. ByteAt(p, 54) = ByteOf(p.sport, 1)
  <2>1. ByteAt(p, 54) = PortByte(p, 54 - 54) /\ 54 - 54 = 0
      BY <1>0, SMT DEF ByteAt, IPV6, FRAGMENT_EXT_HEADER
  <2>2. PortByte(p, 0) = ByteOf(p.sport, 1)
      BY SMT DEF PortByte
  <2> QED BY <2>1, <2>2
<1>2. ByteAt(p, 55) = ByteOf(p.sport, 0)
  <2>1. ByteAt(p, 55) = PortByte(p, 55 - 54) /\ 55 - 54 = 1
      BY <1>0, SMT DEF ByteAt, IPV6, FRAGMENT_EXT_HEADER
  <2>2. PortByte(p, 1) = ByteOf(p.sport, 0)
      BY SMT DEF PortByte
  <2> QED BY <2>1, <2>2
<1>3. Load(p, 54, 2) = 256 * ByteAt(p, 54 + 0) + ByteAt(p, 54 + 1)
    BY LoadIs
<1>4. 54 + 0 = 54 /\ 54 + 1 = 55
    OBVIOUS
<1> QED BY <1>1, <1>2, <1>3, <1>4, FieldTypes, HalfBytes

LEMMA LoadDport6 ==
    ASSUME NEW p \in FrameFields, p.eth = IPV6, p.proto # FRAGMENT_EXT_HEADER
    PROVE  Load(p, 56, 2) = p.dport
<1>0. p.ihl \in Nat /\ p.ihl >= 5
    BY FieldTypes
<1>1. ByteAt(p, 56) = ByteOf(p.dport, 1)
  <2>1. ByteAt(p, 56) = PortByte(p, 56 - 54) /\ 56 - 54 = 2
      BY <1>0, SMT DEF ByteAt, IPV6, FRAGMENT_EXT_HEADER
  <2>2. PortByte(p, 2) = ByteOf(p.dport, 1)
      BY SMT DEF PortByte
  <2> QED BY <2>1, <2>2
<1>2. ByteAt(p, 57) = ByteOf(p.dport, 0)
  <2>1. ByteAt(p, 57) = PortByte(p, 57 - 54) /\ 57 - 54 = 3
      BY <1>0, SMT DEF ByteAt, IPV6, FRAGMENT_EXT_HEADER
  <2>2. PortByte(p, 3) = ByteOf(p.dport, 0)
      BY SMT DEF PortByte
  <2> QED BY <2>1, <2>2
<1>3. Load(p, 56, 2) = 256 * ByteAt(p, 56 + 0) + ByteAt(p, 56 + 1)
    BY LoadIs
<1>4. 56 + 0 = 56 /\ 56 + 1 = 57
    OBVIOUS
<1> QED BY <1>1, <1>2, <1>3, <1>4, FieldTypes, HalfBytes

-----------------------------------------------------------------------------
(* What is to be shown of a stretch of code: a claim says for a place what *)
(* the program will answer from there (v) and whether it relies on X being *)
(* the header length (x).                                                  *)
Claims == [v : {0, 1}, x : {0, 1}]

(* A claim that holds when control goes on to a place with claim d.        *)
Leads(c, d) == c.v = d.v /\ (d.x = 1 => c.x = 1)

(* What a load gives once X is set, where it looks, and where a jump goes. *)
Shift(i, p) == IF i.code = "ldhx" THEN HeaderBytes(p) ELSE 0
Value(i, p) == Load(p, i.k + Shift(i, p), SizeOf(i.code))
Fits(i) == IF i.code = "ldhx" THEN i.k <= 16 ELSE i.k + SizeOf(i.code) <= 58
Target(i, a) == IF Taken(i, a) THEN i.jt ELSE i.jf

(* val gives the claims of the labels 1..n; c and d are the claims in      *)
(* front of and behind the item at i.                                      *)
FlowAt(b, i, c, d, val, n, p) ==
    /\ b[i].code = "label" => b[i].jt \in 1..n /\ c = val[b[i].jt] /\ d = c
    /\ b[i].code \in AccLoads =>
           Leads(c, d) /\ Fits(b[i]) /\ (b[i].code = "ldhx" => c.x = 1)
    /\ b[i].code = "ldxmsh" => c.v = d.v /\ b[i].k = 14
    /\ b[i].code \in Jumps =>
           /\ i > 1 /\ b[i - 1].code \in AccLoads
           /\ b[i].jt \in 1..n /\ b[i].jf \in 1..n
           /\ Leads(c, val[Target(b[i], Value(b[i - 1], p))])
    /\ b[i].code = "ret" => (c.v = 1 <=> b[i].k > 0)

Claimed(b, cl, val, n, p) ==
    /\ cl \in [1..(Len(b) + 1) -> Claims]
    /\ \A i \in 1..Len(b) : FlowAt(b, i, cl[i], cl[i + 1], val, n, p)

(* The code b leads from a place with claim c to one with claim d.         *)
Flow(b, c, d, val, n, p) ==
    b \in Seq(Items) /\ \E cl : Claimed(b, cl, val, n, p) /\ cl[1] = c /\ cl[Len(b) + 1] = d

LEMMA FlowEmpty ==
    ASSUME NEW val, NEW n, NEW p, NEW c \in Claims
    PROVE  Flow(<<>>, c, c, val, n, p)
<1> DEFINE cl == [i \in 1..1 |-> c]
<1>1. <<>> \in Seq(Items) /\ Len(<<>>) = 0
    OBVIOUS
<1>2. Claimed(<<>>, cl, val, n, p) /\ cl[1] = c /\ cl[0 + 1] = c
    BY DEF Claimed
<1> QED BY <1>1, <1>2 DEF Flow

LEMMA FlowSame ==
    ASSUME NEW a, NEW b, NEW i \in Nat, NEW j \in Nat, a[i] = b[j],
           i > 1 => j > 1 /\ a[i - 1] = b[j - 1],
           NEW c, NEW d, NEW val, NEW n, NEW p, FlowAt(a, i, c, d, val, n, p)
    PROVE  FlowAt(b, j, c, d, val, n, p)
    BY DEF FlowAt

LEMMA FlowConcat ==
    ASSUME NEW a, NEW b, NEW c, NEW d, NEW e, NEW val, NEW n, NEW p,
           Flow(a, c, d, val, n, p), Flow(b, d, e, val, n, p)
    PROVE  Flow(a \o b, c, e, val, n, p)
<1>1. a \in Seq(Items) /\ b \in Seq(Items)
    BY DEF Flow
<1>2. PICK f : Claimed(a, f, val, n, p) /\ f[1] = c /\ f[Len(a) + 1] = d
    BY DEF Flow
<1>3. PICK g : Claimed(b, g, val, n, p) /\ g[1] = d /\ g[Len(b) + 1] = e
    BY DEF Flow
<1> DEFINE s == a \o b
           la == Len(a)
           lb == Len(b)
           h == [i \in 1..(la + lb + 1) |-> IF i <= la THEN f[i] ELSE g[i - la]]
<1>4. /\ s \in Seq(Items) /\ Len(s) = la + lb /\ la \in Nat /\ lb \in Nat
      /\ \A i \in 1..la : s[i] = a[i]
      /\ \A i \in 1..lb : s[la + i] = b[i]
    BY <1>1
<1>5. /\ f \in [1..(la + 1) -> Claims] /\ g \in [1..(lb + 1) -> Claims]
      /\ \A i \in 1..la : FlowAt(a, i, f[i], f[i + 1], val, n, p)
      /\ \A i \in 1..lb : FlowAt(b, i, g[i], g[i + 1], val, n, p)
      /\ f[1] = c /\ f[la + 1] = d /\ g[1] = d /\ g[lb + 1] = e
    BY <1>2, <1>3 DEF Claimed
<1> HIDE DEF s, la, lb
<1>6. h \in [1..(la + lb + 1) -> Claims]
  <2>1. ASSUME NEW i \in 1..(la + lb + 1) PROVE h[i] \in Claims
    <3>1. CASE i <= la
      <4>1. i \in 1..(la + 1) /\ h[i] = f[i]
          BY <1>4, <3>1
      <4> QED BY <1>5, <4>1
    <3>2. CASE i > la
      <4>1. i - la \in 1..(lb + 1) /\ h[i] = g[i - la]
          BY <1>4, <3>2
      <4> QED BY <1>5, <4>1
    <3> QED BY <1>4, <3>1, <3>2
  <2>2. h = [i \in 1..(la + lb + 1) |-> h[i]]
      OBVIOUS
  <2> HIDE DEF h
  <2> QED BY <2>1, <2>2
<1>7. ASSUME NEW i \in 1..la PROVE h[i] = f[i] /\ h[i + 1] = f[i + 1]
  <2>1. i \in 1..(la + lb + 1) /\ i + 1 \in 1..(la + lb + 1) /\ i <= la /\ i \in Nat
      BY <1>4
  <2>2. CASE i + 1 <= la
      BY <2>1, <2>2
  <2>3. CASE i = la
    <3>1. (i + 1) - la = 1 /\ ~(i + 1 <= la) /\ i + 1 = la + 1
        BY <2>1, <2>3, <1>4
    <3>2. h[i + 1] = g[1]
        BY <2>1, <3>1
    <3> QED BY <1>5, <2>1, <3>1, <3>2
  <2> QED BY <1>4, <2>1, <2>2, <2>3
<1>8. ASSUME NEW i \in 1..(lb + 1) PROVE h[la + i] = g[i]
  <2>1. la + i \in 1..(la + lb + 1) /\ ~(la + i <= la) /\ (la + i) - la = i
      BY <1>4
  <2> QED BY <2>1
<1>9. h[1] = c /\ h[la + lb + 1] = e
  <2>1. CASE la = 0
    <3>1. 1 \in 1..(lb + 1) /\ la + 1 = 1
        BY <1>4, <2>1
    <3>2. h[1] = g[1] /\ c = d
        BY <1>5, <1>8, <2>1, <3>1
    <3>3. lb + 1 \in 1..(lb + 1) /\ la + (lb + 1) = la + lb + 1
        BY <1>4
    <3> HIDE DEF h
    <3> QED BY <1>5, <1>8, <3>2, <3>3
  <2>2. CASE la # 0
    <3>1. 1 \in 1..la /\ lb + 1 \in 1..(lb + 1) /\ la + (lb + 1) = la + lb + 1
        BY <1>4, <2>2
    <3> HIDE DEF h
    <3> QED BY <1>5, <1>7, <1>8, <3>1
  <2> QED BY <2>1, <2>2
<1> HIDE DEF h
<1>10. ASSUME NEW i \in 1..(la + lb) PROVE FlowAt(s, i, h[i], h[i + 1], val, n, p)
  <2>1. CASE i <= la
    <3>1. i \in 1..la /\ i \in Nat /\ (i > 1 => i - 1 \in 1..la)
        BY <1>4, <2>1
    <3>2. a[i] = s[i] /\ (i > 1 => i > 1 /\ a[i - 1] = s[i - 1])
        BY <1>4, <3>1
    <3>3. FlowAt(a, i, h[i], h[i + 1], val, n, p)
        BY <1>5, <1>7, <3>1
    <3> QED BY <3>1, <3>2, <3>3, FlowSame
  <2>2. CASE i > la
    <3> DEFINE j == i - la
    <3>1. j \in 1..lb /\ j \in Nat /\ la + j = i /\ i \in Nat /\ (j > 1 => j - 1 \in 1..lb)
          /\ j \in 1..(lb + 1) /\ j + 1 \in 1..(lb + 1) /\ la + (j + 1) = i + 1
          /\ la + (j - 1) = i - 1 /\ (j > 1 => i > 1)
        BY <1>4, <2>2
    <3> HIDE DEF j
    <3>2. b[j] = s[i] /\ (j > 1 => i > 1 /\ b[j - 1] = s[i - 1])
        BY <1>4, <3>1
    <3>3. h[i] = g[j] /\ h[i + 1] = g[j + 1]
        BY <1>8, <3>1
    <3>4. FlowAt(b, j, h[i], h[i + 1], val, n, p)
        BY <1>5, <3>1, <3>3
    <3>5. i \in Nat /\ j \in Nat
        BY <3>1
    <3> QED BY <3>2, <3>4, <3>5, FlowSame
  <2> QED BY <1>4, <2>1, <2>2
<1>11. Claimed(s, h, val, n, p)
    BY <1>4, <1>6, <1>10 DEF Claimed
<1>12. Flow(s, c, e, val, n, p)
    BY <1>4, <1>9, <1>11 DEF Flow
<1> QED BY <1>12 DEF s

(* More labels do not change what has been shown.                          *)
LEMMA FlowMoreLabels ==
    ASSUME NEW b, NEW c, NEW d, NEW val, NEW n \in Nat, NEW p, Flow(b, c, d, val, n, p),
           NEW wal, NEW m \in Nat, m >= n, \A l \in 1..n : wal[l] = val[l]
    PROVE  Flow(b, c, d, wal, m, p)
<1>1. PICK cl : Claimed(b, cl, val, n, p) /\ cl[1] = c /\ cl[Len(b) + 1] = d
    BY DEF Flow
<1>2. ASSUME NEW i \in 1..Len(b) PROVE FlowAt(b, i, cl[i], cl[i + 1], wal, m, p)
  <2>1. FlowAt(b, i, cl[i], cl[i + 1], val, n, p)
      BY <1>1 DEF Claimed
  <2>2. \A l \in 1..n : l \in 1..m
      OBVIOUS
  <2>3. b[i].jt \in 1..n /\ b[i].jf \in 1..n =>
            Target(b[i], Value(b[i - 1], p)) \in 1..n
      BY DEF Target
  <2> QED BY <2>1, <2>2, <2>3 DEF FlowAt
<1> QED BY <1>1, <1>2 DEF Flow, Claimed


LEMMA FlowLabel ==
    ASSUME NEW val, NEW n \in Nat, NEW p, NEW l \in 1..n, val[l] \in Claims
    PROVE  Flow(<<Label(l)>>, val[l], val[l], val, n, p)
<1> DEFINE q == Label(l)  c == val[l]  cl == [i \in 1..2 |-> c]
<1>1. q \in Items /\ q.code = "label" /\ q.jt = l
    BY LabelFacts
<1>2. "label" \notin AccLoads /\ "label" \notin Jumps
    BY DEF AccLoads, Jumps
<1>3. <<q>> \in Seq(Items) /\ Len(<<q>>) = 1 /\ <<q>>[1] = q
    BY <1>1
<1>4. c \in Claims
    OBVIOUS
<1>5. c = val[q.jt] /\ q.jt \in 1..n
    BY <1>1
<1> HIDE DEF q, c
<1>6. FlowAt(<<q>>, 1, c, c, val, n, p)
    BY <1>1, <1>2, <1>3, <1>5 DEF FlowAt
<1>7. cl \in [1..(1 + 1) -> Claims] /\ cl[1] = c /\ cl[1 + 1] = c
    BY <1>4
<1> HIDE DEF cl
<1>8. Claimed(<<q>>, cl, val, n, p)
    BY <1>3, <1>6, <1>7 DEF Claimed
<1>9. Flow(<<q>>, c, c, val, n, p)
    BY <1>3, <1>7, <1>8 DEF Flow
<1> QED BY <1>9 DEF q, c

(* A single instruction that is no jump.                                   *)
LEMMA FlowOne ==
    ASSUME NEW val, NEW n \in Nat, NEW p, NEW c \in Claims, NEW d \in Claims,
           NEW code \in {"ldxmsh", "ret"}, NEW k \in Nat,
           code = "ldxmsh" => c.v = d.v /\ k = 14,
           code = "ret" => (c.v = 1 <=> k > 0)
    PROVE  Flow(<<PInsn(code, k)>>, c, d, val, n, p)
<1> DEFINE q == PInsn(code, k)  cl == [i \in 1..2 |-> IF i = 1 THEN c ELSE d]
<1>1. q \in Items /\ q.code = code /\ q.k = k
    BY InsnFacts DEF Codes, PInsn
<1>2. code \notin AccLoads /\ code \notin Jumps /\ code # "label"
    BY DEF AccLoads, Jumps
<1>3. <<q>> \in Seq(Items) /\ Len(<<q>>) = 1 /\ <<q>>[1] = q
    BY <1>1
<1> HIDE DEF q
<1>6. FlowAt(<<q>>, 1, c, d, val, n, p)
    BY <1>1, <1>2, <1>3 DEF FlowAt
<1>7. cl \in [1..(1 + 1) -> Claims] /\ cl[1] = c /\ cl[1 + 1] = d
    OBVIOUS
<1> HIDE DEF cl
<1>8. Claimed(<<q>>, cl, val, n, p)
    BY <1>3, <1>6, <1>7 DEF Claimed
<1>9. Flow(<<q>>, c, d, val, n, p)
    BY <1>3, <1>7, <1>8 DEF Flow
<1> QED BY <1>9 DEF q

(* A load and the jump that looks at it; what follows may claim anything.  *)
LEMMA FlowPair ==
    ASSUME NEW val, NEW n \in Nat, NEW p, NEW c \in Claims, NEW d \in Claims,
           NEW code \in AccLoads, NEW o \in Nat, NEW jump \in Jumps, NEW k \in Nat,
           NEW t \in 1..n, NEW f \in 1..n,
           Fits(PInsn(code, o)), code = "ldhx" => c.x = 1,
           Taken(Jump(jump, k, t, f), Value(PInsn(code, o), p)) => Leads(c, val[t]),
           ~Taken(Jump(jump, k, t, f), Value(PInsn(code, o), p)) => Leads(c, val[f])
    PROVE  Flow(<<PInsn(code, o), Jump(jump, k, t, f)>>, c, d, val, n, p)
<1> DEFINE q == PInsn(code, o)  j == Jump(jump, k, t, f)  s == <<q, j>>
           cl == [i \in 1..3 |-> IF i <= 2 THEN c ELSE d]
<1>1. /\ q \in Items /\ q.code = code /\ j \in Items /\ j.code = jump /\ j.jt = t /\ j.jf = f
  <2>1. code \in Codes /\ jump \in Codes
      BY DEF Codes, AccLoads, Jumps
  <2>2. t \in Nat /\ f \in Nat
      OBVIOUS
  <2> QED BY <2>1, <2>2, InsnFacts
<1>2. /\ code \notin Jumps /\ code \notin {"label", "ldxmsh", "ret"}
      /\ jump \notin AccLoads /\ jump \notin {"label", "ldxmsh", "ret"}
    BY DEF AccLoads, Jumps
<1>3. Leads(c, val[Target(j, Value(q, p))])
    BY <1>1 DEF Target
<1>4. Fits(q)
    OBVIOUS
<1> HIDE DEF q, j
<1>5. s \in Seq(Items) /\ Len(s) = 2 /\ s[1] = q /\ s[2] = j /\ 2 - 1 = 1
    BY <1>1
<1> HIDE DEF s
<1>6. FlowAt(s, 1, c, c, val, n, p)
    BY <1>1, <1>2, <1>4, <1>5 DEF FlowAt, Leads
<1>7. FlowAt(s, 2, c, d, val, n, p)
    BY <1>1, <1>2, <1>3, <1>5 DEF FlowAt
<1>8. cl \in [1..3 -> Claims] /\ cl[1] = c /\ cl[2] = c /\ cl[3] = d
    OBVIOUS
<1> HIDE DEF cl
<1>9. Claimed(s, cl, val, n, p)
  <2>1. \A i \in 1..2 : i = 1 \/ i = 2
      OBVIOUS
  <2>2. 2 + 1 = 3 /\ 1 + 1 = 2
      OBVIOUS
  <2> QED BY <1>5, <1>6, <1>7, <1>8, <2>1, <2>2 DEF Claimed
<1>10. Flow(s, c, d, val, n, p)
    BY <1>5, <1>8, <1>9 DEF Flow
<1> QED BY <1>10 DEF s, q, j

LEMMA FlowTest ==
    ASSUME NEW val, NEW n \in Nat, NEW p, NEW c \in Claims, NEW d \in Claims,
           NEW code \in AccLoads, NEW o \in Nat, NEW k \in Nat,
           NEW t \in 1..n, NEW f \in 1..n,
           Fits(PInsn(code, o)), code = "ldhx" => c.x = 1,
           Value(PInsn(code, o), p) = k => Leads(c, val[t]),
           Value(PInsn(code, o), p) # k => Leads(c, val[f])
    PROVE  Flow(TestAt(code, o, k, t, f), c, d, val, n, p)
<1> DEFINE v == Value(PInsn(code, o), p)
<1>1. Taken(Jump("jeq", k, t, f), v) <=> v = k
    BY DEF Taken, Jump
<1>2. "jeq" \in Jumps
    BY DEF Jumps
<1>3. /\ Taken(Jump("jeq", k, t, f), v) => Leads(c, val[t])
      /\ ~Taken(Jump("jeq", k, t, f), v) => Leads(c, val[f])
    BY <1>1
<1>4. Flow(<<PInsn(code, o), Jump("jeq", k, t, f)>>, c, d, val, n, p)
    BY <1>2, <1>3, FlowPair
<1> QED BY <1>4 DEF TestAt


-----------------------------------------------------------------------------
(* The labels a piece of code goes on to when it is done: their claims     *)
(* do not rely on X.                                                       *)
Exits(t, f, val, n) == /\ t \in 1..n /\ f \in 1..n /\ val[t] \in Claims /\ val[f] \in Claims
                       /\ val[t].x = 0 /\ val[f].x = 0

(* c answers as t when b holds, else as f.                                 *)
Decides(c, x, b, t, f) == /\ c \in Claims /\ c.x = x
                          /\ b => c.v = t.v
                          /\ ~b => c.v = f.v

LEMMA PlainFits ==
    ASSUME NEW code \in {"ldh", "ldb", "ldw"}, NEW o \in Nat, o + 4 <= 58
    PROVE  Fits(PInsn(code, o))
<1> DEFINE q == PInsn(code, o)
<1>1. q.code = code /\ q.k = o
    BY DEF PInsn
<1> HIDE DEF q
<1>2. SizeOf(code) \in {1, 2, 4}
  <2>1. CASE code = "ldh"
      BY <2>1 DEF SizeOf
  <2>2. CASE code = "ldb"
      BY <2>2 DEF SizeOf
  <2>3. CASE code = "ldw"
      BY <2>3 DEF SizeOf
  <2> QED BY <2>1, <2>2, <2>3
<1>3. Fits(q)
    BY <1>1, <1>2 DEF Fits
<1> QED BY <1>3 DEF q

LEMMA IndexFits == Fits(PInsn("ldhx", 14)) /\ Fits(PInsn("ldhx", 16))
    BY DEF Fits, PInsn

(* A test at a fixed place whose two outcomes answer as c.                 *)
LEMMA FlowDecide ==
    ASSUME NEW val, NEW n \in Nat, NEW p, NEW c \in Claims, NEW d \in Claims,
           NEW code \in {"ldh", "ldb", "ldw"}, NEW o \in Nat, NEW k \in Nat,
           o + 4 <= 58, NEW t, NEW f, Exits(t, f, val, n),
           Value(PInsn(code, o), p) = k => c.v = val[t].v,
           Value(PInsn(code, o), p) # k => c.v = val[f].v
    PROVE  Flow(TestAt(code, o, k, t, f), c, d, val, n, p)
<1>1. code \in AccLoads /\ code # "ldhx"
    BY DEF AccLoads
<1>2. Fits(PInsn(code, o))
    BY PlainFits
<1>3. t \in 1..n /\ f \in 1..n
    BY DEF Exits
<1>4. /\ Value(PInsn(code, o), p) = k => Leads(c, val[t])
      /\ Value(PInsn(code, o), p) # k => Leads(c, val[f])
    BY DEF Leads, Exits
<1> QED BY <1>1, <1>2, <1>3, <1>4, FlowTest

(* One or both of two fields; label m + 1 is used when both are.           *)
LEMMA FlowCompare ==
    ASSUME NEW val, NEW n \in Nat, NEW m \in Nat, NEW p, NEW c, NEW d \in Claims,
           NEW code \in {"ldh", "ldw", "ldhx"}, NEW x \in {0, 1}, code = "ldhx" => x = 1,
           NEW src \in Nat, NEW dst \in Nat,
           Fits(PInsn(code, src)), Fits(PInsn(code, dst)),
           NEW dir \in Dirs, NEW k \in Nat, NEW t, NEW f, Exits(t, f, val, n),
           n >= m + 1,
           Decides(val[m + 1], x, Value(PInsn(code, dst), p) = k, val[t], val[f]),
           Decides(c, x, EitherIs(Value(PInsn(code, src), p), Value(PInsn(code, dst), p),
                                  dir, k), val[t], val[f])
    PROVE  Flow(CompareFields(code, src, dst, dir, k, t, f, m), c, d, val, n, p)
<1> DEFINE vs == Value(PInsn(code, src), p)  vd == Value(PInsn(code, dst), p)
           h == val[m + 1]
<1>1. code \in AccLoads
    BY DEF AccLoads
<1>2. t \in 1..n /\ f \in 1..n /\ val[t].x = 0 /\ val[f].x = 0 /\ m + 1 \in 1..n
    BY DEF Exits
<1>3. /\ c \in Claims /\ h \in Claims /\ c.x = x /\ h.x = x
      /\ code = "ldhx" => c.x = 1 /\ h.x = 1
    BY DEF Decides
<1>4. (vd = k => Leads(h, val[t])) /\ (vd # k => Leads(h, val[f]))
    BY <1>2 DEF Decides, Leads
<1>5. CASE dir = "src"
  <2>1. (vs = k => Leads(c, val[t])) /\ (vs # k => Leads(c, val[f]))
      BY <1>2, <1>5 DEF Decides, Leads, EitherIs
  <2>2. Flow(TestAt(code, src, k, t, f), c, d, val, n, p)
      BY <1>1, <1>2, <1>3, <2>1, FlowTest
  <2>3. CompareFields(code, src, dst, dir, k, t, f, m) = TestAt(code, src, k, t, f)
      BY <1>5 DEF CompareFields
  <2> QED BY <2>2, <2>3
<1>6. CASE dir = "dst"
  <2>1. (vd = k => Leads(c, val[t])) /\ (vd # k => Leads(c, val[f]))
      BY <1>2, <1>6 DEF Decides, Leads, EitherIs
  <2>2. Flow(TestAt(code, dst, k, t, f), c, d, val, n, p)
      BY <1>1, <1>2, <1>3, <2>1, FlowTest
  <2>3. CompareFields(code, src, dst, dir, k, t, f, m) = TestAt(code, dst, k, t, f)
      BY <1>6 DEF CompareFields
  <2> QED BY <2>2, <2>3
<1>7. CASE dir = "any"
  <2>1. (vs = k => Leads(c, val[t])) /\ (vs # k => Leads(c, h))
      BY <1>2, <1>7 DEF Decides, Leads, EitherIs
  <2>2. Flow(TestAt(code, src, k, t, m + 1), c, h, val, n, p)
      BY <1>1, <1>2, <1>3, <2>1, FlowTest
  <2>3. Flow(<<Label(m + 1)>>, h, h, val, n, p)
      BY <1>2, <1>3, FlowLabel
  <2>4. Flow(TestAt(code, dst, k, t, f), h, d, val, n, p)
      BY <1>1, <1>2, <1>3, <1>4, FlowTest
  <2> HIDE DEF h
  <2>5. Flow(TestAt(code, src, k, t, m + 1) \o <<Label(m + 1)>>
               \o TestAt(code, dst, k, t, f), c, d, val, n, p)
      BY <2>2, <2>3, <2>4, FlowConcat
  <2>6. CompareFields(code, src, dst, dir, k, t, f, m)
           = TestAt(code, src, k, t, m + 1) \o <<Label(m + 1)>> \o TestAt(code, dst, k, t, f)
      BY <1>7 DEF CompareFields
  <2> QED BY <2>5, <2>6
<1> QED BY <1>5, <1>6, <1>7 DEF Dirs

(* A test, and the code at the label its true outcome goes on to.          *)
LEMMA FlowThen ==
    ASSUME NEW val, NEW n \in Nat, NEW p, NEW a, NEW b, NEW c, NEW d, NEW e,
           NEW l \in 1..n, val[l] \in Claims,
           Flow(a, c, d, val, n, p), d = val[l], Flow(b, d, e, val, n, p)
    PROVE  Flow(a \o <<Label(l)>> \o b, c, e, val, n, p)
<1>1. Flow(<<Label(l)>>, d, d, val, n, p)
    BY FlowLabel
<1> QED BY <1>1, FlowConcat


(* What the loads of the code generator give.                              *)
LEMMA ValueIs ==
    ASSUME NEW p \in FrameFields, NEW o \in Nat
    PROVE  /\ Value(PInsn("ldb", o), p) = Load(p, o, 1)
           /\ Value(PInsn("ldh", o), p) = Load(p, o, 2)
           /\ Value(PInsn("ldw", o), p) = Load(p, o, 4)
           /\ Value(PInsn("ldhx", o), p) = Load(p, o + HeaderBytes(p), 2)
<1>1. SizeOf("ldb") = 1
    BY DEF SizeOf
<1>2. SizeOf("ldh") = 2
    BY DEF SizeOf
<1>3. SizeOf("ldw") = 4
    BY DEF SizeOf
<1>4. SizeOf("ldhx") = 2
    BY DEF SizeOf
<1>5. \A code : PInsn(code, o).code = code /\ PInsn(code, o).k = o
    BY DEF PInsn
<1>6. o + 0 = o
    OBVIOUS
<1>7. \A code : code # "ldhx" => Shift(PInsn(code, o), p) = 0
    BY <1>5 DEF Shift
<1>8. Shift(PInsn("ldhx", o), p) = HeaderBytes(p)
    BY <1>5 DEF Shift
<1> QED BY <1>1, <1>2, <1>3, <1>4, <1>5, <1>6, <1>7, <1>8 DEF Value

LEMMA FieldValues ==
    ASSUME NEW p \in FrameFields
    PROVE  /\ Value(PInsn("ldh", 12), p) = p.eth
           /\ p.eth # IPV6 =>
                 /\ Value(PInsn("ldb", 23), p) = p.proto
                 /\ Value(PInsn("ldh", 20), p) = p.frag
                 /\ Value(PInsn("ldw", 26), p) = p.src
                 /\ Value(PInsn("ldw", 30), p) = p.dst
                 /\ Value(PInsn("ldhx", 14), p) = p.sport
                 /\ Value(PInsn("ldhx", 16), p) = p.dport
           /\ p.eth = IPV6 =>
                 /\ Value(PInsn("ldb", 20), p) = p.proto
                 /\ p.proto = FRAGMENT_EXT_HEADER => Value(PInsn("ldb", 54), p) = p.inner
                 /\ p.proto # FRAGMENT_EXT_HEADER =>
                       /\ Value(PInsn("ldh", 54), p) = p.sport
                       /\ Value(PInsn("ldh", 56), p) = p.dport
<1>1. Value(PInsn("ldh", 12), p) = p.eth
    BY ValueIs, LoadEth
<1>2. ASSUME p.eth # IPV6
      PROVE  /\ Value(PInsn("ldb", 23), p) = p.proto
             /\ Value(PInsn("ldh", 20), p) = p.frag
             /\ Value(PInsn("ldw", 26), p) = p.src
             /\ Value(PInsn("ldw", 30), p) = p.dst
             /\ Value(PInsn("ldhx", 14), p) = p.sport
             /\ Value(PInsn("ldhx", 16), p) = p.dport
    BY <1>2, ValueIs, LoadProtocol, LoadFrag, LoadSrc, LoadDst, LoadSport, LoadDport
<1>3. ASSUME p.eth = IPV6
      PROVE  /\ Value(PInsn("ldb", 20), p) = p.proto
             /\ p.proto = FRAGMENT_EXT_HEADER => Value(PInsn("ldb", 54), p) = p.inner
             /\ p.proto # FRAGMENT_EXT_HEADER =>
                   /\ Value(PInsn("ldh", 54), p) = p.sport
                   /\ Value(PInsn("ldh", 56), p) = p.dport
    BY <1>3, ValueIs, LoadNext, LoadInner, LoadSport6, LoadDport6
<1> QED BY <1>1, <1>2, <1>3

(* The fresh labels of a block can be given any claims.                    *)
LEMMA FreshLabels ==
    ASSUME NEW n \in Nat, NEW val \in [1..n -> Claims], NEW w \in [1..9 -> Claims]
    PROVE  \E wal \in [1..(n + 9) -> Claims] :
               /\ \A l \in 1..n : wal[l] = val[l]
               /\ \A i \in 1..9 : wal[n + i] = w[i]
<1> DEFINE wal == [l \in 1..(n + 9) |-> IF l <= n THEN val[l] ELSE w[l - n]]
<1>3. wal \in [1..(n + 9) -> Claims]
    OBVIOUS
<1>4. \A l \in 1..n : wal[l] = val[l]
    OBVIOUS
<1>5. ASSUME NEW i \in 1..9 PROVE wal[n + i] = w[i]
  <2>1. n + i \in 1..(n + 9) /\ ~(n + i <= n) /\ (n + i) - n = i
      OBVIOUS
  <2> QED BY <2>1
<1> HIDE DEF wal
<1> QED BY <1>3, <1>4, <1>5

LEMMA NineClaims ==
    ASSUME NEW S, NEW w \in Seq(S), Len(w) = 9
    PROVE  w \in [1..9 -> S]
<1>1. DOMAIN w = 1..9 /\ \A i \in 1..9 : w[i] \in S
    OBVIOUS
<1>2. w = [i \in DOMAIN w |-> w[i]]
    OBVIOUS
<1> QED BY <1>1, <1>2

LEMMA FlowTcpOrUdp ==
    ASSUME NEW val, NEW n \in Nat, NEW m \in Nat, n >= m + 5, NEW p, NEW c, NEW d \in Claims,
           NEW k \in Nat, NEW t, NEW f, Exits(t, f, val, n),
           NEW v12, v12 = Value(PInsn("ldh", 12), p),
           NEW v20, v20 = Value(PInsn("ldb", 20), p),
           NEW v23, v23 = Value(PInsn("ldb", 23), p),
           NEW v54, v54 = Value(PInsn("ldb", 54), p),
           Decides(val[m + 1], 0, v20 = k \/ (v20 = FRAGMENT_EXT_HEADER /\ v54 = k),
                   val[t], val[f]),
           Decides(val[m + 2], 0, v12 = IPV4 /\ v23 = k, val[t], val[f]),
           Decides(val[m + 3], 0, v20 = FRAGMENT_EXT_HEADER /\ v54 = k, val[t], val[f]),
           Decides(val[m + 4], 0, v54 = k, val[t], val[f]),
           Decides(val[m + 5], 0, v23 = k, val[t], val[f]),
           Decides(c, 0, \/ v12 = IPV6 /\ (v20 = k \/ (v20 = FRAGMENT_EXT_HEADER /\ v54 = k))
                         \/ v12 # IPV6 /\ v12 = IPV4 /\ v23 = k, val[t], val[f])
    PROVE  Flow(CompileTcpOrUdp(k, t, f, m), c, d, val, n, p)
<1> DEFINE l1 == m + 1  l2 == m + 2  l3 == m + 3  l4 == m + 4  l5 == m + 5
<1>1. /\ l1 \in 1..n /\ l2 \in 1..n /\ l3 \in 1..n /\ l4 \in 1..n /\ l5 \in 1..n
    OBVIOUS
<1>2. /\ val[l1] \in Claims /\ val[l2] \in Claims /\ val[l3] \in Claims
      /\ val[l4] \in Claims /\ val[l5] \in Claims /\ c \in Claims
    BY DEF Decides
<1>3. /\ Exits(l1, l2, val, n) /\ Exits(t, l3, val, n) /\ Exits(l4, f, val, n)
      /\ Exits(l5, f, val, n)
    BY <1>1, <1>2 DEF Decides, Exits
<1>4. IPV4 \in Nat /\ IPV6 \in Nat /\ FRAGMENT_EXT_HEADER \in Nat
    BY DEF IPV4, IPV6, FRAGMENT_EXT_HEADER
<1>5. Flow(TestAt("ldh", 12, IPV6, l1, l2), c, val[l1], val, n, p)
  <2>1. (v12 = IPV6 => c.v = val[l1].v) /\ (v12 # IPV6 => c.v = val[l2].v)
      BY DEF Decides
  <2>2. 12 \in Nat /\ 12 + 4 <= 58 /\ "ldh" \in {"ldh", "ldb", "ldw"}
      OBVIOUS
  <2> HIDE DEF l1, l2
  <2> QED BY <1>2, <1>3, <1>4, <2>1, <2>2, FlowDecide
<1>6. Flow(TestAt("ldb", 20, k, t, l3), val[l1], val[l3], val, n, p)
  <2>1. (v20 = k => val[l1].v = val[t].v) /\ (v20 # k => val[l1].v = val[l3].v)
      BY DEF Decides
  <2>2. 20 \in Nat /\ 20 + 4 <= 58 /\ "ldb" \in {"ldh", "ldb", "ldw"}
      OBVIOUS
  <2> HIDE DEF l1, l3
  <2> QED BY <1>2, <1>3, <2>1, <2>2, FlowDecide
<1>7. Flow(TestAt("ldb", 20, FRAGMENT_EXT_HEADER, l4, f), val[l3], val[l4], val, n, p)
  <2>1. /\ v20 = FRAGMENT_EXT_HEADER => val[l3].v = val[l4].v
        /\ v20 # FRAGMENT_EXT_HEADER => val[l3].v = val[f].v
      BY DEF Decides
  <2>2. 20 \in Nat /\ 20 + 4 <= 58 /\ "ldb" \in {"ldh", "ldb", "ldw"}
      OBVIOUS
  <2> HIDE DEF l3, l4
  <2> QED BY <1>2, <1>3, <1>4, <2>1, <2>2, FlowDecide
<1>8. Flow(TestAt("ldb", 54, k, t, f), val[l4], val[l2], val, n, p)
  <2>1. (v54 = k => val[l4].v = val[t].v) /\ (v54 # k => val[l4].v = val[f].v)
      BY DEF Decides
  <2>2. 54 \in Nat /\ 54 + 4 <= 58 /\ "ldb" \in {"ldh", "ldb", "ldw"}
      OBVIOUS
  <2> HIDE DEF l4, l2
  <2> QED BY <1>2, <1>3, <2>1, <2>2, FlowDecide, ZenonT(60)
<1>9. Flow(TestAt("ldh", 12, IPV4, l5, f), val[l2], val[l5], val, n, p)
  <2>1. (v12 = IPV4 => val[l2].v = val[l5].v) /\ (v12 # IPV4 => val[l2].v = val[f].v)
      BY DEF Decides
  <2>2. 12 \in Nat /\ 12 + 4 <= 58 /\ "ldh" \in {"ldh", "ldb", "ldw"}
      OBVIOUS
  <2> HIDE DEF l5, l2
  <2> QED BY <1>2, <1>3, <1>4, <2>1, <2>2, FlowDecide
<1>10. Flow(TestAt("ldb", 23, k, t, f), val[l5], d, val, n, p)
  <2>1. (v23 = k => val[l5].v = val[t].v) /\ (v23 # k => val[l5].v = val[f].v)
      BY DEF Decides
  <2>2. 23 \in Nat /\ 23 + 4 <= 58 /\ "ldb" \in {"ldh", "ldb", "ldw"}
      OBVIOUS
  <2> HIDE DEF l5
  <2> QED BY <1>2, <1>3, <2>1, <2>2, FlowDecide
<1> HIDE DEF l1, l2, l3, l4, l5
<1> DEFINE b1 == TestAt("ldh", 12, IPV6, l1, l2)
           b2 == TestAt("ldb", 20, k, t, l3)
           b3 == TestAt("ldb", 20, FRAGMENT_EXT_HEADER, l4, f)
           b4 == TestAt("ldb", 54, k, t, f)
           b5 == TestAt("ldh", 12, IPV4, l5, f)
           b6 == TestAt("ldb", 23, k, t, f)
<1>11. CompileTcpOrUdp(k, t, f, m)
         = b1 \o <<Label(l1)>> \o b2 \o <<Label(l3)>> \o b3 \o <<Label(l4)>> \o b4
              \o <<Label(l2)>> \o b5 \o <<Label(l5)>> \o b6
    BY DEF CompileTcpOrUdp, l1, l2, l3, l4, l5
<1> HIDE DEF b1, b2, b3, b4, b5, b6
<1>12. Flow(b1 \o <<Label(l1)>> \o b2, c, val[l3], val, n, p)
    BY <1>1, <1>2, <1>5, <1>6, FlowThen DEF b1, b2
<1>13. Flow(b1 \o <<Label(l1)>> \o b2 \o <<Label(l3)>> \o b3, c, val[l4], val, n, p)
    BY <1>1, <1>2, <1>12, <1>7, FlowThen DEF b3
<1>14. Flow(b1 \o <<Label(l1)>> \o b2 \o <<Label(l3)>> \o b3 \o <<Label(l4)>> \o b4,
            c, val[l2], val, n, p)
    BY <1>1, <1>2, <1>13, <1>8, FlowThen DEF b4
<1>15. Flow(b1 \o <<Label(l1)>> \o b2 \o <<Label(l3)>> \o b3 \o <<Label(l4)>> \o b4
               \o <<Label(l2)>> \o b5, c, val[l5], val, n, p)
    BY <1>1, <1>2, <1>14, <1>9, FlowThen DEF b5
<1>16. Flow(b1 \o <<Label(l1)>> \o b2 \o <<Label(l3)>> \o b3 \o <<Label(l4)>> \o b4
               \o <<Label(l2)>> \o b5 \o <<Label(l5)>> \o b6, c, d, val, n, p)
    BY <1>1, <1>2, <1>15, <1>10, FlowThen DEF b6
<1> QED BY <1>11, <1>16


LEMMA FlowTransport ==
    ASSUME NEW val, NEW n \in Nat, NEW m \in Nat, n >= m + 2, NEW p, NEW c,
           NEW o \in {20, 23}, NEW f, Exits(m + 2, f, val, n),
           NEW v, v = Value(PInsn("ldb", o), p),
           Decides(val[m + 1], 0, v = UDP, val[m + 2], val[f]),
           Decides(c, 0, v \in {TCP, UDP}, val[m + 2], val[f])
    PROVE  Flow(TransportAt(o, f, m), c, val[m + 2], val, n, p)
<1> DEFINE l1 == m + 1  l2 == m + 2
<1>1. l1 \in 1..n /\ l2 \in 1..n
    OBVIOUS
<1>2. val[l1] \in Claims /\ val[l2] \in Claims /\ c \in Claims
    BY DEF Decides, Exits
<1>3. Exits(l2, l1, val, n) /\ Exits(l2, f, val, n)
    BY <1>1, <1>2 DEF Decides, Exits
<1>4. TCP \in Nat /\ UDP \in Nat
    BY DEF TCP, UDP
<1>5. o \in Nat /\ o + 4 <= 58 /\ "ldb" \in {"ldh", "ldb", "ldw"}
    OBVIOUS
<1>6. (v = TCP => c.v = val[l2].v) /\ (v # TCP => c.v = val[l1].v)
    BY DEF Decides
<1>7. (v = UDP => val[l1].v = val[l2].v) /\ (v # UDP => val[l1].v = val[f].v)
    BY DEF Decides
<1>8. TransportAt(o, f, m) = TestAt("ldb", o, TCP, l2, l1) \o <<Label(l1)>>
                               \o TestAt("ldb", o, UDP, l2, f) \o <<Label(l2)>>
    BY DEF TransportAt
<1> HIDE DEF l1, l2
<1>9. Flow(TestAt("ldb", o, TCP, l2, l1), c, val[l1], val, n, p)
    BY <1>2, <1>3, <1>4, <1>5, <1>6, FlowDecide
<1>10. Flow(TestAt("ldb", o, UDP, l2, f), val[l1], val[l2], val, n, p)
    BY <1>2, <1>3, <1>4, <1>5, <1>7, FlowDecide
<1>11. Flow(TestAt("ldb", o, TCP, l2, l1) \o <<Label(l1)>> \o TestAt("ldb", o, UDP, l2, f),
            c, val[l2], val, n, p)
    BY <1>1, <1>2, <1>9, <1>10, FlowThen
<1>12. Flow(<<Label(l2)>>, val[l2], val[l2], val, n, p)
    BY <1>1, <1>2, FlowLabel
<1>13. Flow(TransportAt(o, f, m), c, val[l2], val, n, p)
    BY <1>8, <1>11, <1>12, FlowConcat
<1> QED BY <1>13 DEF l2

(* The claims of the labels of _compile_port_v6, with c in front of it.    *)
ClaimsV6(val, m, c, dir, port, t, f, p) ==
    LET v == Value(PInsn("ldb", 20), p)
        vs == Value(PInsn("ldh", 54), p)
        vd == Value(PInsn("ldh", 56), p)
    IN  /\ Decides(val[m + 1], 0, v = UDP, val[m + 2], val[f])
        /\ Decides(val[m + 2], 0, EitherIs(vs, vd, dir, port), val[t], val[f])
        /\ Decides(val[m + 3], 0, vd = port, val[t], val[f])
        /\ Decides(c, 0, v \in {TCP, UDP}, val[m + 2], val[f])

LEMMA FlowPortV6 ==
    ASSUME NEW val, NEW n \in Nat, NEW m \in Nat, n >= m + 3, NEW p, NEW c, NEW d \in Claims,
           NEW port \in Nat, NEW dir \in Dirs, NEW t, NEW f, Exits(t, f, val, n),
           ClaimsV6(val, m, c, dir, port, t, f, p)
    PROVE  Flow(CompilePortV6(port, dir, t, f, m), c, d, val, n, p)
<1> DEFINE v == Value(PInsn("ldb", 20), p)
           vs == Value(PInsn("ldh", 54), p)
           vd == Value(PInsn("ldh", 56), p)
<1>0. /\ Decides(val[m + 1], 0, v = UDP, val[m + 2], val[f])
      /\ Decides(val[m + 2], 0, EitherIs(vs, vd, dir, port), val[t], val[f])
      /\ Decides(val[m + 3], 0, vd = port, val[t], val[f])
      /\ Decides(c, 0, v \in {TCP, UDP}, val[m + 2], val[f])
    BY DEF ClaimsV6
<1> HIDE DEF v, vs, vd
<1> USE <1>0
<1>1. Exits(m + 2, f, val, n)
    BY DEF Decides, Exits
<1>2. Flow(TransportAt(20, f, m), c, val[m + 2], val, n, p)
  <2>1. 20 \in {20, 23} /\ 23 \in {20, 23} /\ n >= m + 2
      OBVIOUS
  <2>2. v = Value(PInsn("ldb", 20), p)
      BY DEF v
  <2>3. /\ Decides(val[m + 1], 0, v = UDP, val[m + 2], val[f])
        /\ Decides(c, 0, v \in {TCP, UDP}, val[m + 2], val[f])
      OBVIOUS
  <2> QED BY <1>1, <2>1, <2>2, <2>3, FlowTransport
<1> DEFINE l == m + 2
<1>3. l \in Nat /\ n >= l + 1 /\ l + 1 = m + 3
    OBVIOUS
<1>4. Fits(PInsn("ldh", 54))
  <2>1. SizeOf("ldh") = 2
      BY DEF SizeOf
  <2> QED BY <2>1 DEF Fits, PInsn
<1>5. Fits(PInsn("ldh", 56))
  <2>1. SizeOf("ldh") = 2
      BY DEF SizeOf
  <2> QED BY <2>1 DEF Fits, PInsn
<1>6. Flow(CompareFields("ldh", 54, 56, dir, port, t, f, l), val[l], d, val, n, p)
  <2>1. Decides(val[l + 1], 0, Value(PInsn("ldh", 56), p) = port, val[t], val[f])
      BY <1>3 DEF Decides, vd
  <2>2. Decides(val[l], 0, EitherIs(Value(PInsn("ldh", 54), p), Value(PInsn("ldh", 56), p),
                                    dir, port), val[t], val[f])
      BY DEF Decides, vs, vd
  <2>3. /\ "ldh" \in {"ldh", "ldw", "ldhx"} /\ "ldh" # "ldhx" /\ 0 \in {0, 1}
        /\ 54 \in Nat /\ 56 \in Nat
      OBVIOUS
  <2> HIDE DEF l
  <2> QED BY <1>3, <1>4, <1>5, <2>1, <2>2, <2>3, FlowCompare
<1>7. CompilePortV6(port, dir, t, f, m)
        = TransportAt(20, f, m) \o CompareFields("ldh", 54, 56, dir, port, t, f, l)
    BY DEF CompilePortV6
<1> QED BY <1>2, <1>6, <1>7, FlowConcat

LEMMA ConcatLength ==
    ASSUME NEW S, NEW a \in Seq(S), NEW b \in Seq(S)
    PROVE  Len(a \o b) = Len(a) + Len(b)
    OBVIOUS

LEMMA AppendItem ==
    ASSUME NEW S, NEW a \in Seq(S), NEW t \in Seq(S), Len(t) = 1
    PROVE  /\ a \o t \in Seq(S) /\ Len(a \o t) = Len(a) + 1
           /\ \A i \in 1..Len(a) : (a \o t)[i] = a[i]
           /\ (a \o t)[Len(a) + 1] = t[1]
<1>1. Len(a \o t) = Len(a) + Len(t)
    BY ConcatLength
<1>2. DOMAIN a = 1..Len(a) /\ DOMAIN t = 1..1
    OBVIOUS
<1>3. 1 \in DOMAIN t
    BY <1>2
<1> QED BY <1>1, <1>2, <1>3, ConcatElements

LEMMA FourItems ==
    ASSUME NEW w, NEW x, NEW y, NEW z
    PROVE  <<w, x, y, z>> = <<w, x>> \o <<y>> \o <<z>>
<1> DEFINE S == {w, x, y, z}  a == <<w, x>> \o <<y>>  t == <<z>>  b == a \o t
           c == <<w, x, y, z>>
<1>0. w \in S /\ x \in S /\ y \in S /\ z \in S
    OBVIOUS
<1> HIDE DEF S
<1>1. /\ a \in Seq(S) /\ Len(a) = 3 /\ a[1] = w /\ a[2] = x /\ a[3] = y
    BY <1>0
<1>2. t \in Seq(S) /\ Len(t) = 1 /\ t[1] = z
    BY <1>0
<1>3. /\ c \in Seq(S) /\ Len(c) = 4 /\ c[1] = w /\ c[2] = x /\ c[3] = y /\ c[4] = z
    BY <1>0
<1> HIDE DEF a, t, c
<1>4. /\ b \in Seq(S) /\ Len(b) = Len(a) + 1 /\ b[Len(a) + 1] = t[1]
      /\ \A i \in 1..Len(a) : b[i] = a[i]
  <2>1. a \in Seq(S) /\ t \in Seq(S) /\ Len(t) = 1
      BY <1>1, <1>2
  <2> QED BY ONLY <2>1, AppendItem DEF b
<1> HIDE DEF b
<1>5. Len(a) + 1 = 4 /\ 1 \in 1..Len(a) /\ 2 \in 1..Len(a) /\ 3 \in 1..Len(a)
    BY <1>1
<1>6. Len(b) = 4 /\ b[1] = w /\ b[2] = x /\ b[3] = y /\ b[4] = z
    BY <1>1, <1>2, <1>4, <1>5
<1>7. \A i \in 1..4 : i = 1 \/ i = 2 \/ i = 3 \/ i = 4
    OBVIOUS
<1>8. \A i \in 1..4 : b[i] = c[i]
    BY <1>3, <1>6, <1>7
<1>9. b = c
    BY <1>3, <1>4, <1>6, <1>8
<1> QED BY <1>9 DEF a, b, c, t

(* Those of _compile_port_v4.                                              *)
ClaimsV4(val, m, c, dir, port, t, f, p) ==
    LET v == Value(PInsn("ldb", 23), p)
        fr == Value(PInsn("ldh", 20), p)
        vs == Value(PInsn("ldhx", 14), p)
        vd == Value(PInsn("ldhx", 16), p)
    IN  /\ Decides(val[m + 1], 0, v = UDP, val[m + 2], val[f])
        /\ Decides(val[m + 2], 0, fr % 8192 = 0, val[m + 3], val[f])
        /\ Decides(val[m + 3], 0, EitherIs(vs, vd, dir, port), val[t], val[f])
        /\ Decides(val[m + 4], 1, vd = port, val[t], val[f])
        /\ Decides(c, 0, v \in {TCP, UDP}, val[m + 2], val[f])

LEMMA FlowPortV4 ==
    ASSUME NEW val, NEW n \in Nat, NEW m \in Nat, n >= m + 4, NEW p, NEW c, NEW d \in Claims,
           NEW port \in Nat, NEW dir \in Dirs, NEW t, NEW f, Exits(t, f, val, n),
           ClaimsV4(val, m, c, dir, port, t, f, p)
    PROVE  Flow(CompilePortV4(port, dir, t, f, m), c, d, val, n, p)
<1> DEFINE v == Value(PInsn("ldb", 23), p)
           fr == Value(PInsn("ldh", 20), p)
           vs == Value(PInsn("ldhx", 14), p)
           vd == Value(PInsn("ldhx", 16), p)
<1>0. /\ Decides(val[m + 1], 0, v = UDP, val[m + 2], val[f])
      /\ Decides(val[m + 2], 0, fr % 8192 = 0, val[m + 3], val[f])
      /\ Decides(val[m + 3], 0, EitherIs(vs, vd, dir, port), val[t], val[f])
      /\ Decides(val[m + 4], 1, vd = port, val[t], val[f])
      /\ Decides(c, 0, v \in {TCP, UDP}, val[m + 2], val[f])
    BY DEF ClaimsV4
<1> HIDE DEF v, fr, vs, vd
<1>1. Exits(m + 2, f, val, n)
    BY <1>0 DEF Decides, Exits
<1>2. Flow(TransportAt(23, f, m), c, val[m + 2], val, n, p)
  <2>1. 20 \in {20, 23} /\ 23 \in {20, 23} /\ n >= m + 2
      OBVIOUS
  <2>2. v = Value(PInsn("ldb", 23), p)
      BY DEF v
  <2>3. /\ Decides(val[m + 1], 0, v = UDP, val[m + 2], val[f])
        /\ Decides(c, 0, v \in {TCP, UDP}, val[m + 2], val[f])
      BY <1>0
  <2> QED BY <1>1, <2>1, <2>2, <2>3, FlowTransport
<1> USE <1>0
<1> DEFINE l2 == m + 2  l3 == m + 3
<1>13. Flow(TransportAt(23, f, m), c, val[l2], val, n, p)
    BY <1>2
<1>3. l3 \in Nat /\ n >= l3 + 1 /\ l3 + 1 = m + 4 /\ l3 \in 1..n
    OBVIOUS
<1>4. /\ val[l2] \in Claims /\ val[l3] \in Claims /\ val[l3].x = 0
      /\ f \in 1..n /\ val[f].x = 0
    BY DEF Decides, Exits
<1> DEFINE frag == <<PInsn("ldh", 20), Jump("jset", FRAG_MASK, f, l3)>>
           g == [v |-> val[l3].v, x |-> 1]
<1>5. Flow(frag, val[l2], val[l3], val, n, p)
  <2>1. FRAG_MASK \in Nat /\ FRAG_MASK + 1 = 8192
      BY DEF FRAG_MASK
  <2>2. Taken(Jump("jset", FRAG_MASK, f, l3), fr) <=> fr % 8192 # 0
      BY <2>1 DEF Taken, Jump
  <2>3. /\ Taken(Jump("jset", FRAG_MASK, f, l3), fr) => Leads(val[l2], val[f])
        /\ ~Taken(Jump("jset", FRAG_MASK, f, l3), fr) => Leads(val[l2], val[l3])
      BY <1>4, <2>2 DEF Decides, Leads
  <2>4. Fits(PInsn("ldh", 20))
    <3>1. 20 \in Nat /\ 20 + 4 <= 58 /\ "ldh" \in {"ldh", "ldb", "ldw"}
        OBVIOUS
    <3> QED BY <3>1, PlainFits
  <2>5. "ldh" \in AccLoads /\ "jset" \in Jumps /\ "ldh" # "ldhx" /\ 20 \in Nat
      BY DEF AccLoads, Jumps
  <2> HIDE DEF l2, l3
  <2> QED BY <1>3, <1>4, <2>1, <2>3, <2>4, <2>5, FlowPair DEF fr
<1>6. Flow(<<Label(l3)>>, val[l3], val[l3], val, n, p)
  <2> HIDE DEF l3
  <2> QED BY <1>3, <1>4, FlowLabel
<1>7. g \in Claims /\ g.v = val[l3].v /\ g.x = 1
    BY <1>4 DEF Claims
<1>8. Flow(<<PInsn("ldxmsh", 14)>>, val[l3], g, val, n, p)
  <2>1. "ldxmsh" \in {"ldxmsh", "ret"} /\ "ldxmsh" # "ret" /\ 14 \in Nat
      OBVIOUS
  <2> HIDE DEF l3, g
  <2> QED BY <1>4, <1>7, <2>1, FlowOne
<1>9. Flow(CompareFields("ldhx", 14, 16, dir, port, t, f, l3), g, d, val, n, p)
  <2>1. Decides(val[l3 + 1], 1, Value(PInsn("ldhx", 16), p) = port, val[t], val[f])
      BY <1>3 DEF Decides, vd
  <2>2. Decides(g, 1, EitherIs(Value(PInsn("ldhx", 14), p), Value(PInsn("ldhx", 16), p),
                               dir, port), val[t], val[f])
    <3> HIDE DEF g
    <3> QED BY <1>7 DEF Decides, vs, vd
  <2>3. "ldhx" \in {"ldh", "ldw", "ldhx"} /\ 1 \in {0, 1} /\ 1 = 1 /\ 14 \in Nat /\ 16 \in Nat
      OBVIOUS
  <2> HIDE DEF l3, g
  <2>4. Fits(PInsn("ldhx", 14)) /\ Fits(PInsn("ldhx", 16))
      BY IndexFits
  <2>5. n \in Nat /\ d \in Claims /\ port \in Nat /\ dir \in Dirs /\ Exits(t, f, val, n)
      OBVIOUS
  <2> QED BY ONLY <1>3, <2>1, <2>2, <2>3, <2>4, <2>5, FlowCompare DEF Decides
<1> HIDE DEF g
<1> DEFINE a == TransportAt(23, f, m)
           b == CompareFields("ldhx", 14, 16, dir, port, t, f, l3)
<1>10. CompilePortV4(port, dir, t, f, m)
         = a \o (frag \o <<Label(l3)>> \o <<PInsn("ldxmsh", 14)>>) \o b
  <2> DEFINE x1 == PInsn("ldh", 20)  x2 == Jump("jset", FRAG_MASK, f, l3)
             x3 == Label(l3)  x4 == PInsn("ldxmsh", 14)
             q == <<x1, x2, x3, x4>>
  <2>1. CompilePortV4(port, dir, t, f, m) = a \o q \o b
      BY DEF CompilePortV4
  <2>2. q = frag \o <<x3>> \o <<x4>>
    <3> HIDE DEF x1, x2, x3, x4
    <3>1. q = <<x1, x2>> \o <<x3>> \o <<x4>>
        BY FourItems
    <3> QED BY <3>1 DEF x1, x2
  <2> HIDE DEF a, b, q, frag
  <2>3. a \o q \o b = a \o (frag \o <<x3>> \o <<x4>>) \o b
      BY <2>2
  <2> QED BY <2>1, <2>3
<1> HIDE DEF a, b, frag, l2, l3
<1>11. Flow(frag \o <<Label(l3)>> \o <<PInsn("ldxmsh", 14)>>, val[l2], g, val, n, p)
    BY <1>5, <1>6, <1>8, FlowConcat
<1> DEFINE mid == frag \o <<Label(l3)>> \o <<PInsn("ldxmsh", 14)>>
<1> HIDE DEF mid
<1>12. Flow(a \o mid \o b, c, d, val, n, p)
    BY <1>9, <1>11, <1>13, FlowConcat DEF a, b, mid
<1> QED BY <1>10, <1>12 DEF mid


LEMMA FlowPort ==
    ASSUME NEW val, NEW n \in Nat, NEW m \in Nat, n >= m + 9, NEW p, NEW c, NEW d \in Claims,
           NEW port \in Nat, NEW dir \in Dirs, NEW t, NEW f, Exits(t, f, val, n),
           NEW v12, v12 = Value(PInsn("ldh", 12), p),
           ClaimsV6(val, m + 2, val[m + 1], dir, port, t, f, p),
           ClaimsV4(val, m + 5, val[m + 2], dir, port, t, f, p),
           Decides(c, 0, v12 = IPV6, val[m + 1], val[m + 2])
    PROVE  Flow(CompilePort(port, dir, t, f, m), c, d, val, n, p)
<1> DEFINE l1 == m + 1  l2 == m + 2  l5 == m + 5
<1>1. l1 \in 1..n /\ l2 \in 1..n /\ l2 \in Nat /\ l5 \in Nat /\ n >= l2 + 3 /\ n >= l5 + 4
    OBVIOUS
<1>2. /\ val[l1] \in Claims /\ val[l2] \in Claims /\ c \in Claims
      /\ val[l1].x = 0 /\ val[l2].x = 0
    BY DEF ClaimsV6, ClaimsV4, Decides
<1>3. Exits(l1, l2, val, n)
    BY <1>1, <1>2 DEF Exits
<1>5. IPV6 \in Nat
    BY DEF IPV6
<1>6. Flow(TestAt("ldh", 12, IPV6, l1, l2), c, val[l1], val, n, p)
  <2>1. (v12 = IPV6 => c.v = val[l1].v) /\ (v12 # IPV6 => c.v = val[l2].v)
      BY DEF Decides
  <2>2. 12 \in Nat /\ 12 + 4 <= 58 /\ "ldh" \in {"ldh", "ldb", "ldw"}
      OBVIOUS
  <2>3. /\ v12 = Value(PInsn("ldh", 12), p) /\ n \in Nat
      OBVIOUS
  <2> HIDE DEF l1, l2
  <2> QED BY ONLY <1>2, <1>3, <1>5, <2>1, <2>2, <2>3, FlowDecide
<1>7. Flow(CompilePortV6(port, dir, t, f, l2), val[l1], val[l2], val, n, p)
  <2>1. ClaimsV6(val, l2, val[l1], dir, port, t, f, p)
      OBVIOUS
  <2> HIDE DEF l1, l2, l5
  <2> QED BY <1>1, <1>2, <2>1, FlowPortV6
<1>8. Flow(CompilePortV4(port, dir, t, f, l5), val[l2], d, val, n, p)
  <2>1. ClaimsV4(val, l5, val[l2], dir, port, t, f, p)
      OBVIOUS
  <2> HIDE DEF l1, l2, l5
  <2> QED BY <1>1, <1>2, <2>1, FlowPortV4
<1> DEFINE b1 == TestAt("ldh", 12, IPV6, l1, l2)
           b2 == CompilePortV6(port, dir, t, f, l2)
           b3 == CompilePortV4(port, dir, t, f, l5)
<1>9. CompilePort(port, dir, t, f, m) = b1 \o <<Label(l1)>> \o b2 \o <<Label(l2)>> \o b3
    BY DEF CompilePort
<1> HIDE DEF b1, b2, b3, l1, l2, l5
<1>10. Flow(b1 \o <<Label(l1)>> \o b2, c, val[l2], val, n, p)
    BY <1>1, <1>2, <1>6, <1>7, FlowThen DEF b1, b2
<1>11. Flow(b1 \o <<Label(l1)>> \o b2 \o <<Label(l2)>> \o b3, c, d, val, n, p)
  <2>1. Flow(b3, val[l2], d, val, n, p) /\ n \in Nat
      BY <1>8 DEF b3
  <2> QED BY ONLY <1>1, <1>2, <2>1, <1>10, FlowThen
<1> QED BY <1>9, <1>11

(* The claims of the labels of _compile_host.                              *)
ClaimsHost(val, m, c, dir, addr, t, f, p) ==
    LET v12 == Value(PInsn("ldh", 12), p)
        vs == Value(PInsn("ldw", 26), p)
        vd == Value(PInsn("ldw", 30), p)
    IN  /\ Decides(val[m + 1], 0, EitherIs(vs, vd, dir, addr), val[t], val[f])
        /\ Decides(val[m + 2], 0, vd = addr, val[t], val[f])
        /\ Decides(c, 0, v12 = IPV4, val[m + 1], val[f])

LEMMA FlowHost ==
    ASSUME NEW val, NEW n \in Nat, NEW m \in Nat, n >= m + 2, NEW p, NEW c, NEW d \in Claims,
           NEW addr \in Nat, NEW dir \in Dirs, NEW t, NEW f, Exits(t, f, val, n),
           ClaimsHost(val, m, c, dir, addr, t, f, p)
    PROVE  Flow(CompileHost(addr, dir, t, f, m), c, d, val, n, p)
<1> DEFINE v12 == Value(PInsn("ldh", 12), p)
           vs == Value(PInsn("ldw", 26), p)
           vd == Value(PInsn("ldw", 30), p)
<1>0. /\ Decides(val[m + 1], 0, EitherIs(vs, vd, dir, addr), val[t], val[f])
      /\ Decides(val[m + 2], 0, vd = addr, val[t], val[f])
      /\ Decides(c, 0, v12 = IPV4, val[m + 1], val[f])
    BY DEF ClaimsHost
<1> USE <1>0
<1> DEFINE l1 == m + 1
<1>1. l1 \in 1..n /\ l1 \in Nat /\ l1 + 1 = m + 2 /\ n >= l1 + 1
    OBVIOUS
<1>2. val[l1] \in Claims /\ c \in Claims
    BY DEF Decides
<1>3. Exits(l1, f, val, n)
    BY <1>1, <1>2 DEF Decides, Exits
<1>4. IPV4 \in Nat
    BY DEF IPV4
<1>5. Flow(TestAt("ldh", 12, IPV4, l1, f), c, val[l1], val, n, p)
  <2>1. (v12 = IPV4 => c.v = val[l1].v) /\ (v12 # IPV4 => c.v = val[f].v)
      BY DEF Decides
  <2>2. 12 \in Nat /\ 12 + 4 <= 58 /\ "ldh" \in {"ldh", "ldb", "ldw"}
      OBVIOUS
  <2> HIDE DEF l1
  <2> QED BY <1>2, <1>3, <1>4, <2>1, <2>2, FlowDecide
<1>6. Fits(PInsn("ldw", 26)) /\ Fits(PInsn("ldw", 30))
  <2>1. 26 \in Nat /\ 26 + 4 <= 58 /\ 30 \in Nat /\ 30 + 4 <= 58
        /\ "ldw" \in {"ldh", "ldb", "ldw"}
      OBVIOUS
  <2> QED BY <2>1, PlainFits
<1>7. Flow(CompareFields("ldw", 26, 30, dir, addr, t, f, l1), val[l1], d, val, n, p)
  <2>1. Decides(val[l1 + 1], 0, Value(PInsn("ldw", 30), p) = addr, val[t], val[f])
      BY <1>1 DEF Decides
  <2>2. Decides(val[l1], 0, EitherIs(Value(PInsn("ldw", 26), p), Value(PInsn("ldw", 30), p),
                                     dir, addr), val[t], val[f])
      BY DEF Decides
  <2>3. /\ "ldw" \in {"ldh", "ldw", "ldhx"} /\ "ldw" # "ldhx" /\ 0 \in {0, 1}
        /\ 26 \in Nat /\ 30 \in Nat
      OBVIOUS
  <2> HIDE DEF l1
  <2> QED BY <1>1, <1>6, <2>1, <2>2, <2>3, FlowCompare DEF Decides
<1> DEFINE b1 == TestAt("ldh", 12, IPV4, l1, f)
           b2 == CompareFields("ldw", 26, 30, dir, addr, t, f, l1)
<1>8. CompileHost(addr, dir, t, f, m) = b1 \o <<Label(l1)>> \o b2
    BY DEF CompileHost
<1> HIDE DEF b1, b2, l1
<1>9. Flow(b1 \o <<Label(l1)>> \o b2, c, d, val, n, p)
    BY <1>1, <1>2, <1>5, <1>7, FlowThen DEF b1, b2
<1> QED BY <1>8, <1>9

LEMMA FlowIcmp ==
    ASSUME NEW val, NEW n \in Nat, NEW m \in Nat, n >= m + 1, NEW p, NEW c, NEW d \in Claims,
           NEW t, NEW f, Exits(t, f, val, n),
           NEW v12, v12 = Value(PInsn("ldh", 12), p),
           NEW v23, v23 = Value(PInsn("ldb", 23), p),
           Decides(val[m + 1], 0, v23 = ICMP, val[t], val[f]),
           Decides(c, 0, v12 = IPV4, val[m + 1], val[f])
    PROVE  Flow(CompileProto("icmp", t, f, m), c, d, val, n, p)
<1> DEFINE l1 == m + 1
<1>1. l1 \in 1..n
    OBVIOUS
<1>2. val[l1] \in Claims /\ c \in Claims
    BY DEF Decides
<1>3. Exits(l1, f, val, n)
    BY <1>1, <1>2 DEF Decides, Exits
<1>4. IPV4 \in Nat /\ ICMP \in Nat
    BY DEF IPV4, ICMP
<1>5. Flow(TestAt("ldh", 12, IPV4, l1, f), c, val[l1], val, n, p)
  <2>1. (v12 = IPV4 => c.v = val[l1].v) /\ (v12 # IPV4 => c.v = val[f].v)
      BY DEF Decides
  <2>2. 12 \in Nat /\ 12 + 4 <= 58 /\ "ldh" \in {"ldh", "ldb", "ldw"}
      OBVIOUS
  <2> HIDE DEF l1
  <2> QED BY <1>2, <1>3, <1>4, <2>1, <2>2, FlowDecide
<1>6. Flow(TestAt("ldb", 23, ICMP, t, f), val[l1], d, val, n, p)
  <2>1. (v23 = ICMP => val[l1].v = val[t].v) /\ (v23 # ICMP => val[l1].v = val[f].v)
      BY DEF Decides
  <2>2. 23 \in Nat /\ 23 + 4 <= 58 /\ "ldb" \in {"ldh", "ldb", "ldw"}
      OBVIOUS
  <2> HIDE DEF l1
  <2> QED BY <1>2, <1>4, <2>1, <2>2, FlowDecide
<1> DEFINE b1 == TestAt("ldh", 12, IPV4, l1, f)
           b2 == TestAt("ldb", 23, ICMP, t, f)
<1>7. CompileProto("icmp", t, f, m) = b1 \o <<Label(l1)>> \o b2
    BY DEF CompileProto
<1> HIDE DEF b1, b2, l1
<1>8. Flow(b1 \o <<Label(l1)>> \o b2, c, d, val, n, p)
    BY <1>1, <1>2, <1>5, <1>6, FlowThen DEF b1, b2
<1> QED BY <1>7, <1>8

LEMMA FlowEtherType ==
    ASSUME NEW val, NEW n \in Nat, NEW p, NEW c, NEW d \in Claims,
           NEW t, NEW f, Exits(t, f, val, n), NEW k \in Nat,
           NEW v12, v12 = Value(PInsn("ldh", 12), p),
           Decides(c, 0, v12 = k, val[t], val[f])
    PROVE  Flow(TestAt("ldh", 12, k, t, f), c, d, val, n, p)
<1>1. (v12 = k => c.v = val[t].v) /\ (v12 # k => c.v = val[f].v) /\ c \in Claims
    BY DEF Decides
<1>2. 12 \in Nat /\ 12 + 4 <= 58 /\ "ldh" \in {"ldh", "ldb", "ldw"}
    OBVIOUS
<1> QED BY <1>1, <1>2, FlowDecide

(* The claims of the labels of _compile_tcp_or_udp.                        *)
ClaimsTcpOrUdp(val, m, c, k, t, f, p) ==
    LET v12 == Value(PInsn("ldh", 12), p)
        v20 == Value(PInsn("ldb", 20), p)
        v23 == Value(PInsn("ldb", 23), p)
        v54 == Value(PInsn("ldb", 54), p)
    IN  /\ Decides(val[m + 1], 0, v20 = k \/ (v20 = FRAGMENT_EXT_HEADER /\ v54 = k),
                   val[t], val[f])
        /\ Decides(val[m + 2], 0, v12 = IPV4 /\ v23 = k, val[t], val[f])
        /\ Decides(val[m + 3], 0, v20 = FRAGMENT_EXT_HEADER /\ v54 = k, val[t], val[f])
        /\ Decides(val[m + 4], 0, v54 = k, val[t], val[f])
        /\ Decides(val[m + 5], 0, v23 = k, val[t], val[f])
        /\ Decides(c, 0, \/ v12 = IPV6 /\ (v20 = k \/ (v20 = FRAGMENT_EXT_HEADER /\ v54 = k))
                         \/ v12 # IPV6 /\ v12 = IPV4 /\ v23 = k, val[t], val[f])

LEMMA FlowTcpUdp ==
    ASSUME NEW val, NEW n \in Nat, NEW m \in Nat, n >= m + 5, NEW p, NEW c, NEW d \in Claims,
           NEW k \in Nat, NEW t, NEW f, Exits(t, f, val, n),
           ClaimsTcpOrUdp(val, m, c, k, t, f, p)
    PROVE  Flow(CompileTcpOrUdp(k, t, f, m), c, d, val, n, p)
    BY FlowTcpOrUdp, ZenonT(60) DEF ClaimsTcpOrUdp, Decides

(* For every outcome there is a claim that decides as it does.             *)
LEMMA DecisionExists ==
    ASSUME NEW t \in Claims, NEW f \in Claims, NEW x \in {0, 1}, NEW b
    PROVE  \E w \in Claims : Decides(w, x, b, t, f)
<1> DEFINE w1 == [v |-> t.v, x |-> x]  w0 == [v |-> f.v, x |-> x]
<1>1. w1 \in Claims /\ w1.x = x /\ w1.v = t.v /\ w0 \in Claims /\ w0.x = x /\ w0.v = f.v
    BY DEF Claims
<1> HIDE DEF w1, w0
<1>2. CASE b
  <2>1. Decides(w1, x, b, t, f)
      BY <1>1, <1>2 DEF Decides
  <2> QED BY <1>1, <2>1
<1>3. CASE ~b
  <2>1. Decides(w0, x, b, t, f)
      BY <1>1, <1>3 DEF Decides
  <2> QED BY <1>1, <2>1
<1> QED BY <1>2, <1>3

(* The block of e, its labels numbered from n + 1, leads from c wherever   *)
(* its frame p is to be led.                                               *)
BlockFlows(e, c, t, f, val, n, p) ==
    \E wal \in [1..(n + 9) -> Claims] :
        /\ \A l \in 1..n : wal[l] = val[l]
        /\ \A d \in Claims : Flow(Block(e, t, f, n), c, d, wal, n + 9, p)

LEMMA BlockPort ==
    ASSUME NEW port \in Nat, NEW dir \in Dirs, NEW n \in Nat, NEW val \in [1..n -> Claims],
           NEW t, NEW f, Exits(t, f, val, n), NEW p \in FrameFields, NEW c,
           Decides(c, 0, Keeps(Port(port, dir), p), val[t], val[f])
    PROVE  BlockFlows(Port(port, dir), c, t, f, val, n, p)
<1> DEFINE v12 == Value(PInsn("ldh", 12), p)
           v20 == Value(PInsn("ldb", 20), p)
           s6 == Value(PInsn("ldh", 54), p)
           d6 == Value(PInsn("ldh", 56), p)
           v23 == Value(PInsn("ldb", 23), p)
           fr == Value(PInsn("ldh", 20), p)
           s4 == Value(PInsn("ldhx", 14), p)
           d4 == Value(PInsn("ldhx", 16), p)
           R6 == v20 \in {TCP, UDP} /\ EitherIs(s6, d6, dir, port)
           R4 == v23 \in {TCP, UDP} /\ fr % 8192 = 0 /\ EitherIs(s4, d4, dir, port)
<1>0. /\ v12 = p.eth
      /\ p.eth # IPV6 => v23 = p.proto /\ fr = p.frag /\ s4 = p.sport /\ d4 = p.dport
      /\ p.eth = IPV6 =>
            /\ v20 = p.proto
            /\ p.proto # FRAGMENT_EXT_HEADER => s6 = p.sport /\ d6 = p.dport
    BY FieldValues
<1> HIDE DEF v12, v20, s6, d6, v23, fr, s4, d4
<1>1. /\ p.eth = IPV6 => (Keeps(Port(port, dir), p) <=> R6)
      /\ p.eth # IPV6 => (Keeps(Port(port, dir), p) <=> R4)
  <2>1. Keeps(Port(port, dir), p) <=> TakenForPorts(p) /\ EitherIs(p.sport, p.dport, dir, port)
      BY KeepsEquations
  <2>2. FRAGMENT_EXT_HEADER \notin {TCP, UDP}
      BY DEF FRAGMENT_EXT_HEADER, TCP, UDP
  <2> QED BY <1>0, <2>1, <2>2 DEF TakenForPorts
<1>2. val[t] \in Claims /\ val[f] \in Claims /\ t \in 1..n /\ f \in 1..n /\ 0 \in {0, 1} /\ 1 \in {0, 1}
    BY DEF Exits
<1> DEFINE A == val[t]  B == val[f]
<1>3. A \in Claims /\ B \in Claims
    BY <1>2
<1> HIDE DEF A, B
<1>4. PICK w4 \in Claims : Decides(w4, 0, EitherIs(s6, d6, dir, port), A, B)
    BY <1>2, <1>3, DecisionExists
<1>5. PICK w1 \in Claims : Decides(w1, 0, v20 \in {TCP, UDP}, w4, B)
    BY <1>2, <1>3, DecisionExists
<1>6. PICK w3 \in Claims : Decides(w3, 0, v20 = UDP, w4, B)
    BY <1>2, <1>3, DecisionExists
<1>7. PICK w5 \in Claims : Decides(w5, 0, d6 = port, A, B)
    BY <1>2, <1>3, DecisionExists
<1>8. PICK w8 \in Claims : Decides(w8, 0, EitherIs(s4, d4, dir, port), A, B)
    BY <1>2, <1>3, DecisionExists
<1>9. PICK w7 \in Claims : Decides(w7, 0, fr % 8192 = 0, w8, B)
  <2> DEFINE Z == fr % 8192 = 0
  <2> HIDE DEF Z
  <2>1. \E w \in Claims : Decides(w, 0, Z, w8, B)
      BY <1>2, <1>3, DecisionExists
  <2> QED BY <2>1 DEF Z
<1>10. PICK w2 \in Claims : Decides(w2, 0, v23 \in {TCP, UDP}, w7, B)
    BY <1>2, <1>3, DecisionExists
<1>11. PICK w6 \in Claims : Decides(w6, 0, v23 = UDP, w7, B)
    BY <1>2, <1>3, DecisionExists
<1>12. PICK w9 \in Claims : Decides(w9, 1, d4 = port, A, B)
    BY <1>2, <1>3, DecisionExists
<1> DEFINE w == <<w1, w2, w3, w4, w5, w6, w7, w8, w9>>
<1>a. w \in Seq(Claims) /\ Len(w) = 9
    OBVIOUS
<1>b. /\ w[1] = w1 /\ w[2] = w2 /\ w[3] = w3 /\ w[4] = w4 /\ w[5] = w5
      /\ w[6] = w6 /\ w[7] = w7 /\ w[8] = w8 /\ w[9] = w9
    OBVIOUS
<1> HIDE DEF w
<1>c. w \in [1..9 -> Claims]
    BY <1>a, NineClaims
<1>d. PICK wal \in [1..(n + 9) -> Claims] :
            /\ \A l \in 1..n : wal[l] = val[l]
            /\ \A i \in 1..9 : wal[n + i] = w[i]
    BY <1>c, FreshLabels
<1>13. /\ wal \in [1..(n + 9) -> Claims]
       /\ \A l \in 1..n : wal[l] = val[l]
       /\ wal[n + 1] = w1 /\ wal[n + 2] = w2 /\ wal[n + 3] = w3
       /\ wal[n + 4] = w4 /\ wal[n + 5] = w5 /\ wal[n + 6] = w6
       /\ wal[n + 7] = w7 /\ wal[n + 8] = w8 /\ wal[n + 9] = w9
    BY <1>b, <1>d, SMTT(30)
<1>14. wal[t] = A /\ wal[f] = B
    BY <1>2, <1>13 DEF A, B
<1>15. Exits(t, f, wal, n + 9)
  <2>1. t \in 1..(n + 9) /\ f \in 1..(n + 9)
      BY <1>2
  <2> QED BY <1>14, <2>1 DEF Exits, A, B
<1>16. /\ (n + 2) + 1 = n + 3 /\ (n + 2) + 2 = n + 4 /\ (n + 2) + 3 = n + 5
       /\ (n + 5) + 1 = n + 6 /\ (n + 5) + 2 = n + 7 /\ (n + 5) + 3 = n + 8
       /\ (n + 5) + 4 = n + 9 /\ n + 9 \in Nat /\ n + 9 >= n + 9
    OBVIOUS
<1>17. ClaimsV6(wal, n + 2, wal[n + 1], dir, port, t, f, p)
  <2>1. /\ Decides(wal[n + 3], 0, v20 = UDP, wal[n + 4], wal[f])
        /\ Decides(wal[n + 4], 0, EitherIs(s6, d6, dir, port), wal[t], wal[f])
        /\ Decides(wal[n + 5], 0, d6 = port, wal[t], wal[f])
        /\ Decides(wal[n + 1], 0, v20 \in {TCP, UDP}, wal[n + 4], wal[f])
    <3>1. Decides(w3, 0, v20 = UDP, w4, B) /\ Decides(w5, 0, d6 = port, A, B)
          /\ Decides(w4, 0, EitherIs(s6, d6, dir, port), A, B)
          /\ Decides(w1, 0, v20 \in {TCP, UDP}, w4, B)
        BY <1>4, <1>5, <1>6, <1>7
    <3> QED BY ONLY <3>1, <1>13, <1>14
  <2> QED BY ONLY <1>16, <2>1 DEF ClaimsV6, v20, s6, d6
<1>18. ClaimsV4(wal, n + 5, wal[n + 2], dir, port, t, f, p)
  <2>1. /\ Decides(wal[n + 6], 0, v23 = UDP, wal[n + 7], wal[f])
        /\ Decides(wal[n + 7], 0, fr % 8192 = 0, wal[n + 8], wal[f])
        /\ Decides(wal[n + 8], 0, EitherIs(s4, d4, dir, port), wal[t], wal[f])
        /\ Decides(wal[n + 9], 1, d4 = port, wal[t], wal[f])
        /\ Decides(wal[n + 2], 0, v23 \in {TCP, UDP}, wal[n + 7], wal[f])
    <3>1. /\ Decides(w6, 0, v23 = UDP, w7, B) /\ Decides(w7, 0, fr % 8192 = 0, w8, B)
          /\ Decides(w8, 0, EitherIs(s4, d4, dir, port), A, B)
          /\ Decides(w9, 1, d4 = port, A, B) /\ Decides(w2, 0, v23 \in {TCP, UDP}, w7, B)
        BY <1>8, <1>9, <1>10, <1>11, <1>12
    <3> QED BY ONLY <3>1, <1>13, <1>14
  <2> QED BY ONLY <1>16, <2>1 DEF ClaimsV4, v23, fr, s4, d4
<1>19. Decides(c, 0, v12 = IPV6, wal[n + 1], wal[n + 2])
  <2>1. (R6 => w1.v = A.v) /\ (~R6 => w1.v = B.v)
      BY <1>4, <1>5 DEF Decides
  <2>2. (R4 => w2.v = A.v) /\ (~R4 => w2.v = B.v)
      BY <1>8, <1>9, <1>10 DEF Decides
  <2>3. /\ c \in Claims /\ c.x = 0
        /\ Keeps(Port(port, dir), p) => c.v = A.v
        /\ ~Keeps(Port(port, dir), p) => c.v = B.v
      BY DEF Decides, A, B
  <2> HIDE DEF R6, R4
  <2> QED BY ONLY <1>0, <1>1, <1>13, <2>1, <2>2, <2>3 DEF Decides
<1>20. ASSUME NEW d \in Claims
       PROVE  Flow(CompilePort(port, dir, t, f, n), c, d, wal, n + 9, p)
  <2>1. v12 = Value(PInsn("ldh", 12), p)
      BY DEF v12
  <2>2. n \in Nat /\ n + 9 \in Nat /\ n + 9 >= n + 9 /\ port \in Nat /\ dir \in Dirs /\ d \in Claims
      OBVIOUS
  <2> QED BY ONLY <1>15, <1>17, <1>18, <1>19, <2>1, <2>2, FlowPort DEF Decides
<1>21. Block(Port(port, dir), t, f, n) = CompilePort(port, dir, t, f, n)
    BY DEF Block, Port
<1> QED BY ONLY <1>13, <1>20, <1>21 DEF BlockFlows

(* Claims for the fresh labels, of which only the first few are looked at. *)
LEMMA FewFresh ==
    ASSUME NEW n \in Nat, NEW val \in [1..n -> Claims], NEW w \in Seq(Claims), Len(w) <= 9,
           NEW t, NEW f, Exits(t, f, val, n)
    PROVE  \E wal \in [1..(n + 9) -> Claims] :
               /\ \A l \in 1..n : wal[l] = val[l]
               /\ \A i \in 1..Len(w) : wal[n + i] = w[i]
               /\ wal[t] = val[t] /\ wal[f] = val[f] /\ Exits(t, f, wal, n + 9)
<1> DEFINE k == Len(w)  c == val[t]  u == [i \in 1..9 |-> IF i <= k THEN w[i] ELSE c]
<1>1. k \in Nat /\ k <= 9 /\ \A i \in 1..k : w[i] \in Claims
    OBVIOUS
<1>2. c \in Claims
    BY DEF Exits
<1> HIDE DEF k, c
<1>3. u \in [1..9 -> Claims] /\ \A i \in 1..k : i \in 1..9 /\ u[i] = w[i]
    BY <1>1, <1>2
<1> HIDE DEF u
<1>4. PICK wal \in [1..(n + 9) -> Claims] :
            /\ \A l \in 1..n : wal[l] = val[l]
            /\ \A i \in 1..9 : wal[n + i] = u[i]
    BY <1>3, FreshLabels
<1>5. wal[t] = val[t] /\ wal[f] = val[f] /\ t \in 1..(n + 9) /\ f \in 1..(n + 9)
    BY <1>4, SMTT(30) DEF Exits
<1>6. Exits(t, f, wal, n + 9)
    BY <1>5 DEF Exits
<1>7. \A i \in 1..k : wal[n + i] = w[i]
    BY <1>3, <1>4
<1> QED BY <1>4, <1>5, <1>6, <1>7 DEF k

LEMMA BlockHost ==
    ASSUME NEW addr \in Nat, NEW dir \in Dirs, NEW n \in Nat, NEW val \in [1..n -> Claims],
           NEW t, NEW f, Exits(t, f, val, n), NEW p \in FrameFields, NEW c,
           Decides(c, 0, Keeps(Host(addr, dir), p), val[t], val[f])
    PROVE  BlockFlows(Host(addr, dir), c, t, f, val, n, p)
<1> DEFINE v12 == Value(PInsn("ldh", 12), p)
           vs == Value(PInsn("ldw", 26), p)
           vd == Value(PInsn("ldw", 30), p)
           A == val[t]
           B == val[f]
<1>0. v12 = p.eth /\ (p.eth # IPV6 => vs = p.src /\ vd = p.dst)
    BY FieldValues
<1>1. Keeps(Host(addr, dir), p) <=> p.eth = IPV4 /\ EitherIs(p.src, p.dst, dir, addr)
    BY KeepsEquations
<1>2. A \in Claims /\ B \in Claims /\ 0 \in {0, 1}
    BY DEF Exits
<1>3. /\ c \in Claims /\ c.x = 0
      /\ Keeps(Host(addr, dir), p) => c.v = A.v
      /\ ~Keeps(Host(addr, dir), p) => c.v = B.v
    BY DEF Decides
<1> HIDE DEF v12, vs, vd, A, B
<1>4. PICK w1 \in Claims : Decides(w1, 0, EitherIs(vs, vd, dir, addr), A, B)
    BY <1>2, DecisionExists
<1>5. PICK w2 \in Claims : Decides(w2, 0, vd = addr, A, B)
    BY <1>2, DecisionExists
<1> DEFINE w == <<w1, w2>>
<1>6a. w \in Seq(Claims) /\ Len(w) = 2 /\ Len(w) <= 9
    OBVIOUS
<1>6b. w[1] = w1 /\ w[2] = w2
    OBVIOUS
<1> HIDE DEF w
<1>6c. PICK wal \in [1..(n + 9) -> Claims] :
            /\ \A l \in 1..n : wal[l] = val[l]
            /\ \A i \in 1..Len(w) : wal[n + i] = w[i]
            /\ wal[t] = val[t] /\ wal[f] = val[f] /\ Exits(t, f, wal, n + 9)
    BY <1>6a, FewFresh, ZenonT(60)
<1>6. /\ wal \in [1..(n + 9) -> Claims] /\ \A l \in 1..n : wal[l] = val[l]
      /\ wal[n + 1] = w1 /\ wal[n + 2] = w2
      /\ wal[t] = val[t] /\ wal[f] = val[f] /\ Exits(t, f, wal, n + 9)
    BY <1>6a, <1>6b, <1>6c
<1>7. Decides(c, 0, v12 = IPV4, wal[n + 1], wal[f])
  <2>1. IPV4 # IPV6
      BY DEF IPV4, IPV6
  <2>2. wal[n + 1] = w1 /\ wal[f] = B
      BY <1>6 DEF B
  <2> QED BY ONLY <1>0, <1>1, <1>3, <1>4, <2>1, <2>2 DEF Decides
<1>8. /\ Decides(wal[n + 1], 0, EitherIs(vs, vd, dir, addr), wal[t], wal[f])
      /\ Decides(wal[n + 2], 0, vd = addr, wal[t], wal[f])
  <2>1. wal[n + 1] = w1 /\ wal[n + 2] = w2 /\ wal[f] = B /\ wal[t] = A
      BY <1>6 DEF A, B
  <2> QED BY ONLY <1>4, <1>5, <2>1 DEF Decides
<1>8a. ClaimsHost(wal, n, c, dir, addr, t, f, p)
    BY <1>7, <1>8 DEF ClaimsHost, v12, vs, vd
<1>9. ASSUME NEW d \in Claims
      PROVE  Flow(CompileHost(addr, dir, t, f, n), c, d, wal, n + 9, p)
  <2>2. n + 9 \in Nat /\ n + 9 >= n + 2 /\ Exits(t, f, wal, n + 9)
      BY <1>6
  <2> QED BY <1>8a, <2>2, FlowHost
<1>10. Block(Host(addr, dir), t, f, n) = CompileHost(addr, dir, t, f, n)
    BY DEF Block, Host
<1> QED BY ONLY <1>6, <1>9, <1>10 DEF BlockFlows

LEMMA BlockTransport ==
    ASSUME NEW name \in {"tcp", "udp"}, NEW k \in {TCP, UDP},
           name = "tcp" => k = TCP, name = "udp" => k = UDP,
           NEW n \in Nat, NEW val \in [1..n -> Claims],
           NEW t, NEW f, Exits(t, f, val, n), NEW p \in FrameFields, NEW c,
           Decides(c, 0, Keeps(Proto(name), p), val[t], val[f])
    PROVE  BlockFlows(Proto(name), c, t, f, val, n, p)
<1> DEFINE v12 == Value(PInsn("ldh", 12), p)
           v20 == Value(PInsn("ldb", 20), p)
           v23 == Value(PInsn("ldb", 23), p)
           v54 == Value(PInsn("ldb", 54), p)
           A == val[t]
           B == val[f]
<1>0. /\ v12 = p.eth
      /\ p.eth # IPV6 => v23 = p.proto
      /\ p.eth = IPV6 => v20 = p.proto /\ (p.proto = FRAGMENT_EXT_HEADER => v54 = p.inner)
    BY FieldValues
<1>1. Keeps(Proto(name), p) <=> Carries(p, k)
  <2>1. Keeps(Proto(name), p) <=> MatchesProto(name, p)
      BY KeepsEquations DEF Protocols
  <2>2. CASE name = "tcp"
      BY <2>1, <2>2 DEF MatchesProto
  <2>3. CASE name = "udp"
      BY <2>1, <2>3 DEF MatchesProto
  <2> QED BY <2>2, <2>3
<1>2. A \in Claims /\ B \in Claims /\ 0 \in {0, 1}
    BY DEF Exits
<1>3. /\ c \in Claims /\ c.x = 0
      /\ Keeps(Proto(name), p) => c.v = A.v
      /\ ~Keeps(Proto(name), p) => c.v = B.v
    BY DEF Decides
<1>4. k \in Nat
    BY DEF TCP, UDP
<1> HIDE DEF v12, v20, v23, v54, A, B
<1>5. PICK w1 \in Claims :
          Decides(w1, 0, v20 = k \/ (v20 = FRAGMENT_EXT_HEADER /\ v54 = k), A, B)
    BY <1>2, DecisionExists
<1>6. PICK w2 \in Claims : Decides(w2, 0, v12 = IPV4 /\ v23 = k, A, B)
    BY <1>2, DecisionExists
<1>7. PICK w3 \in Claims : Decides(w3, 0, v20 = FRAGMENT_EXT_HEADER /\ v54 = k, A, B)
    BY <1>2, DecisionExists
<1>8. PICK w4 \in Claims : Decides(w4, 0, v54 = k, A, B)
    BY <1>2, DecisionExists
<1>9. PICK w5 \in Claims : Decides(w5, 0, v23 = k, A, B)
    BY <1>2, DecisionExists
<1> DEFINE w == <<w1, w2, w3, w4, w5>>
<1>10a. w \in Seq(Claims) /\ Len(w) = 5 /\ Len(w) <= 9
    OBVIOUS
<1>10b. w[1] = w1 /\ w[2] = w2 /\ w[3] = w3 /\ w[4] = w4 /\ w[5] = w5
    OBVIOUS
<1> HIDE DEF w
<1>10c. PICK wal \in [1..(n + 9) -> Claims] :
            /\ \A l \in 1..n : wal[l] = val[l]
            /\ \A i \in 1..Len(w) : wal[n + i] = w[i]
            /\ wal[t] = val[t] /\ wal[f] = val[f] /\ Exits(t, f, wal, n + 9)
    BY <1>10a, FewFresh, ZenonT(60)
<1>10. /\ wal \in [1..(n + 9) -> Claims] /\ \A l \in 1..n : wal[l] = val[l]
      /\ wal[n + 1] = w1 /\ wal[n + 2] = w2 /\ wal[n + 3] = w3 /\ wal[n + 4] = w4 /\ wal[n + 5] = w5
      /\ wal[t] = val[t] /\ wal[f] = val[f] /\ Exits(t, f, wal, n + 9)
    BY <1>10a, <1>10b, <1>10c
<1>11. /\ wal[n + 1] = w1 /\ wal[n + 2] = w2 /\ wal[n + 3] = w3
       /\ wal[n + 4] = w4 /\ wal[n + 5] = w5 /\ wal[t] = A /\ wal[f] = B
    BY <1>10 DEF A, B
<1>12. ClaimsTcpOrUdp(wal, n, c, k, t, f, p)
  <2>1. /\ Decides(w1, 0, v20 = k \/ (v20 = FRAGMENT_EXT_HEADER /\ v54 = k), A, B)
        /\ Decides(w2, 0, v12 = IPV4 /\ v23 = k, A, B)
        /\ Decides(w3, 0, v20 = FRAGMENT_EXT_HEADER /\ v54 = k, A, B)
        /\ Decides(w4, 0, v54 = k, A, B)
        /\ Decides(w5, 0, v23 = k, A, B)
      BY <1>5, <1>6, <1>7, <1>8, <1>9
  <2>2. Decides(c, 0, \/ v12 = IPV6 /\ (v20 = k \/ (v20 = FRAGMENT_EXT_HEADER /\ v54 = k))
                      \/ v12 # IPV6 /\ v12 = IPV4 /\ v23 = k, A, B)
    <3>1. IPV4 # IPV6
        BY DEF IPV4, IPV6
    <3>2. Carries(p, k) <=>
              \/ v12 = IPV6 /\ (v20 = k \/ (v20 = FRAGMENT_EXT_HEADER /\ v54 = k))
              \/ v12 # IPV6 /\ v12 = IPV4 /\ v23 = k
        BY ONLY <1>0, <3>1 DEF Carries
    <3> QED BY ONLY <1>1, <1>3, <3>2 DEF Decides
  <2> QED BY ONLY <1>11, <2>1, <2>2 DEF ClaimsTcpOrUdp, v12, v20, v23, v54
<1>13. ASSUME NEW d \in Claims
       PROVE  Flow(CompileTcpOrUdp(k, t, f, n), c, d, wal, n + 9, p)
  <2>1. n + 9 \in Nat /\ n + 9 >= n + 5 /\ Exits(t, f, wal, n + 9)
      BY <1>10
  <2> QED BY <1>4, <1>12, <2>1, FlowTcpUdp
<1>14. Block(Proto(name), t, f, n) = CompileTcpOrUdp(k, t, f, n)
  <2>1. Block(Proto(name), t, f, n) = CompileProto(name, t, f, n)
      BY DEF Block, Proto
  <2>2. CASE name = "tcp"
      BY <2>1, <2>2 DEF CompileProto
  <2>3. CASE name = "udp"
      BY <2>1, <2>3 DEF CompileProto
  <2> QED BY <2>2, <2>3
<1> QED BY ONLY <1>10, <1>13, <1>14 DEF BlockFlows

LEMMA BlockIcmp ==
    ASSUME NEW n \in Nat, NEW val \in [1..n -> Claims],
           NEW t, NEW f, Exits(t, f, val, n), NEW p \in FrameFields, NEW c,
           Decides(c, 0, Keeps(Proto("icmp"), p), val[t], val[f])
    PROVE  BlockFlows(Proto("icmp"), c, t, f, val, n, p)
<1> DEFINE v12 == Value(PInsn("ldh", 12), p)
           v23 == Value(PInsn("ldb", 23), p)
           A == val[t]
           B == val[f]
<1>0. v12 = p.eth /\ (p.eth # IPV6 => v23 = p.proto)
    BY FieldValues
<1>1. Keeps(Proto("icmp"), p) <=> p.eth = IPV4 /\ p.proto = ICMP
  <2>1. Keeps(Proto("icmp"), p) <=> MatchesProto("icmp", p)
      BY KeepsEquations DEF Protocols
  <2> QED BY <2>1 DEF MatchesProto
<1>2. A \in Claims /\ B \in Claims /\ 0 \in {0, 1}
    BY DEF Exits
<1>3. /\ c \in Claims /\ c.x = 0
      /\ Keeps(Proto("icmp"), p) => c.v = A.v
      /\ ~Keeps(Proto("icmp"), p) => c.v = B.v
    BY DEF Decides
<1> HIDE DEF v12, v23, A, B
<1>4. PICK w1 \in Claims : Decides(w1, 0, v23 = ICMP, A, B)
    BY <1>2, DecisionExists
<1> DEFINE w == <<w1>>
<1>6a. w \in Seq(Claims) /\ Len(w) = 1 /\ Len(w) <= 9
    OBVIOUS
<1>6b. w[1] = w1
    OBVIOUS
<1> HIDE DEF w
<1>6c. PICK wal \in [1..(n + 9) -> Claims] :
            /\ \A l \in 1..n : wal[l] = val[l]
            /\ \A i \in 1..Len(w) : wal[n + i] = w[i]
            /\ wal[t] = val[t] /\ wal[f] = val[f] /\ Exits(t, f, wal, n + 9)
    BY <1>6a, FewFresh, ZenonT(60)
<1>6. /\ wal \in [1..(n + 9) -> Claims] /\ \A l \in 1..n : wal[l] = val[l]
      /\ wal[n + 1] = w1
      /\ wal[t] = val[t] /\ wal[f] = val[f] /\ Exits(t, f, wal, n + 9)
    BY <1>6a, <1>6b, <1>6c
<1>7. /\ Decides(c, 0, v12 = IPV4, wal[n + 1], wal[f])
      /\ Decides(wal[n + 1], 0, v23 = ICMP, wal[t], wal[f])
  <2>1. IPV4 # IPV6
      BY DEF IPV4, IPV6
  <2>2. wal[n + 1] = w1 /\ wal[f] = B /\ wal[t] = A
      BY <1>6 DEF A, B
  <2> QED BY ONLY <1>0, <1>1, <1>3, <1>4, <2>1, <2>2 DEF Decides
<1>9. ASSUME NEW d \in Claims
      PROVE  Flow(CompileProto("icmp", t, f, n), c, d, wal, n + 9, p)
  <2>1. v12 = Value(PInsn("ldh", 12), p) /\ v23 = Value(PInsn("ldb", 23), p)
      BY DEF v12, v23
  <2>2. n \in Nat /\ n + 9 \in Nat /\ n + 9 >= n + 1 /\ d \in Claims /\ Exits(t, f, wal, n + 9)
      BY <1>6
  <2> QED BY ONLY <1>7, <2>1, <2>2, FlowIcmp DEF Decides
<1>10. Block(Proto("icmp"), t, f, n) = CompileProto("icmp", t, f, n)
    BY DEF Block, Proto
<1> QED BY ONLY <1>6, <1>9, <1>10 DEF BlockFlows

LEMMA BlockEtherType ==
    ASSUME NEW name \in {"ip", "arp", "ip6"}, NEW k \in Nat,
           name = "ip" => k = IPV4, name = "arp" => k = ARP, name = "ip6" => k = IPV6,
           NEW n \in Nat, NEW val \in [1..n -> Claims],
           NEW t, NEW f, Exits(t, f, val, n), NEW p \in FrameFields, NEW c,
           Decides(c, 0, Keeps(Proto(name), p), val[t], val[f])
    PROVE  BlockFlows(Proto(name), c, t, f, val, n, p)
<1> DEFINE v12 == Value(PInsn("ldh", 12), p)
<1>0. v12 = p.eth
    BY FieldValues
<1>1. Keeps(Proto(name), p) <=> p.eth = k
  <2>1. Keeps(Proto(name), p) <=> MatchesProto(name, p)
      BY KeepsEquations DEF Protocols
  <2>2. CASE name = "ip"
      BY <2>1, <2>2 DEF MatchesProto
  <2>3. CASE name = "arp"
      BY <2>1, <2>3 DEF MatchesProto
  <2>4. CASE name = "ip6"
      BY <2>1, <2>4 DEF MatchesProto
  <2> QED BY <2>2, <2>3, <2>4
<1>2. val[t] \in Claims
    BY DEF Exits
<1> DEFINE w == <<val[t]>>
<1>6a. w \in Seq(Claims) /\ Len(w) = 1 /\ Len(w) <= 9
    BY <1>2
<1>6b. w[1] = val[t]
    OBVIOUS
<1> HIDE DEF w
<1>6c. PICK wal \in [1..(n + 9) -> Claims] :
            /\ \A l \in 1..n : wal[l] = val[l]
            /\ \A i \in 1..Len(w) : wal[n + i] = w[i]
            /\ wal[t] = val[t] /\ wal[f] = val[f] /\ Exits(t, f, wal, n + 9)
    BY <1>6a, FewFresh, ZenonT(60)
<1>6. /\ wal \in [1..(n + 9) -> Claims] /\ \A l \in 1..n : wal[l] = val[l]
      /\ wal[n + 1] = val[t]
      /\ wal[t] = val[t] /\ wal[f] = val[f] /\ Exits(t, f, wal, n + 9)
    BY <1>6a, <1>6b, <1>6c
<1>7. Decides(c, 0, v12 = k, wal[t], wal[f])
    BY <1>0, <1>1, <1>6 DEF Decides
<1> HIDE DEF v12
<1>9. ASSUME NEW d \in Claims
      PROVE  Flow(TestAt("ldh", 12, k, t, f), c, d, wal, n + 9, p)
  <2>1. v12 = Value(PInsn("ldh", 12), p)
      BY DEF v12
  <2>2. k \in Nat /\ n + 9 \in Nat /\ d \in Claims /\ Exits(t, f, wal, n + 9)
      BY <1>6
  <2> QED BY ONLY <1>7, <2>1, <2>2, FlowEtherType DEF Decides
<1>10. Block(Proto(name), t, f, n) = TestAt("ldh", 12, k, t, f)
  <2>1. Block(Proto(name), t, f, n) = CompileProto(name, t, f, n)
      BY DEF Block, Proto
  <2>2. CASE name = "ip"
      BY <2>1, <2>2 DEF CompileProto
  <2>3. CASE name = "arp"
      BY <2>1, <2>3 DEF CompileProto
  <2>4. CASE name = "ip6"
      BY <2>1, <2>4 DEF CompileProto
  <2> QED BY <2>2, <2>3, <2>4
<1> QED BY ONLY <1>6, <1>9, <1>10 DEF BlockFlows

(* The block of every primitive decides as the primitive's meaning does.   *)
LEMMA FlowBlock ==
    ASSUME NEW e \in AllTrees, e.op \in {"proto", "host", "port"}, NEW n \in Nat,
           NEW val \in [1..n -> Claims], NEW t, NEW f, Exits(t, f, val, n),
           NEW p \in FrameFields, NEW c, Decides(c, 0, Keeps(e, p), val[t], val[f])
    PROVE  BlockFlows(e, c, t, f, val, n, p)
<1>1. e \in Primitives
  <2>1. Shape(e, AllTrees)
      BY TreeShape
  <2>2. \A x : Not(x).op = "not"
      BY DEF Not
  <2>3. \A x, y : And(x, y).op = "and" /\ Or(x, y).op = "or"
      BY DEF And, Or
  <2> QED BY <2>1, <2>2, <2>3 DEF Shape
<1>2. CASE \E a \in Nat, d \in Dirs : e = Port(a, d)
    BY <1>2, BlockPort
<1>3. CASE \E a \in Nat, d \in Dirs : e = Host(a, d)
    BY <1>3, BlockHost
<1>4. ASSUME NEW name \in Protocols, e = Proto(name)
      PROVE  BlockFlows(e, c, t, f, val, n, p)
  <2>1. IPV4 \in Nat /\ ARP \in Nat /\ IPV6 \in Nat
      BY DEF IPV4, ARP, IPV6
  <2>2. CASE name = "ip"
      BY <1>4, <2>1, <2>2, BlockEtherType
  <2>3. CASE name = "arp"
      BY <1>4, <2>1, <2>3, BlockEtherType
  <2>4. CASE name = "ip6"
      BY <1>4, <2>1, <2>4, BlockEtherType
  <2>5. CASE name = "icmp"
      BY <1>4, <2>5, BlockIcmp
  <2>6. CASE name = "tcp"
      BY <1>4, <2>6, BlockTransport
  <2>7. CASE name = "udp"
      BY <1>4, <2>7, BlockTransport
  <2> QED BY <2>2, <2>3, <2>4, <2>5, <2>6, <2>7 DEF Protocols
<1> QED BY <1>1, <1>2, <1>3, <1>4 DEF Primitives

-----------------------------------------------------------------------------
(* What is still to be compiled or emitted keeps its promises: a call      *)
(* decides between its two labels as its expression does, an item leads on *)
(* to what lies below it on the stack.                                     *)
Stacked(s, c, d, val, n, p) ==
    /\ s.what = "call" => /\ Exits(s.t, s.f, val, n)
                          /\ Decides(c, 0, Keeps(s.node, p), val[s.t], val[s.f])
    /\ s.what = "emit" => Flow(<<s.item>>, c, d, val, n, p)

StackFlow(s, c, val, n, p) ==
    \E ent \in [1..(Len(s) + 1) -> Claims] :
        /\ ent[1] = c
        /\ \A i \in 1..Len(s) : Stacked(s[i], ent[i], ent[i + 1], val, n, p)

LEMMA StackFlowHead ==
    ASSUME NEW S, NEW s \in Seq(S), s # <<>>, NEW c, NEW val, NEW n, NEW p,
           StackFlow(s, c, val, n, p)
    PROVE  \E d \in Claims : Stacked(s[1], c, d, val, n, p) /\ StackFlow(Tail(s), d, val, n, p)
<1> DEFINE u == Tail(s)  m == Len(s)
<1>1. /\ m \in Nat /\ m > 0 /\ Len(u) = m - 1
      /\ \A i \in 1..(m - 1) : u[i] = s[i + 1]
    OBVIOUS
<1>2. PICK ent \in [1..(m + 1) -> Claims] :
          /\ ent[1] = c
          /\ \A i \in 1..m : Stacked(s[i], ent[i], ent[i + 1], val, n, p)
    BY DEF StackFlow
<1> HIDE DEF u, m
<1> DEFINE d == ent[2]  g == [i \in 1..m |-> ent[i + 1]]
<1>3. d \in Claims /\ Stacked(s[1], c, d, val, n, p)
  <2>1. 2 \in 1..(m + 1) /\ 1 \in 1..m /\ 1 + 1 = 2
      BY <1>1
  <2> QED BY <1>2, <2>1
<1>4. g \in [1..((m - 1) + 1) -> Claims] /\ g[1] = d
    BY <1>1
<1>5. ASSUME NEW i \in 1..(m - 1) PROVE Stacked(u[i], g[i], g[i + 1], val, n, p)
  <2>1. i \in 1..m /\ i + 1 \in 1..m
      BY <1>1
  <2>2. g[i] = ent[i + 1] /\ g[i + 1] = ent[(i + 1) + 1] /\ u[i] = s[i + 1]
      BY <1>1, <2>1
  <2> HIDE DEF g
  <2> QED BY <1>2, <2>1, <2>2
<1>6. StackFlow(u, d, val, n, p)
  <2> HIDE DEF g, d
  <2> QED BY <1>1, <1>4, <1>5 DEF StackFlow
<1> HIDE DEF d
<1>7. StackFlow(Tail(s), d, val, n, p)
    BY <1>6 DEF u
<1> QED BY <1>3, <1>7

LEMMA StackFlowCons ==
    ASSUME NEW S, NEW s \in Seq(S), NEW x \in S, NEW c \in Claims, NEW d, NEW val, NEW n, NEW p,
           Stacked(x, c, d, val, n, p), StackFlow(s, d, val, n, p)
    PROVE  StackFlow(<<x>> \o s, c, val, n, p)
<1> DEFINE u == <<x>> \o s  m == Len(s)
<1>1. /\ m \in Nat /\ Len(u) = m + 1 /\ u[1] = x
      /\ \A i \in 1..m : u[i + 1] = s[i]
    BY ConsElements
<1>2. PICK ent \in [1..(m + 1) -> Claims] :
          /\ ent[1] = d
          /\ \A i \in 1..m : Stacked(s[i], ent[i], ent[i + 1], val, n, p)
    BY DEF StackFlow
<1> HIDE DEF u, m
<1> DEFINE g == [i \in 1..(m + 2) |-> IF i = 1 THEN c ELSE ent[i - 1]]
<1>4. g \in [1..((m + 1) + 1) -> Claims] /\ g[1] = c /\ g[2] = d
    BY <1>1, <1>2
<1>5. ASSUME NEW i \in 1..(m + 1) PROVE Stacked(u[i], g[i], g[i + 1], val, n, p)
  <2>1. CASE i = 1
    <3> HIDE DEF g
    <3> QED BY <1>1, <1>4, <2>1
  <2>2. CASE i # 1
    <3> DEFINE j == i - 1
    <3>1. j \in 1..m /\ i = j + 1
        BY <1>1, <2>2
    <3>2. g[i] = ent[j] /\ g[i + 1] = ent[j + 1] /\ u[i] = s[j]
        BY <1>1, <2>2, <3>1
    <3> HIDE DEF g, j
    <3> QED BY <1>2, <3>1, <3>2
  <2> QED BY <2>1, <2>2
<1>6. StackFlow(u, c, val, n, p)
  <2> HIDE DEF g
  <2> QED BY <1>1, <1>4, <1>5 DEF StackFlow
<1> QED BY <1>6 DEF u

LEMMA StackedMore ==
    ASSUME NEW x, NEW c, NEW d, NEW val, NEW n \in Nat, NEW p, Stacked(x, c, d, val, n, p),
           NEW wal, NEW m \in Nat, m >= n, \A l \in 1..n : wal[l] = val[l]
    PROVE  Stacked(x, c, d, wal, m, p)
<1>1. CASE x.what = "call"
  <2>1. Exits(x.t, x.f, val, n) /\ Decides(c, 0, Keeps(x.node, p), val[x.t], val[x.f])
      BY <1>1 DEF Stacked
  <2>2. /\ wal[x.t] = val[x.t] /\ wal[x.f] = val[x.f]
        /\ x.t \in 1..m /\ x.f \in 1..m
      BY <2>1 DEF Exits
  <2>3. Exits(x.t, x.f, wal, m) /\ Decides(c, 0, Keeps(x.node, p), wal[x.t], wal[x.f])
      BY <2>1, <2>2 DEF Exits
  <2> QED BY <1>1, <2>3 DEF Stacked
<1>2. CASE x.what = "emit"
    BY <1>2, FlowMoreLabels DEF Stacked
<1> QED BY <1>1, <1>2 DEF Stacked

LEMMA StackFlowMore ==
    ASSUME NEW s, NEW c, NEW val, NEW n \in Nat, NEW p, StackFlow(s, c, val, n, p),
           NEW wal, NEW m \in Nat, m >= n, \A l \in 1..n : wal[l] = val[l]
    PROVE  StackFlow(s, c, wal, m, p)
<1>2. PICK ent \in [1..(Len(s) + 1) -> Claims] :
          /\ ent[1] = c
          /\ \A i \in 1..Len(s) : Stacked(s[i], ent[i], ent[i + 1], val, n, p)
    BY DEF StackFlow
<1>3. \A i \in 1..Len(s) : Stacked(s[i], ent[i], ent[i + 1], wal, m, p)
    BY <1>2, StackedMore
<1> QED BY <1>2, <1>3 DEF StackFlow

(* The code b so far, and the stack s behind it, answer e for p.           *)
Generated(e, b, s, n, p) ==
    \E val \in [1..n -> Claims], c \in Claims, d \in Claims :
        /\ c.x = 0 /\ (c.v = 1 <=> Keeps(e, p))
        /\ Flow(b, c, d, val, n, p)
        /\ StackFlow(s, d, val, n, p)

LEMMA GeneratedPrimitive ==
    ASSUME NEW e, NEW b, NEW s, NEW n \in Nat, NEW p \in FrameFields, Generated(e, b, s, n, p),
           NEW S, s \in Seq(S), s # <<>>, s[1].what = "call", s[1].node \in AllTrees,
           s[1].node.op \in {"proto", "host", "port"}
    PROVE  Generated(e, b \o Block(s[1].node, s[1].t, s[1].f, n), Tail(s), n + 9, p)
<1>1. PICK val \in [1..n -> Claims], c \in Claims, d \in Claims :
          /\ c.x = 0 /\ (c.v = 1 <=> Keeps(e, p))
          /\ Flow(b, c, d, val, n, p)
          /\ StackFlow(s, d, val, n, p)
    BY DEF Generated
<1>2. PICK g \in Claims : Stacked(s[1], d, g, val, n, p) /\ StackFlow(Tail(s), g, val, n, p)
    BY <1>1, StackFlowHead
<1> DEFINE x == s[1]  k == Block(x.node, x.t, x.f, n)
<1>3. Exits(x.t, x.f, val, n) /\ Decides(d, 0, Keeps(x.node, p), val[x.t], val[x.f])
    BY <1>2 DEF Stacked
<1>4. BlockFlows(x.node, d, x.t, x.f, val, n, p)
    BY <1>3, FlowBlock
<1>5. PICK wal \in [1..(n + 9) -> Claims] :
          /\ \A l \in 1..n : wal[l] = val[l]
          /\ \A y \in Claims : Flow(k, d, y, wal, n + 9, p)
    BY <1>4 DEF BlockFlows
<1>6. n + 9 \in Nat /\ n + 9 >= n
    OBVIOUS
<1> HIDE DEF k, x
<1>7. Flow(b, c, d, wal, n + 9, p)
    BY <1>1, <1>5, <1>6, FlowMoreLabels
<1>8. Flow(b \o k, c, g, wal, n + 9, p)
    BY <1>5, <1>7, FlowConcat
<1>9. StackFlow(Tail(s), g, wal, n + 9, p)
    BY <1>2, <1>5, <1>6, StackFlowMore
<1>10. Generated(e, b \o k, Tail(s), n + 9, p)
    BY <1>1, <1>5, <1>8, <1>9 DEF Generated
<1> QED BY <1>10 DEF k, x

LEMMA GeneratedEmit ==
    ASSUME NEW e, NEW b, NEW s, NEW n \in Nat, NEW p, Generated(e, b, s, n, p),
           NEW S, s \in Seq(S), s # <<>>, s[1].what = "emit"
    PROVE  Generated(e, b \o <<s[1].item>>, Tail(s), n, p)
<1>1. PICK val \in [1..n -> Claims], c \in Claims, d \in Claims :
          /\ c.x = 0 /\ (c.v = 1 <=> Keeps(e, p))
          /\ Flow(b, c, d, val, n, p)
          /\ StackFlow(s, d, val, n, p)
    BY DEF Generated
<1>2. PICK g \in Claims : Stacked(s[1], d, g, val, n, p) /\ StackFlow(Tail(s), g, val, n, p)
    BY <1>1, StackFlowHead
<1> DEFINE k == <<s[1].item>>
<1>3. Flow(k, d, g, val, n, p)
    BY <1>2 DEF Stacked
<1> HIDE DEF k
<1>4. Flow(b \o k, c, g, val, n, p)
    BY <1>1, <1>3, FlowConcat
<1>5. Generated(e, b \o k, Tail(s), n, p)
    BY <1>1, <1>2, <1>4 DEF Generated
<1> QED BY <1>5 DEF k

LEMMA GeneratedNot ==
    ASSUME NEW e, NEW b, NEW s, NEW n \in Nat, NEW p, Generated(e, b, s, n, p),
           NEW S, s \in Seq(S), s # <<>>, s[1].what = "call", NEW x \in AllTrees,
           s[1].node = Not(x), NEW q \in S, q.what = "call", q.node = x,
           q.t = s[1].f, q.f = s[1].t
    PROVE  Generated(e, b, <<q>> \o Tail(s), n, p)
<1>1. PICK val \in [1..n -> Claims], c \in Claims, d \in Claims :
          /\ c.x = 0 /\ (c.v = 1 <=> Keeps(e, p))
          /\ Flow(b, c, d, val, n, p)
          /\ StackFlow(s, d, val, n, p)
    BY DEF Generated
<1>2. PICK g \in Claims : Stacked(s[1], d, g, val, n, p) /\ StackFlow(Tail(s), g, val, n, p)
    BY <1>1, StackFlowHead
<1>3. Keeps(Not(x), p) <=> ~Keeps(x, p)
    BY KeepsEquations
<1>4. Stacked(q, d, g, val, n, p)
    BY <1>2, <1>3 DEF Stacked, Exits, Decides
<1>5. Tail(s) \in Seq(S)
    BY TailElements
<1>6. StackFlow(<<q>> \o Tail(s), d, val, n, p)
    BY <1>2, <1>4, <1>5, StackFlowCons
<1> QED BY <1>1, <1>6 DEF Generated

LEMMA KeepsJoin ==
    ASSUME NEW p, NEW x \in AllTrees, NEW y \in AllTrees
    PROVE  /\ Keeps(And(x, y), p) <=> Keeps(x, p) /\ Keeps(y, p)
           /\ Keeps(Or(x, y), p) <=> Keeps(x, p) \/ Keeps(y, p)
    BY KeepsEquations

(* A label more, with a claim of its own.                                  *)
LEMMA OneLabel ==
    ASSUME NEW n \in Nat, NEW val \in [1..n -> Claims], NEW h \in Claims
    PROVE  \E wal \in [1..(n + 1) -> Claims] :
               (\A l \in 1..n : wal[l] = val[l]) /\ wal[n + 1] = h
<1> DEFINE wal == [l \in 1..(n + 1) |-> IF l <= n THEN val[l] ELSE h]
<1>1. wal \in [1..(n + 1) -> Claims] /\ (\A l \in 1..n : wal[l] = val[l]) /\ wal[n + 1] = h
    OBVIOUS
<1> QED BY <1>1

(* and, or: the label between the operands answers as the right one.       *)
LEMMA GeneratedChain ==
    ASSUME NEW e, NEW b, NEW s, NEW n \in Nat, NEW p, Generated(e, b, s, n, p),
           NEW S, s \in Seq(S), s # <<>>, s[1].what = "call",
           NEW x \in AllTrees, NEW y \in AllTrees,
           NEW q \in S, q.what = "call", q.node = x,
           NEW r \in S, r.what = "call", r.node = y, r.t = s[1].t, r.f = s[1].f,
           Emit(Label(n + 1)) \in S,
           \/ s[1].node = And(x, y) /\ q.t = n + 1 /\ q.f = s[1].f
           \/ s[1].node = Or(x, y) /\ q.t = s[1].t /\ q.f = n + 1
    PROVE  Generated(e, b, <<q, Emit(Label(n + 1)), r>> \o Tail(s), n + 1, p)
<1>1. PICK val \in [1..n -> Claims], c \in Claims, d \in Claims :
          /\ c.x = 0 /\ (c.v = 1 <=> Keeps(e, p))
          /\ Flow(b, c, d, val, n, p)
          /\ StackFlow(s, d, val, n, p)
    BY DEF Generated
<1>2. PICK g \in Claims : Stacked(s[1], d, g, val, n, p) /\ StackFlow(Tail(s), g, val, n, p)
    BY <1>1, StackFlowHead
<1> DEFINE t == s[1].t  f == s[1].f  z == Emit(Label(n + 1))  u == Tail(s)
<1>3. /\ Exits(t, f, val, n) /\ d \in Claims /\ d.x = 0
      /\ Keeps(s[1].node, p) => d.v = val[t].v
      /\ ~Keeps(s[1].node, p) => d.v = val[f].v
    BY <1>2 DEF Stacked, Decides
<1>4. /\ Keeps(And(x, y), p) <=> Keeps(x, p) /\ Keeps(y, p)
      /\ Keeps(Or(x, y), p) <=> Keeps(x, p) \/ Keeps(y, p)
    BY KeepsJoin
<1>5. PICK h \in Claims : Decides(h, 0, Keeps(y, p), val[t], val[f])
  <2>1. val[t] \in Claims /\ val[f] \in Claims /\ 0 \in {0, 1}
      BY <1>3 DEF Exits
  <2> QED BY <2>1, DecisionExists
<1>6. PICK wal \in [1..(n + 1) -> Claims] :
          (\A l \in 1..n : wal[l] = val[l]) /\ wal[n + 1] = h
    BY OneLabel
<1>7. /\ wal[t] = val[t] /\ wal[f] = val[f] /\ t \in 1..(n + 1) /\ f \in 1..(n + 1)
      /\ n + 1 \in 1..(n + 1) /\ n + 1 \in Nat /\ n + 1 >= n
    BY <1>3, <1>6 DEF Exits
<1>8. /\ Exits(t, f, wal, n + 1)
      /\ Exits(n + 1, f, wal, n + 1) /\ Exits(t, n + 1, wal, n + 1)
    BY <1>3, <1>5, <1>6, <1>7 DEF Exits, Decides
<1> HIDE DEF t, f, u
<1>9. Stacked(r, h, g, wal, n + 1, p)
  <2>1. r.t = t /\ r.f = f
      BY DEF t, f
  <2> QED BY <1>5, <1>7, <1>8, <2>1 DEF Stacked
<1>10. Stacked(z, h, h, wal, n + 1, p)
  <2>1. Flow(<<Label(n + 1)>>, wal[n + 1], wal[n + 1], wal, n + 1, p)
      BY <1>6, <1>7, FlowLabel
  <2>2. z.what = "emit" /\ z.item = Label(n + 1) /\ "emit" # "call"
      BY <1>7, EmitFacts
  <2> HIDE DEF z
  <2> QED BY <1>6, <2>1, <2>2 DEF Stacked
<1>11. Stacked(q, d, h, wal, n + 1, p)
  <2>1. CASE s[1].node = And(x, y) /\ q.t = n + 1 /\ q.f = f
    <3>1. Decides(d, 0, Keeps(x, p), wal[n + 1], wal[f])
        BY <1>3, <1>4, <1>5, <1>6, <1>7, <2>1 DEF Decides
    <3> QED BY <1>8, <2>1, <3>1 DEF Stacked
  <2>2. CASE s[1].node = Or(x, y) /\ q.t = t /\ q.f = n + 1
    <3>1. Decides(d, 0, Keeps(x, p), wal[t], wal[n + 1])
        BY <1>3, <1>4, <1>5, <1>6, <1>7, <2>2 DEF Decides
    <3> QED BY <1>8, <2>2, <3>1 DEF Stacked
  <2> QED BY <2>1, <2>2 DEF t, f
<1>12. u \in Seq(S)
    BY TailElements DEF u
<1>13. StackFlow(u, g, wal, n + 1, p)
    BY <1>2, <1>6, <1>7, StackFlowMore DEF u
<1>14. z \in S
    OBVIOUS
<1> HIDE DEF z
<1>15. StackFlow(<<r>> \o u, h, wal, n + 1, p) /\ <<r>> \o u \in Seq(S)
    BY <1>9, <1>12, <1>13, StackFlowCons, ConsElements
<1>16. StackFlow(<<z>> \o (<<r>> \o u), h, wal, n + 1, p) /\ <<z>> \o (<<r>> \o u) \in Seq(S)
  <2> DEFINE v == <<r>> \o u
  <2>1. StackFlow(v, h, wal, n + 1, p) /\ v \in Seq(S)
      BY <1>15
  <2> HIDE DEF v
  <2>2. StackFlow(<<z>> \o v, h, wal, n + 1, p) /\ <<z>> \o v \in Seq(S)
      BY <1>10, <1>14, <2>1, StackFlowCons, ConsElements
  <2> QED BY <2>2 DEF v
<1>17. StackFlow(<<q>> \o (<<z>> \o (<<r>> \o u)), d, wal, n + 1, p)
  <2> DEFINE v == <<z>> \o (<<r>> \o u)
  <2>1. StackFlow(v, h, wal, n + 1, p) /\ v \in Seq(S)
      BY <1>16
  <2> HIDE DEF v
  <2>2. StackFlow(<<q>> \o v, d, wal, n + 1, p)
      BY <1>11, <2>1, StackFlowCons
  <2> QED BY <2>2 DEF v
<1>18. <<q, z, r>> \o u = <<q>> \o (<<z>> \o (<<r>> \o u))
  <2>1. u \in Seq(S) /\ q \in S /\ z \in S /\ r \in S
      BY <1>12, <1>14
  <2> QED BY ONLY <2>1, ConsThree, SMTT(60)
<1>19. StackFlow(<<q, z, r>> \o u, d, wal, n + 1, p)
    BY <1>17, <1>18
<1>20. Flow(b, c, d, wal, n + 1, p)
    BY <1>1, <1>6, <1>7, FlowMoreLabels
<1>21. Generated(e, b, <<q, z, r>> \o u, n + 1, p)
    BY <1>1, <1>6, <1>19, <1>20 DEF Generated
<1> QED BY <1>21 DEF z, u

(* compile_expression's frame: label accept before ret ACCEPT_LENGTH,      *)
(* label reject before ret 0.                                              *)
LEMMA GeneratedFrame ==
    ASSUME NEW e \in AllTrees, NEW p
    PROVE  Generated(e, <<>>, Frame(e), 2, p)
<1> DEFINE y == [v |-> 1, x |-> 0]  z == [v |-> 0, x |-> 0]
           val == [l \in 1..2 |-> IF l = 1 THEN y ELSE z]
<1>1. y \in Claims /\ z \in Claims /\ y.v = 1 /\ y.x = 0 /\ z.v = 0 /\ z.x = 0
    BY DEF Claims
<1> HIDE DEF y, z
<1>2. val \in [1..2 -> Claims] /\ val[1] = y /\ val[2] = z
    BY <1>1
<1> HIDE DEF val
<1>3. Exits(1, 2, val, 2)
    BY <1>1, <1>2 DEF Exits
<1>4. PICK c \in Claims : Decides(c, 0, Keeps(e, p), y, z)
  <2>1. 0 \in {0, 1}
      OBVIOUS
  <2> QED BY <1>1, <2>1, DecisionExists
<1>5. c.x = 0 /\ (c.v = 1 <=> Keeps(e, p))
    BY <1>1, <1>4 DEF Decides
<1> DEFINE q == Call(e, 1, 2, 1)  a == Emit(Label(1))  r1 == Emit(PInsn("ret", ACCEPT_LENGTH))
           b == Emit(Label(2))  r2 == Emit(PInsn("ret", 0))
<1>6. Stacked(q, c, y, val, 2, p)
  <2>1. q.what = "call" /\ q.node = e /\ q.t = 1 /\ q.f = 2 /\ "call" # "emit"
      BY DEF Call
  <2> HIDE DEF q
  <2> QED BY <1>2, <1>3, <1>4, <2>1 DEF Stacked
<1>7. Stacked(a, y, y, val, 2, p) /\ Stacked(b, z, z, val, 2, p)
  <2>1. /\ a.what = "emit" /\ a.item = Label(1) /\ b.what = "emit" /\ b.item = Label(2)
        /\ "emit" # "call"
      BY DEF Emit
  <2>2. 1 \in 1..2 /\ 2 \in 1..2 /\ 2 \in Nat
      OBVIOUS
  <2>3. Flow(<<Label(1)>>, y, y, val, 2, p) /\ Flow(<<Label(2)>>, z, z, val, 2, p)
      BY <1>1, <1>2, <2>2, FlowLabel
  <2> HIDE DEF a, b
  <2> QED BY <2>1, <2>3 DEF Stacked
<1>8. Stacked(r1, y, z, val, 2, p) /\ Stacked(r2, z, z, val, 2, p)
  <2>1. /\ r1.what = "emit" /\ r1.item = PInsn("ret", ACCEPT_LENGTH) /\ r2.what = "emit"
        /\ r2.item = PInsn("ret", 0) /\ "emit" # "call"
      BY DEF Emit
  <2>2. /\ ACCEPT_LENGTH \in Nat /\ ACCEPT_LENGTH > 0 /\ 0 \in Nat /\ ~(0 > 0) /\ 2 \in Nat
        /\ "ret" \in {"ldxmsh", "ret"} /\ "ret" # "ldxmsh" /\ 1 # 0
      BY DEF ACCEPT_LENGTH
  <2>3. Flow(<<PInsn("ret", ACCEPT_LENGTH)>>, y, z, val, 2, p)
      BY <1>1, <2>2, FlowOne
  <2>4. Flow(<<PInsn("ret", 0)>>, z, z, val, 2, p)
      BY <1>1, <2>2, FlowOne
  <2> HIDE DEF r1, r2
  <2> QED BY <2>1, <2>3, <2>4 DEF Stacked
<1> DEFINE s == <<q, a, r1, b, r2>>  ent == <<c, y, y, z, z, z>>
<1>9. Frame(e) = s
    BY DEF Frame, accept, reject
<1> HIDE DEF q, a, r1, b, r2
<1>10. Len(s) = 5 /\ s[1] = q /\ s[2] = a /\ s[3] = r1 /\ s[4] = b /\ s[5] = r2
    OBVIOUS
<1>11. /\ ent \in [1..6 -> Claims]
       /\ ent[1] = c /\ ent[2] = y /\ ent[3] = y /\ ent[4] = z /\ ent[5] = z /\ ent[6] = z
    BY <1>1
<1> HIDE DEF s, ent
<1>12. \A i \in 1..5 : Stacked(s[i], ent[i], ent[i + 1], val, 2, p)
  <2>1. \A i \in 1..5 : i = 1 \/ i = 2 \/ i = 3 \/ i = 4 \/ i = 5
      OBVIOUS
  <2>2. 1 + 1 = 2 /\ 2 + 1 = 3 /\ 3 + 1 = 4 /\ 4 + 1 = 5 /\ 5 + 1 = 6
      OBVIOUS
  <2> QED BY <1>6, <1>7, <1>8, <1>10, <1>11, <2>1, <2>2
<1>13. StackFlow(s, c, val, 2, p)
  <2>1. 5 + 1 = 6
      OBVIOUS
  <2> QED BY <1>10, <1>11, <1>12, <2>1 DEF StackFlow
<1>14. Flow(<<>>, c, c, val, 2, p)
    BY FlowEmpty
<1> QED BY <1>2, <1>5, <1>9, <1>13, <1>14 DEF Generated

-----------------------------------------------------------------------------
(* While code is generated, what is there and what is still to come answer *)
(* the expression, for every frame.                                        *)
GenInv == phase \in {"compiling", "resolving"} =>
              \A p \in FrameFields : Generated(expr, items, todo, labels, p)

LEMMA OperatorShape ==
    ASSUME NEW x \in AllTrees
    PROVE  /\ x.op = "not" => \E e \in AllTrees : x = Not(e)
           /\ x.op \in {"and", "or"} => \E l, r \in AllTrees : x = And(l, r) \/ x = Or(l, r)
<1>1. Shape(x, AllTrees)
    BY TreeShape
<1>2. \A e \in Primitives : e.op \notin {"not", "and", "or"}
    BY DEF Primitives, Proto, Host, Port
<1>3. \A e : Not(e).op = "not"
    BY DEF Not
<1>4. \A l, r : And(l, r).op = "and" /\ Or(l, r).op = "or"
    BY DEF And, Or
<1> QED BY <1>1, <1>2, <1>3, <1>4 DEF Shape

LEMMA GenPrimitive ==
    ASSUME CodegenInv(AllTrees), CompilePrimitive,
           \A p \in FrameFields : Generated(expr, items, todo, labels, p)
    PROVE  GenInv'
<1> DEFINE S == Calls(AllTrees) \cup Emits  k == Block(todo[1].node, todo[1].t, todo[1].f, labels)
<1>1. CompileCall({"proto", "host", "port"})
    BY DEF CompilePrimitive
<1>2. /\ labels \in Nat /\ todo \in Seq(S) /\ todo[1] \in Calls(AllTrees)
      /\ todo[1].node.op \in {"proto", "host", "port"}
    BY <1>1, HeadCall
<1>3. todo # <<>> /\ todo[1].what = "call" /\ todo[1].node \in AllTrees
    BY <1>1, <1>2 DEF CompileCall, Calls
<1>4. /\ items' = items \o k /\ labels' = labels + 9 /\ todo' = Tail(todo) /\ expr' = expr
    BY DEF CompilePrimitive, LabelsPerBlock
<1> HIDE DEF S
<1>5. ASSUME NEW p \in FrameFields PROVE Generated(expr, items \o k, Tail(todo), labels + 9, p)
  <2>1. Generated(expr, items, todo, labels, p)
      OBVIOUS
  <2> QED BY ONLY <1>2, <1>3, <2>1, p \in FrameFields, GeneratedPrimitive
<1> HIDE DEF k
<1>6. \A p \in FrameFields : Generated(expr', items', todo', labels', p)
    BY <1>4, <1>5
<1> QED BY <1>6 DEF GenInv

LEMMA GenNot ==
    ASSUME CodegenInv(AllTrees), CompileNot,
           \A p \in FrameFields : Generated(expr, items, todo, labels, p)
    PROVE  GenInv'
<1> DEFINE S == Calls(AllTrees) \cup Emits  h == todo[1]
           q == Call(h.node.operand, h.f, h.t, h.depth + 1)
<1>1. CompileCall({"not"})
    BY DEF CompileNot
<1>2. /\ labels \in Nat /\ todo \in Seq(S) /\ h \in Calls(AllTrees)
      /\ h.node.op \in {"not"}
    BY <1>1, HeadCall
<1>3. todo # <<>> /\ h.what = "call" /\ h.node \in AllTrees /\ h.depth \in Nat
      /\ h.t \in Nat /\ h.f \in Nat
    BY <1>1, <1>2 DEF CompileCall, Calls
<1>4. PICK x \in AllTrees : h.node = Not(x)
  <2>1. h.node.op = "not"
      BY <1>2
  <2> QED BY <1>3, <2>1, OperatorShape
<1>5. h.node.operand = x
    BY <1>4 DEF Not
<1>6. /\ q \in S /\ q.what = "call" /\ q.node = x /\ q.t = h.f /\ q.f = h.t
    BY <1>3, <1>5 DEF Call, Calls
<1>7. items' = items /\ labels' = labels /\ todo' = <<q>> \o Tail(todo) /\ expr' = expr
    BY DEF CompileNot
<1> HIDE DEF S, q
<1>8. ASSUME NEW p \in FrameFields PROVE Generated(expr, items, <<q>> \o Tail(todo), labels, p)
  <2>1. Generated(expr, items, todo, labels, p)
      OBVIOUS
  <2> QED BY ONLY <1>2, <1>3, <1>4, <1>6, <2>1, GeneratedNot
<1>9. \A p \in FrameFields : Generated(expr', items', todo', labels', p)
    BY <1>7, <1>8
<1> QED BY <1>9 DEF GenInv

LEMMA GenChain ==
    ASSUME CodegenInv(AllTrees), CompileAnd \/ CompileOr,
           \A p \in FrameFields : Generated(expr, items, todo, labels, p)
    PROVE  GenInv'
<1> DEFINE S == Calls(AllTrees) \cup Emits  h == todo[1]
           lt == IF h.node.op = "and" THEN labels + 1 ELSE h.t
           lf == IF h.node.op = "and" THEN h.f ELSE labels + 1
           q == Call(h.node.left, lt, lf, h.depth + 1)
           z == Emit(Label(labels + 1))
           r == Call(h.node.right, h.t, h.f, h.depth + 1)
<1>1. CompileCall({"and", "or"})
    BY DEF CompileAnd, CompileOr, CompileCall
<1>2. /\ labels \in Nat /\ todo \in Seq(S) /\ h \in Calls(AllTrees)
      /\ h.node.op \in {"and", "or"}
    BY <1>1, HeadCall
<1>3. todo # <<>> /\ h.what = "call" /\ h.node \in AllTrees /\ h.depth + 1 \in Nat
      /\ h.t \in Nat /\ h.f \in Nat /\ labels + 1 \in Nat
    BY <1>1, <1>2 DEF CompileCall, Calls
<1>4. PICK x \in AllTrees, y \in AllTrees :
          h.node = And(x, y) \/ h.node = Or(x, y)
  <2> HIDE DEF h
  <2> QED BY <1>2, <1>3, OperatorShape
<1>5. /\ h.node.left = x /\ h.node.right = y
      /\ h.node = And(x, y) => h.node.op = "and"
      /\ h.node = Or(x, y) => h.node.op = "or"
    BY <1>4 DEF And, Or
<1>6. lt \in Nat /\ lf \in Nat
    BY <1>3
<1>7. items' = items /\ labels' = labels + 1 /\ todo' = <<q, z, r>> \o Tail(todo) /\ expr' = expr
  <2>1. CASE CompileAnd
    <3>1. h.node.op = "and"
        BY <2>1 DEF CompileAnd, CompileCall
    <3> QED BY <2>1, <3>1 DEF CompileAnd, Chain
  <2>2. CASE CompileOr
    <3>1. h.node.op = "or"
        BY <2>2 DEF CompileOr, CompileCall
    <3> QED BY <2>2, <3>1 DEF CompileOr, Chain
  <2> QED BY <2>1, <2>2
<1>8. \/ h.node = And(x, y) /\ lt = labels + 1 /\ lf = h.f
      \/ h.node = Or(x, y) /\ lt = h.t /\ lf = labels + 1
    BY <1>4, <1>5
<1> HIDE DEF lt, lf
<1>9. /\ q \in S /\ q.what = "call" /\ q.node = x /\ q.t = lt /\ q.f = lf
      /\ r \in S /\ r.what = "call" /\ r.node = y /\ r.t = h.t /\ r.f = h.f
    BY <1>3, <1>5, <1>6 DEF Call, Calls
<1>10. z \in S
    BY <1>3, EmitFacts
<1>11. \/ h.node = And(x, y) /\ q.t = labels + 1 /\ q.f = h.f
       \/ h.node = Or(x, y) /\ q.t = h.t /\ q.f = labels + 1
    BY <1>8, <1>9
<1> HIDE DEF S, q, r
<1>12. ASSUME NEW p \in FrameFields
       PROVE  Generated(expr, items, <<q, z, r>> \o Tail(todo), labels + 1, p)
  <2>1. Generated(expr, items, todo, labels, p)
      OBVIOUS
  <2>2. x \in AllTrees /\ y \in AllTrees
      OBVIOUS
  <2> QED BY ONLY <1>2, <1>3, <1>9, <1>10, <1>11, <2>1, <2>2, GeneratedChain
<1> HIDE DEF z
<1>13. \A p \in FrameFields : Generated(expr', items', todo', labels', p)
    BY <1>7, <1>12
<1> QED BY <1>13 DEF GenInv

LEMMA GenEmit ==
    ASSUME CodegenInv(AllTrees), EmitItem,
           \A p \in FrameFields : Generated(expr, items, todo, labels, p)
    PROVE  GenInv'
<1> DEFINE S == Calls(AllTrees) \cup Emits  x == todo[1].item
<1>1. /\ labels \in Nat /\ StackOK(todo, labels, AllTrees) /\ todo # <<>>
      /\ todo \in Seq(S) /\ todo[1].what = "emit"
    BY DEF CodegenInv, StackOK, EmitItem
<1>2. x \in Items
    BY <1>1 DEF Calls, Emits
<1>3. items \in Seq(Items)
    BY DEF CodegenInv, StreamInv, Fragment
<1>4. items' = items \o <<x>> /\ labels' = labels /\ todo' = Tail(todo) /\ expr' = expr
  <2>1. items' = Append(items, x) /\ labels' = labels /\ todo' = Tail(todo) /\ expr' = expr
      BY DEF EmitItem
  <2> HIDE DEF x
  <2> QED BY <1>2, <1>3, <2>1
<1> HIDE DEF S
<1>5. ASSUME NEW p \in FrameFields PROVE Generated(expr, items \o <<x>>, Tail(todo), labels, p)
  <2>1. Generated(expr, items, todo, labels, p)
      OBVIOUS
  <2> QED BY ONLY <1>1, <2>1, GeneratedEmit
<1> HIDE DEF x
<1>6. \A p \in FrameFields : Generated(expr', items', todo', labels', p)
    BY <1>4, <1>5
<1> QED BY <1>6 DEF GenInv

LEMMA GenStutter ==
    ASSUME GenInv, UNCHANGED vars
    PROVE  GenInv'
    BY DEF GenInv, vars

LEMMA GenNext ==
    ASSUME CodegenInv(AllTrees), GenInv, Next
    PROVE  GenInv'
<1>1. CASE phase = "compiling"
  <2>1. \A p \in FrameFields : Generated(expr, items, todo, labels, p)
      BY <1>1 DEF GenInv
  <2>2. CASE CompilePrimitive \/ CompileNot \/ CompileAnd \/ CompileOr \/ EmitItem
      BY <2>1, <2>2, GenPrimitive, GenNot, GenChain, GenEmit
  <2>3. CASE CompileTooDeep
      BY <2>3 DEF CompileTooDeep, GenInv
  <2>4. ~Resolve /\ ~ResolveFails /\ ~Returned
      BY <1>1 DEF Resolve, ResolveFails, Returned, Halted
  <2> QED BY <2>2, <2>3, <2>4 DEF Next
<1>2. CASE phase # "compiling"
  <2>1. Resolve \/ ResolveFails \/ Returned
      BY <1>2 DEF Next, CompileTooDeep, CompilePrimitive, CompileNot, CompileAnd, CompileOr,
             CompileCall, EmitItem
  <2> QED BY <2>1 DEF GenInv, Resolve, ResolveFails, Returned, Halted, vars
<1> QED BY <1>1, <1>2

LEMMA GenParsed ==
    ASSUME FilterInv, CompileParsed
    PROVE  GenInv'
<1>1. /\ phase = "idle" /\ at = "parsed" /\ todo' = Frame(result) /\ labels' = 2
      /\ expr' = result /\ items' = items
    BY DEF CompileParsed
<1>2. ~IsCanned
    BY <1>1 DEF FilterInv, CannedInv
<1>3. CodegenInv(AllTrees) /\ result \in AllTrees
    BY <1>1, <1>2 DEF FilterInv, ParserInv
<1>4. items' = <<>>
    BY <1>1, <1>3 DEF CodegenInv, PhaseInv
<1>5. \A p \in FrameFields : Generated(result, <<>>, Frame(result), 2, p)
    BY <1>3, GeneratedFrame
<1>6. \A p \in FrameFields : Generated(expr', items', todo', labels', p)
    BY <1>1, <1>4, <1>5
<1> QED BY <1>6 DEF GenInv

-----------------------------------------------------------------------------
(* What is to be shown of a program: the answer from an instruction on (v),*)
(* whether that relies on X (x), and whether on the accumulator (k), which *)
(* must then hold a.                                                       *)
JustAt(P, n, cl, p) ==
    /\ P[n].code \in AccLoads =>
           /\ Leads(cl[n], cl[n + 1]) /\ Fits(P[n])
           /\ P[n].code = "ldhx" => cl[n].x = 1
           /\ cl[n + 1].k = 1 => cl[n + 1].a = Value(P[n], p)
    /\ P[n].code = "ldxmsh" => cl[n].v = cl[n + 1].v /\ P[n].k = 14 /\ cl[n + 1].k = 0
    /\ P[n].code \in Jumps =>
           /\ cl[n].k = 1
           /\ Leads(cl[n], cl[n + 1 + Target(P[n], cl[n].a)])
           /\ cl[n + 1 + Target(P[n], cl[n].a)].k = 1 =>
                  cl[n + 1 + Target(P[n], cl[n].a)].a = cl[n].a
    /\ P[n].code = "ret" => (cl[n].v = 1 <=> P[n].k > 0)

Justified(P, cl, p) == \A n \in 1..Len(P) : JustAt(P, n, cl, p)

(* The program P answers e for p.                                          *)
Answers(e, P, p) ==
    \E cl : /\ Justified(P, cl, p)
            /\ cl[1].x = 0 /\ cl[1].k = 0 /\ (cl[1].v = 1 <=> Keeps(e, p))

(* Where the instructions of the resolved program come from.               *)
Origin(pl) ==
    /\ Len(Resolved) = Cardinality(InsnsAt)
    /\ \A n \in 1..Len(Resolved) :
           /\ pl[n] \in InsnsAt /\ InsnsBefore(pl[n]) = n - 1
           /\ Resolved[n] = InsnOf(pl[n])
           /\ pl[n] \in 1..Len(items) /\ items[pl[n]] \in Items
           /\ items[pl[n]].code # "label"
           /\ Resolved[n].code = items[pl[n]].code /\ Resolved[n].k = items[pl[n]].k
           /\ items[pl[n]].code \notin Jumps => Resolved[n] = items[pl[n]]

LEMMA OriginExists ==
    ASSUME items \in Seq(Items)
    PROVE  \E pl : Origin(pl)
<1> DEFINE c == Cardinality(InsnsAt)
           before == [i \in InsnsAt |-> InsnsBefore(i)]
           nth(n) == CHOOSE i \in InsnsAt : before[i] = n - 1
           pl == [n \in 1..c |-> nth(n)]
<1>1. c \in Nat
    BY InsnsCount
<1>2. ASSUME NEW n \in 1..c
      PROVE  nth(n) \in InsnsAt /\ InsnsBefore(nth(n)) = n - 1
  <2>1. \E i \in InsnsAt : InsnsBefore(i) = n - 1
      BY NthInsn
  <2>2. \E i \in InsnsAt : before[i] = n - 1
      BY <2>1
  <2>3. nth(n) \in InsnsAt /\ before[nth(n)] = n - 1
    <3> HIDE DEF before
    <3> QED BY <2>2
  <2> QED BY <2>3
<1>3. Resolved = [n \in 1..c |-> InsnOf(nth(n))]
    BY DEF Resolved
<1> HIDE DEF nth, before, c
<1>4. Len(Resolved) = c
    BY <1>1, <1>3
<1>5. ASSUME NEW i \in InsnsAt
      PROVE  /\ i \in 1..Len(items) /\ items[i] \in Items /\ items[i].code # "label"
             /\ InsnOf(i).code = items[i].code /\ InsnOf(i).k = items[i].k
             /\ items[i].code \notin Jumps => InsnOf(i) = items[i]
  <2>1. i \in DOMAIN items /\ i \in 1..Len(items) /\ items[i] \in Items
        /\ items[i].code # "label"
      BY DEF InsnsAt
  <2>2. CASE i \in JumpsAt
    <3>1. InsnOf(i) = [items[i] EXCEPT !.jt = OffsetTo(@, i), !.jf = OffsetTo(@, i)]
        BY <2>2 DEF InsnOf
    <3>2. items[i].code \in Jumps
        BY <2>2 DEF JumpsAt
    <3>3. InsnOf(i).code = items[i].code /\ InsnOf(i).k = items[i].k
        BY <2>1, <3>1 DEF Items
    <3> QED BY <2>1, <3>2, <3>3
  <2>3. CASE i \notin JumpsAt
      BY <2>1, <2>3 DEF InsnOf
  <2> QED BY <2>2, <2>3
<1>6. ASSUME NEW n \in 1..c
      PROVE  /\ pl[n] \in InsnsAt /\ InsnsBefore(pl[n]) = n - 1
             /\ Resolved[n] = InsnOf(pl[n])
  <2>1. pl[n] = nth(n)
      OBVIOUS
  <2> HIDE DEF pl
  <2> QED BY <1>2, <1>3, <2>1
<1> HIDE DEF pl
<1>7. Origin(pl)
  <2>1. ASSUME NEW n \in 1..c
        PROVE /\ pl[n] \in InsnsAt /\ InsnsBefore(pl[n]) = n - 1
              /\ Resolved[n] = InsnOf(pl[n])
              /\ pl[n] \in 1..Len(items) /\ items[pl[n]] \in Items
              /\ items[pl[n]].code # "label"
              /\ Resolved[n].code = items[pl[n]].code /\ Resolved[n].k = items[pl[n]].k
              /\ items[pl[n]].code \notin Jumps => Resolved[n] = items[pl[n]]
    <3> DEFINE i == pl[n]
    <3>1. i \in InsnsAt /\ InsnsBefore(i) = n - 1 /\ Resolved[n] = InsnOf(i)
        BY <1>6
    <3> HIDE DEF i
    <3>2. /\ i \in InsnsAt /\ InsnsBefore(i) = n - 1
          /\ Resolved[n] = InsnOf(i)
          /\ i \in 1..Len(items) /\ items[i] \in Items
          /\ items[i].code # "label"
          /\ Resolved[n].code = items[i].code /\ Resolved[n].k = items[i].k
          /\ items[i].code \notin Jumps => Resolved[n] = items[i]
        BY <1>5, <3>1
    <3> QED BY <3>2 DEF i
  <2> QED BY <1>4, <2>1 DEF Origin, c
<1> QED BY <1>7

(* A run of labels in front of an instruction has its claim.               *)
LEMMA LabelRun ==
    ASSUME NEW f, NEW q \in Nat, NEW j \in Nat, q <= j,
           \A i \in q..(j - 1) : f[i + 1] = f[i]
    PROVE  f[q] = f[j]
<1> DEFINE S == {d \in Nat : q + d <= j => f[q + d] = f[q]}
<1>1. 0 \in S
    OBVIOUS
<1>2. ASSUME NEW d \in Nat, d \in S PROVE d + 1 \in S
  <2>1. ASSUME q + (d + 1) <= j PROVE f[q + (d + 1)] = f[q]
    <3>1. q + d \in q..(j - 1) /\ (q + d) + 1 = q + (d + 1) /\ q + d <= j
        BY <2>1
    <3>2. f[q + d] = f[q]
        BY <1>2, <3>1
    <3>3. f[(q + d) + 1] = f[q + d]
        BY <3>1
    <3> QED BY <3>1, <3>2, <3>3
  <2> QED BY <2>1
<1>3. Nat \subseteq S
  <2> HIDE DEF S
  <2> QED BY <1>1, <1>2, SetInduction
<1>4. j - q \in Nat /\ q + (j - q) = j
    OBVIOUS
<1>5. j - q \in S
    BY <1>3, <1>4
<1> QED BY <1>4, <1>5

LEMMA Landing ==
    ASSUME items \in Seq(Items), NEW pl, Origin(pl), NEW f, NEW val, NEW k, NEW p,
           Claimed(items, f, val, k, p),
           NEW m \in 1..Len(Resolved), NEW q \in 1..Len(items), InsnsBefore(q) = m - 1
    PROVE  f[q] = f[pl[m]]
<1> DEFINE j == pl[m]
<1>1. j \in 1..Len(items) /\ items[j].code # "label" /\ InsnsBefore(j) = m - 1
    BY DEF Origin
<1> HIDE DEF j
<1>2. m \in Int /\ j \in Nat \ {0} /\ q \in Nat \ {0} /\ j \in Nat /\ q \in Nat
    BY <1>1
<1>3. q <= j
  <2>1. ASSUME j < q PROVE FALSE
    <3>1. InsnsBefore(j) + 1 <= InsnsBefore(q)
        BY <1>1, <1>2, <2>1, InsnsBeforeStrict
    <3> QED BY <1>1, <1>2, <3>1
  <2> QED BY <1>2, <2>1
<1>4. ASSUME NEW i \in q..(j - 1) PROVE f[i + 1] = f[i]
  <2>1. i \in Nat \ {0} /\ i \in Nat /\ i < j /\ q <= i /\ i \in 1..Len(items)
      BY <1>1, <1>2
  <2>2. items[i].code = "label"
    <3>1. ASSUME items[i].code # "label" PROVE FALSE
      <4>1. InsnsBefore(i) + 1 <= InsnsBefore(j) /\ InsnsBefore(q) <= InsnsBefore(i)
          BY <1>2, <2>1, <3>1, InsnsBeforeStrict, InsnsBeforeMonotonic
      <4>2. InsnsBefore(i) \in Nat
          BY <2>1, InsnsBeforeType
      <4> QED BY <1>1, <1>2, <4>1, <4>2
    <3> QED BY <3>1
  <2>3. FlowAt(items, i, f[i], f[i + 1], val, k, p)
      BY <2>1 DEF Claimed
  <2> QED BY <2>2, <2>3 DEF FlowAt
<1>5. f[q] = f[j]
    BY <1>2, <1>3, <1>4, LabelRun
<1> QED BY <1>5 DEF j

(* Where a jump's label stands, and what the resolved jump's offset says.  *)
LEMMA JumpLands ==
    ASSUME NEW L, Fragment(items, {}, L), NEW pl, Origin(pl),
           NEW n \in 1..Len(Resolved), Resolved[n].code \in Jumps, NEW a
    PROVE  \E q \in 1..Len(items) :
              /\ items[q] = Label(Target(items[pl[n]], a))
              /\ InsnsBefore(q) = n + Target(Resolved[n], a)
<1> DEFINE i == pl[n]  l == Target(items[i], a)
<1>1. /\ i \in InsnsAt /\ i \in 1..Len(items) /\ items[i] \in Items
      /\ items[i].code \in Jumps /\ Resolved[n] = InsnOf(i) /\ InsnsBefore(i) = n - 1
      /\ Resolved[n].code = items[i].code /\ Resolved[n].k = items[i].k
    BY DEF Origin
<1> HIDE DEF i
<1>2. items \in Seq(Items) /\ DOMAIN items = 1..Len(items)
    BY DEF Fragment
<1>3. i \in JumpsAt
    BY <1>1, <1>2 DEF JumpsAt
<1>4. /\ Resolved[n].jt = OffsetTo(items[i].jt, i)
      /\ Resolved[n].jf = OffsetTo(items[i].jf, i)
  <2>1. Resolved[n] = [items[i] EXCEPT !.jt = OffsetTo(@, i), !.jf = OffsetTo(@, i)]
      BY <1>1, <1>3 DEF InsnOf
  <2> QED BY <1>1, <2>1 DEF Items
<1>5. Taken(Resolved[n], a) <=> Taken(items[i], a)
    BY <1>1 DEF Taken
<1>6. Target(Resolved[n], a) = OffsetTo(l, i) /\ l \in {items[i].jt, items[i].jf}
    BY <1>4, <1>5 DEF Target
<1>7. l \in Nat
    BY <1>1, <1>6 DEF Items
<1> HIDE DEF l
<1>8. PICK q \in DOMAIN items : q > i /\ items[q] = Label(l)
    BY <1>1, <1>2, <1>6 DEF Fragment
<1>9. Position(l) = InsnsBefore(q)
    BY <1>7, <1>8, PositionOf
<1>10. q \in Nat
    BY <1>2
<1>11. InsnsBefore(q) \in Nat
    BY <1>10, InsnsBeforeType
<1>12. Target(Resolved[n], a) = InsnsBefore(q) - ((n - 1) + 1)
    BY <1>1, <1>6, <1>9 DEF OffsetTo
<1>13. InsnsBefore(q) = n + Target(Resolved[n], a)
    BY <1>11, <1>12
<1> QED BY <1>2, <1>8, <1>13 DEF l, i

(* The claims of the resolved program.                                     *)
Carried(f, pl, p) ==
    [n \in 1..Len(Resolved) |->
        [v |-> f[pl[n]].v, x |-> f[pl[n]].x,
         k |-> IF Resolved[n].code \in Jumps THEN 1 ELSE 0,
         a |-> Value(Resolved[n - 1], p)]]

LEMMA CarriedFacts ==
    ASSUME NEW f, NEW pl, NEW p, NEW n \in 1..Len(Resolved)
    PROVE  /\ Carried(f, pl, p)[n].v = f[pl[n]].v /\ Carried(f, pl, p)[n].x = f[pl[n]].x
           /\ Resolved[n].code \in Jumps => Carried(f, pl, p)[n].k = 1
           /\ Resolved[n].code \notin Jumps => Carried(f, pl, p)[n].k = 0
           /\ Carried(f, pl, p)[n].a = Value(Resolved[n - 1], p)
    BY DEF Carried

LEMMA ResolvedJustified ==
    ASSUME NEW L, Fragment(items, {}, L), L \subseteq Nat,
           items # <<>>, items[Len(items)].code = "ret",
           \A i \in JumpsAt : InRange(i),
           NEW pl, Origin(pl), NEW f, NEW val, NEW k, NEW p, Claimed(items, f, val, k, p),
           NEW n \in 1..Len(Resolved)
    PROVE  JustAt(Resolved, n, Carried(f, pl, p), p)
<1> DEFINE P == Resolved  c == Len(Resolved)  g == Carried(f, pl, p)  i == pl[n]
<1>1. /\ P \in Seq(Items) /\ c > 0 /\ P[c].code = "ret" /\ c \in Nat
      /\ \A m \in 1..c : P[m].code \in Jumps =>
             \A o \in {P[m].jt, P[m].jf} : o \in 0..MaxJump /\ m + 1 + o <= c
      /\ \A m \in 1..c : P[m].code \in Jumps =>
             /\ m > 1 /\ P[m - 1].code \in AccLoads
             /\ \A o \in {P[m].jt, P[m].jf} : P[m + 1 + o].code \notin Jumps
  <2>1. Resolved \in Seq(Items)
      BY ResolvedSound
  <2>2. c \in Nat
      BY <2>1
  <2> QED BY <2>2, ResolvedSound, Zenon
<1>2. /\ i \in InsnsAt /\ InsnsBefore(i) = n - 1 /\ i \in 1..Len(items) /\ items[i] \in Items
      /\ items[i].code # "label" /\ P[n].code = items[i].code /\ P[n].k = items[i].k
      /\ items[i].code \notin Jumps => P[n] = items[i]
    BY DEF Origin
<1>3. FlowAt(items, i, f[i], f[i + 1], val, k, p)
    BY <1>2 DEF Claimed
<1>4. items \in Seq(Items)
    BY DEF Fragment
<1>5. /\ g[n].v = f[i].v /\ g[n].x = f[i].x
      /\ P[n].code \in Jumps => g[n].k = 1
      /\ g[n].a = Value(P[n - 1], p)
    BY CarriedFacts
<1> HIDE DEF g, i, P
<1>6. ASSUME P[n].code \in AccLoads \cup {"ldxmsh"}
      PROVE  /\ n + 1 \in 1..c /\ f[i + 1] = f[pl[n + 1]]
             /\ g[n + 1].v = f[i + 1].v /\ g[n + 1].x = f[i + 1].x
             /\ g[n + 1].a = Value(P[n], p)
             /\ P[n + 1].code \in Jumps => P[n].code \in AccLoads
             /\ P[n + 1].code \notin Jumps => g[n + 1].k = 0
  <2>1. n # c
      BY <1>1, <1>6 DEF AccLoads
  <2>2. n + 1 \in 1..c /\ (n + 1) - 1 = n
      BY <1>1, <2>1 DEF P
  <2>3. i \in Nat \ {0} /\ i + 1 \in 1..Len(items)
    <3>1. items[i].code # "ret"
        BY <1>2, <1>6 DEF AccLoads
    <3>2. i # Len(items)
        BY <3>1
    <3> QED BY <1>2, <1>4, <3>2
  <2>4. InsnsBefore(i + 1) = (n + 1) - 1
    <3>1. InsnsBefore(i + 1) = InsnsBefore(i) + 1
        BY <1>2, <2>3, InsnsBeforeNext
    <3> QED BY <1>2, <3>1
  <2>5. f[i + 1] = f[pl[n + 1]]
      BY <1>4, <2>2, <2>3, <2>4, Landing
  <2>6. /\ g[n + 1].v = f[pl[n + 1]].v /\ g[n + 1].x = f[pl[n + 1]].x
        /\ g[n + 1].a = Value(P[(n + 1) - 1], p)
        /\ P[n + 1].code \notin Jumps => g[n + 1].k = 0
      BY <2>2, CarriedFacts DEF g, P
  <2>7. P[n + 1].code \in Jumps => P[(n + 1) - 1].code \in AccLoads
      BY <1>1, <2>2
  <2> QED BY <2>2, <2>5, <2>6, <2>7
<1>7. CASE P[n].code \in AccLoads
  <2>1. P[n].code \notin Jumps /\ P[n].code # "ret" /\ P[n].code # "ldxmsh"
      BY <1>7 DEF AccLoads, Jumps
  <2>2. P[n] = items[i] /\ Leads(f[i], f[i + 1]) /\ Fits(P[n]) /\ (P[n].code = "ldhx" => f[i].x = 1)
      BY <1>2, <1>3, <1>7, <2>1 DEF FlowAt
  <2>3. Leads(g[n], g[n + 1])
      BY <1>5, <1>6, <1>7, <2>2 DEF Leads
  <2>4. JustAt(P, n, g, p)
      BY <1>5, <1>6, <1>7, <2>1, <2>2, <2>3 DEF JustAt
  <2> QED BY <2>4 DEF P, g
<1>8. CASE P[n].code = "ldxmsh"
  <2>1. P[n].code \notin Jumps /\ P[n].code # "ret" /\ P[n].code \notin AccLoads
      BY <1>8 DEF AccLoads, Jumps
  <2>2. P[n] = items[i] /\ f[i].v = f[i + 1].v /\ P[n].k = 14
      BY <1>2, <1>3, <1>8, <2>1 DEF FlowAt
  <2>3. g[n + 1].k = 0 /\ g[n].v = g[n + 1].v
      BY <1>5, <1>6, <1>8, <2>1, <2>2
  <2>4. JustAt(P, n, g, p)
      BY <1>8, <2>1, <2>2, <2>3 DEF JustAt
  <2> QED BY <2>4 DEF P, g
<1>9. CASE P[n].code = "ret"
  <2>1. P[n].code \notin Jumps /\ P[n].code # "ldxmsh" /\ P[n].code \notin AccLoads
      BY <1>9 DEF AccLoads, Jumps
  <2>2. P[n] = items[i] /\ (f[i].v = 1 <=> P[n].k > 0)
      BY <1>2, <1>3, <1>9, <2>1 DEF FlowAt
  <2>4. JustAt(P, n, g, p)
      BY <1>5, <1>9, <2>1, <2>2 DEF JustAt
  <2> QED BY <2>4 DEF P, g
<1>10. CASE P[n].code \in Jumps
  <2>1. P[n].code # "ret" /\ P[n].code # "ldxmsh" /\ P[n].code \notin AccLoads
      BY <1>10 DEF AccLoads, Jumps
  <2>2. /\ i > 1 /\ items[i - 1].code \in AccLoads
        /\ Leads(f[i], val[Target(items[i], Value(items[i - 1], p))])
      BY <1>2, <1>3, <1>10 DEF FlowAt
  <2>3. n > 1 /\ P[n - 1].code \in AccLoads
      BY <1>1, <1>10 DEF P
  <2>4. P[n - 1] = items[i - 1]
    <3> DEFINE j == pl[n - 1]
    <3>1. n - 1 \in 1..c
        BY <2>3
    <3>2. /\ j \in InsnsAt /\ InsnsBefore(j) = (n - 1) - 1
          /\ P[n - 1].code = items[j].code /\ (items[j].code \notin Jumps => P[n - 1] = items[j])
        BY <3>1 DEF Origin, P
    <3> HIDE DEF j
    <3>3. P[n - 1] = items[j]
        BY <2>3, <3>2 DEF AccLoads, Jumps
    <3>4. i - 1 \in Nat \ {0} /\ (i - 1) + 1 = i /\ i - 1 \in DOMAIN items
        BY <1>2, <1>4, <2>2
    <3>5. items[i - 1].code # "label" /\ i - 1 \in InsnsAt
        BY <2>2, <3>4 DEF InsnsAt, AccLoads
    <3>6. InsnsBefore(i) = InsnsBefore(i - 1) + 1 /\ InsnsBefore(i - 1) \in Nat
      <4> DEFINE h == i - 1
      <4>1. h \in Nat \ {0} /\ h + 1 = i /\ items[h].code # "label" /\ h \in Nat
          BY <3>4, <3>5
      <4> HIDE DEF h
      <4>2. InsnsBefore(i) = InsnsBefore(h) + 1 /\ InsnsBefore(h) \in Nat
          BY <4>1, InsnsBeforeNext, InsnsBeforeType
      <4> QED BY <4>2 DEF h
    <3>7. InsnsBefore(i - 1) = InsnsBefore(j)
        BY <1>2, <3>2, <3>6
    <3>8. \A m, l \in InsnsAt : InsnsBefore(m) = InsnsBefore(l) => m = l
      <4>1. n \in 1..Cardinality(InsnsAt)
          BY DEF Origin
      <4> QED BY <1>4, <4>1, NthInsn
    <3>9. i - 1 = j
        BY <3>2, <3>5, <3>7, <3>8
    <3> QED BY <3>3, <3>9
  <2> DEFINE a == Value(P[n - 1], p)  t == Target(P[n], a)  m == n + 1 + t
  <2>5. PICK q \in 1..Len(items) :
            items[q] = Label(Target(items[i], a)) /\ InsnsBefore(q) = n + t
      BY <1>10, JumpLands DEF i, P
  <2>6. t \in {P[n].jt, P[n].jf}
      BY DEF Target
  <2>7. t \in 0..MaxJump /\ m <= c /\ P[m].code \notin Jumps
      BY <1>1, <1>10, <2>6 DEF P
  <2>8. m \in 1..c /\ m - 1 = n + t
    <3> HIDE DEF t
    <3> QED BY <1>1, <2>7, BpfAssumption
  <2>9. f[q] = f[pl[m]]
    <3> HIDE DEF t, m
    <3>1. InsnsBefore(q) = m - 1
        BY <2>5, <2>8
    <3> QED BY <1>4, <2>8, <3>1, Landing
  <2>10. f[q] = val[Target(items[i], a)]
    <3> DEFINE l == Target(items[i], a)
    <3>1. FlowAt(items, q, f[q], f[q + 1], val, k, p)
        BY DEF Claimed
    <3>2. items[q].code = "label" /\ items[q].jt = l
        BY <2>5 DEF Label
    <3> HIDE DEF l, a
    <3>3. f[q] = val[l]
        BY <3>1, <3>2 DEF FlowAt
    <3> QED BY <3>3 DEF l
  <2>11. Leads(f[i], f[pl[m]])
      BY <2>2, <2>4, <2>9, <2>10
  <2>12. g[m].v = f[pl[m]].v /\ g[m].x = f[pl[m]].x /\ g[m].k = 0
    <3> HIDE DEF t, m, a
    <3> QED BY <2>7, <2>8, CarriedFacts DEF g, P
  <2>13. Leads(g[n], g[m]) /\ g[n].k = 1 /\ g[n].a = a /\ g[m].k # 1
    <3> HIDE DEF t, m
    <3> QED BY <1>5, <1>10, <2>11, <2>12 DEF Leads
  <2>14. m = n + 1 + Target(P[n], g[n].a)
    <3> HIDE DEF a
    <3> QED BY <2>13
  <2>15. JustAt(P, n, g, p)
    <3> HIDE DEF a, t, m
    <3> QED BY <1>10, <2>1, <2>13, <2>14 DEF JustAt
  <2> QED BY <2>15 DEF P, g
<1>11. P[n].code \in AccLoads \cup Jumps \cup {"ldxmsh", "ret"}
    BY <1>2 DEF Items, Codes, AccLoads, Jumps
<1> QED BY <1>7, <1>8, <1>9, <1>10, <1>11

(* Compiled code answers the expression it was compiled from.              *)
LEMMA ResolvedAnswers ==
    ASSUME CodegenInv(AllTrees), GenInv, Resolve, NEW p \in FrameFields
    PROVE  Answers(expr, Resolved, p)
<1>1. phase = "resolving" /\ \A i \in JumpsAt : InRange(i)
    BY DEF Resolve
<1>2. todo = <<>> /\ items # <<>> /\ items[Len(items)].code = "ret" /\ labels \in Nat
    BY <1>1 DEF CodegenInv, PhaseInv
<1>3. PICK L \in SUBSET (1..labels) : Fragment(items, PromisedLabels, L)
    BY DEF CodegenInv, StreamInv
<1>4. PromisedLabels = {} /\ L \subseteq Nat
    BY <1>2 DEF PromisedLabels, PromisedBy
<1>5. Fragment(items, {}, L) /\ items \in Seq(Items)
    BY <1>3, <1>4 DEF Fragment
<1>6. PICK pl : Origin(pl)
    BY <1>5, OriginExists
<1>7. Generated(expr, items, todo, labels, p)
    BY <1>1 DEF GenInv
<1>8. PICK val \in [1..labels -> Claims], c \in Claims, d \in Claims :
          /\ c.x = 0 /\ (c.v = 1 <=> Keeps(expr, p))
          /\ Flow(items, c, d, val, labels, p)
    BY <1>7 DEF Generated
<1>9. PICK f : Claimed(items, f, val, labels, p) /\ f[1] = c
    BY <1>8 DEF Flow
<1> DEFINE g == Carried(f, pl, p)
<1>10. \A n \in 1..Len(Resolved) : JustAt(Resolved, n, g, p)
    BY <1>1, <1>2, <1>4, <1>5, <1>6, <1>9, ResolvedJustified
<1>11. Resolved \in Seq(Items) /\ Len(Resolved) > 0 /\ Resolved[1].code \notin Jumps
  <2>1. /\ Resolved \in Seq(Items) /\ Len(Resolved) > 0
        /\ \A n \in 1..Len(Resolved) : Resolved[n].code \in Jumps => n > 1
      BY <1>1, <1>2, <1>4, <1>5, ResolvedSound
  <2>2. 1 \in 1..Len(Resolved)
      BY <2>1
  <2> QED BY <2>1, <2>2
<1>12. 1 \in 1..Len(Resolved)
    BY <1>11
<1>13. f[1] = f[pl[1]]
  <2>1. 1 \in 1..Len(items)
      BY <1>2, <1>5
  <2>2. InsnsBefore(1) = 1 - 1
    <3>1. {j \in 1..(1 - 1) : items[j].code # "label"} = {}
        OBVIOUS
    <3> QED BY <3>1, FS_EmptySet DEF InsnsBefore
  <2> QED BY <1>5, <1>6, <1>9, <1>12, <2>1, <2>2, Landing
<1>14. g[1].v = f[pl[1]].v /\ g[1].x = f[pl[1]].x /\ g[1].k = 0
    BY <1>11, <1>12, CarriedFacts
<1> HIDE DEF g
<1>15. Justified(Resolved, g, p)
    BY <1>10 DEF Justified
<1> QED BY <1>8, <1>9, <1>13, <1>14, <1>15 DEF Answers

-----------------------------------------------------------------------------
(* The canned programs, instruction by instruction.                        *)
Mark(v, k, a) == [v |-> v, x |-> 0, k |-> k, a |-> a]
Bit(b) == IF b THEN 1 ELSE 0

LEMMA InsnIs ==
    /\ \A c, k : Insn(c, 0, 0, k) = PInsn(c, k)
    /\ \A c, t, f, k : /\ Insn(c, t, f, k).code = c /\ Insn(c, t, f, k).k = k
                       /\ Insn(c, t, f, k).jt = t /\ Insn(c, t, f, k).jf = f
    BY DEF Insn, PInsn

LEMMA JustLoad ==
    ASSUME NEW P, NEW n \in Nat, NEW cl, NEW p, NEW code \in {"ldh", "ldb"}, NEW o \in Nat, o + 4 <= 58,
           P[n] = Insn(code, 0, 0, o), NEW v, NEW a, NEW b, NEW k, cl[n] = Mark(v, 0, a),
           cl[n + 1] = Mark(v, k, b), k = 1 => b = Value(PInsn(code, o), p)
    PROVE  JustAt(P, n, cl, p)
<1>1. P[n] = PInsn(code, o) /\ P[n].code = code
    BY InsnIs
<1>2. code \in AccLoads /\ code # "ldhx" /\ code # "ldxmsh" /\ code \notin Jumps /\ code # "ret"
    BY DEF AccLoads, Jumps
<1>3. Fits(P[n])
    BY <1>1, PlainFits
<1>4. /\ cl[n].v = v /\ cl[n].x = 0 /\ cl[n + 1].v = v /\ cl[n + 1].x = 0 /\ cl[n + 1].k = k
      /\ cl[n + 1].a = b
    BY DEF Mark
<1> QED BY <1>1, <1>2, <1>3, <1>4 DEF JustAt, Leads

LEMMA JustTest ==
    ASSUME NEW P, NEW n \in Nat, NEW cl, NEW p, NEW t \in Nat, NEW f \in Nat, NEW k,
           P[n] = Insn("jeq", t, f, k), NEW v, NEW a, cl[n] = Mark(v, 1, a),
           NEW g, NEW kg, NEW ag, cl[n + 1 + t] = Mark(g, kg, ag),
           NEW h, NEW kh, NEW ah, cl[n + 1 + f] = Mark(h, kh, ah),
           a = k => g = v /\ (kg = 1 => ag = a),
           a # k => h = v /\ (kh = 1 => ah = a)
    PROVE  JustAt(P, n, cl, p)
<1>1. P[n].code = "jeq" /\ P[n].k = k /\ P[n].jt = t /\ P[n].jf = f
    BY InsnIs
<1>2. "jeq" \in Jumps /\ "jeq" \notin AccLoads /\ "jeq" # "ldxmsh" /\ "jeq" # "ret"
    BY DEF AccLoads, Jumps
<1>3. cl[n].v = v /\ cl[n].x = 0 /\ cl[n].k = 1 /\ cl[n].a = a
    BY DEF Mark
<1>4. CASE a = k
  <2>1. Target(P[n], cl[n].a) = t
      BY <1>1, <1>3, <1>4 DEF Target, Taken
  <2>2. cl[n + 1 + t].v = g /\ cl[n + 1 + t].x = 0 /\ cl[n + 1 + t].k = kg /\ cl[n + 1 + t].a = ag
      BY DEF Mark
  <2> QED BY <1>1, <1>2, <1>3, <1>4, <2>1, <2>2 DEF JustAt, Leads
<1>5. CASE a # k
  <2>1. Target(P[n], cl[n].a) = f
      BY <1>1, <1>3, <1>5 DEF Target, Taken
  <2>2. cl[n + 1 + f].v = h /\ cl[n + 1 + f].x = 0 /\ cl[n + 1 + f].k = kh /\ cl[n + 1 + f].a = ah
      BY DEF Mark
  <2> QED BY <1>1, <1>2, <1>3, <1>5, <2>1, <2>2 DEF JustAt, Leads
<1> QED BY <1>4, <1>5

LEMMA JustRet ==
    ASSUME NEW P, NEW n, NEW cl, NEW p, NEW k, P[n] = Insn("ret", 0, 0, k),
           NEW v, NEW kv, NEW a, cl[n] = Mark(v, kv, a), v = 1 <=> k > 0
    PROVE  JustAt(P, n, cl, p)
<1>1. P[n].code = "ret" /\ P[n].k = k
    BY InsnIs
<1>2. "ret" \notin Jumps /\ "ret" \notin AccLoads /\ "ret" # "ldxmsh"
    BY DEF AccLoads, Jumps
<1>3. cl[n].v = v
    BY DEF Mark
<1> QED BY <1>1, <1>2, <1>3 DEF JustAt

(* _ARP and _IP6.                                                          *)
LEMMA EtherTypeAnswers ==
    ASSUME NEW e, NEW type \in Nat, NEW p \in FrameFields, Keeps(e, p) <=> p.eth = type
    PROVE  Answers(e, EtherType(type), p)
<1> DEFINE a1 == Insn("ldh", 0, 0, 12)      a2 == Insn("jeq", 0, 1, type)
           a3 == Insn("ret", 0, 0, ACCEPT_LENGTH)  a4 == Insn("ret", 0, 0, 0)
           P == <<a1, a2, a3, a4>>
           w == Value(PInsn("ldh", 12), p)
           m == Bit(w = type)
           c1 == Mark(m, 0, 0)  c2 == Mark(m, 1, w)  c3 == Mark(1, 0, 0)  c4 == Mark(0, 0, 0)
           cl == <<c1, c2, c3, c4>>
<1>1. P = EtherType(type)
    BY DEF EtherType, Ret
<1>2. w = p.eth
    BY FieldValues
<1>3. (w = type => m = 1) /\ (w # type => m = 0) /\ (m = 1 <=> Keeps(e, p))
    BY <1>2 DEF Bit
<1>4. ACCEPT_LENGTH > 0 /\ ~(0 > 0)
    BY DEF ACCEPT_LENGTH
<1>5. c1.x = 0 /\ c1.k = 0 /\ c1.v = m
    BY DEF Mark
<1> HIDE DEF a1, a2, a3, a4, w, m, c1, c2, c3, c4
<1>6. Len(P) = 4 /\ P[1] = a1 /\ P[2] = a2 /\ P[3] = a3 /\ P[4] = a4
    OBVIOUS
<1>7. cl[1] = c1 /\ cl[2] = c2 /\ cl[3] = c3 /\ cl[4] = c4
    OBVIOUS
<1> HIDE DEF P, cl
<1>8. JustAt(P, 1, cl, p)
  <2>1. cl[1 + 1] = c2 /\ 1 \in Nat /\ 12 \in Nat /\ 12 + 4 <= 58
      BY <1>7
  <2> QED BY <1>6, <1>7, <2>1, JustLoad DEF a1, c1, c2, w
<1>9. JustAt(P, 2, cl, p)
  <2>1. cl[2 + 1 + 0] = c3 /\ cl[2 + 1 + 1] = c4 /\ 2 \in Nat /\ 0 \in Nat /\ 1 \in Nat /\ 0 # 1
      BY <1>7
  <2> QED BY <1>3, <1>6, <1>7, <2>1, JustTest DEF a2, c2, c3, c4
<1>10. JustAt(P, 3, cl, p) /\ JustAt(P, 4, cl, p)
    BY <1>4, <1>6, <1>7, JustRet DEF a3, a4, c3, c4
<1>11. Justified(P, cl, p)
  <2>1. \A n \in 1..4 : n = 1 \/ n = 2 \/ n = 3 \/ n = 4
      OBVIOUS
  <2> QED BY <1>6, <1>8, <1>9, <1>10, <2>1 DEF Justified
<1>12. Answers(e, P, p)
    BY <1>3, <1>5, <1>7, <1>11 DEF Answers
<1> QED BY <1>1, <1>12

(* _TCP and _UDP, which look at a byte they loaded more than once.         *)
LEMMA TransportAnswers ==
    ASSUME NEW e, NEW proto \in {TCP, UDP}, NEW p \in FrameFields,
           Keeps(e, p) <=> Carries(p, proto)
    PROVE  Answers(e, Transport(proto), p)
<1> DEFINE a1 == Insn("ldh", 0, 0, 12)      a2 == Insn("jeq", 0, 5, IPV6)
           a3 == Insn("ldb", 0, 0, 20)      a4 == Insn("jeq", 6, 0, proto)
           a5 == Insn("jeq", 0, 6, FRAGMENT_EXT_HEADER)
           a6 == Insn("ldb", 0, 0, 54)      a7 == Insn("jeq", 3, 4, proto)
           a8 == Insn("jeq", 0, 3, IPV4)
           a9 == Insn("ldb", 0, 0, 23)      a10 == Insn("jeq", 0, 1, proto)
           a11 == Insn("ret", 0, 0, ACCEPT_LENGTH)  a12 == Insn("ret", 0, 0, 0)
           P == <<a1, a2, a3, a4, a5, a6, a7, a8, a9, a10, a11, a12>>
           type == Value(PInsn("ldh", 12), p)
           next == Value(PInsn("ldb", 20), p)
           inner == Value(PInsn("ldb", 54), p)
           v4 == Value(PInsn("ldb", 23), p)
           isInner == Bit(inner = proto)
           isPeek == Bit(next = FRAGMENT_EXT_HEADER /\ inner = proto)
           isV6 == Bit(next = proto \/ (next = FRAGMENT_EXT_HEADER /\ inner = proto))
           isV4 == Bit(v4 = proto)
           isIp == Bit(type = IPV4 /\ v4 = proto)
           m == IF type = IPV6 THEN isV6 ELSE isIp
           c1 == Mark(m, 0, 0)        c2 == Mark(m, 1, type)
           c3 == Mark(isV6, 0, 0)     c4 == Mark(isV6, 1, next)
           c5 == Mark(isPeek, 1, next)
           c6 == Mark(isInner, 0, 0)  c7 == Mark(isInner, 1, inner)
           c8 == Mark(isIp, 1, type)
           c9 == Mark(isV4, 0, 0)     c10 == Mark(isV4, 1, v4)
           c11 == Mark(1, 0, 0)       c12 == Mark(0, 0, 0)
           cl == <<c1, c2, c3, c4, c5, c6, c7, c8, c9, c10, c11, c12>>
<1>1. P = Transport(proto)
    BY DEF Transport, Ret
<1>2. /\ type = p.eth
      /\ p.eth # IPV6 => v4 = p.proto
      /\ p.eth = IPV6 => next = p.proto /\ (p.proto = FRAGMENT_EXT_HEADER => inner = p.inner)
    BY FieldValues
<1>3. proto # FRAGMENT_EXT_HEADER /\ IPV4 # IPV6 /\ ACCEPT_LENGTH > 0 /\ ~(0 > 0) /\ 0 # 1
    BY DEF TCP, UDP, FRAGMENT_EXT_HEADER, IPV4, IPV6, ACCEPT_LENGTH
<1> HIDE DEF type, next, inner, v4
<1>4. /\ inner = proto => isInner = 1
      /\ inner # proto => isInner = 0
      /\ v4 = proto => isV4 = 1
      /\ v4 # proto => isV4 = 0
      /\ next = FRAGMENT_EXT_HEADER => isPeek = isInner
      /\ next # FRAGMENT_EXT_HEADER => isPeek = 0
      /\ next = proto => isV6 = 1
      /\ next # proto => isV6 = isPeek
      /\ type = IPV4 => isIp = isV4
      /\ type # IPV4 => isIp = 0
    BY DEF Bit
<1>5. m = 1 <=> Keeps(e, p)
  <2>1. CASE type = IPV6
    <3>1. m = 1 <=> next = proto \/ (next = FRAGMENT_EXT_HEADER /\ inner = proto)
        BY <1>3, <2>1 DEF Bit
    <3> HIDE DEF m
    <3> QED BY <1>2, <1>3, <2>1, <3>1 DEF Carries
  <2>2. CASE type # IPV6
    <3>1. m = 1 <=> type = IPV4 /\ v4 = proto
        BY <1>3, <2>2 DEF Bit
    <3> HIDE DEF m
    <3> QED BY <1>2, <1>3, <2>2, <3>1 DEF Carries
  <2> QED BY <2>1, <2>2
<1>6. (type = IPV6 => m = isV6) /\ (type # IPV6 => m = isIp)
    OBVIOUS
<1>7. c1.x = 0 /\ c1.k = 0 /\ c1.v = m
    BY DEF Mark
<1> HIDE DEF a1, a2, a3, a4, a5, a6, a7, a8, a9, a10, a11, a12
<1> HIDE DEF isInner, isPeek, isV6, isV4, isIp, m
<1> HIDE DEF c1, c2, c3, c4, c5, c6, c7, c8, c9, c10, c11, c12
<1>8. /\ Len(P) = 12
      /\ P[1] = a1 /\ P[2] = a2 /\ P[3] = a3 /\ P[4] = a4 /\ P[5] = a5 /\ P[6] = a6
      /\ P[7] = a7 /\ P[8] = a8 /\ P[9] = a9 /\ P[10] = a10 /\ P[11] = a11 /\ P[12] = a12
    OBVIOUS
<1>9. /\ cl[1] = c1 /\ cl[2] = c2 /\ cl[3] = c3 /\ cl[4] = c4 /\ cl[5] = c5 /\ cl[6] = c6
      /\ cl[7] = c7 /\ cl[8] = c8 /\ cl[9] = c9 /\ cl[10] = c10 /\ cl[11] = c11 /\ cl[12] = c12
    OBVIOUS
<1> HIDE DEF P, cl
<1>11. JustAt(P, 1, cl, p)
  <2>1. cl[1 + 1] = c2 /\ 1 \in Nat /\ 12 \in Nat /\ 12 + 4 <= 58
      BY <1>9
  <2> QED BY <1>8, <1>9, <2>1, JustLoad DEF a1, c1, c2, type
<1>12. JustAt(P, 2, cl, p)
  <2>1. cl[2 + 1 + 0] = c3 /\ cl[2 + 1 + 5] = c8 /\ 2 \in Nat /\ 0 \in Nat /\ 5 \in Nat
      BY <1>9
  <2> QED BY <1>3, <1>6, <1>8, <1>9, <2>1, JustTest DEF a2, c2, c3, c8
<1>13. JustAt(P, 3, cl, p)
  <2>1. cl[3 + 1] = c4 /\ 3 \in Nat /\ 20 \in Nat /\ 20 + 4 <= 58
      BY <1>9
  <2> QED BY <1>8, <1>9, <2>1, JustLoad DEF a3, c3, c4, next
<1>14. JustAt(P, 4, cl, p)
  <2>1. cl[4 + 1 + 6] = c11 /\ cl[4 + 1 + 0] = c5 /\ 4 \in Nat /\ 0 \in Nat /\ 6 \in Nat
      BY <1>9
  <2> QED BY <1>3, <1>4, <1>8, <1>9, <2>1, JustTest DEF a4, c4, c11, c5
<1>15. JustAt(P, 5, cl, p)
  <2>1. cl[5 + 1 + 0] = c6 /\ cl[5 + 1 + 6] = c12 /\ 5 \in Nat /\ 0 \in Nat /\ 6 \in Nat
      BY <1>9
  <2> QED BY <1>3, <1>4, <1>8, <1>9, <2>1, JustTest DEF a5, c5, c6, c12
<1>16. JustAt(P, 6, cl, p)
  <2>1. cl[6 + 1] = c7 /\ 6 \in Nat /\ 54 \in Nat /\ 54 + 4 <= 58
      BY <1>9
  <2> QED BY <1>8, <1>9, <2>1, JustLoad DEF a6, c6, c7, inner
<1>17. JustAt(P, 7, cl, p)
  <2>1. cl[7 + 1 + 3] = c11 /\ cl[7 + 1 + 4] = c12 /\ 7 \in Nat /\ 3 \in Nat /\ 4 \in Nat
      BY <1>9
  <2> QED BY <1>3, <1>4, <1>8, <1>9, <2>1, JustTest DEF a7, c7, c11, c12
<1>18. JustAt(P, 8, cl, p)
  <2>1. cl[8 + 1 + 0] = c9 /\ cl[8 + 1 + 3] = c12 /\ 8 \in Nat /\ 0 \in Nat /\ 3 \in Nat
      BY <1>9
  <2> QED BY <1>3, <1>4, <1>8, <1>9, <2>1, JustTest DEF a8, c8, c9, c12
<1>19. JustAt(P, 9, cl, p)
  <2>1. cl[9 + 1] = c10 /\ 9 \in Nat /\ 23 \in Nat /\ 23 + 4 <= 58
      BY <1>9
  <2> QED BY <1>8, <1>9, <2>1, JustLoad DEF a9, c9, c10, v4
<1>20. JustAt(P, 10, cl, p)
  <2>1. cl[10 + 1 + 0] = c11 /\ cl[10 + 1 + 1] = c12 /\ 10 \in Nat /\ 0 \in Nat /\ 1 \in Nat
      BY <1>9
  <2> QED BY <1>3, <1>4, <1>8, <1>9, <2>1, JustTest DEF a10, c10, c11, c12
<1>21. JustAt(P, 11, cl, p) /\ JustAt(P, 12, cl, p)
    BY <1>3, <1>8, <1>9, JustRet DEF a11, a12, c11, c12
<1>22. Justified(P, cl, p)
  <2>1. \A n \in 1..12 : \/ n = 1 \/ n = 2 \/ n = 3 \/ n = 4 \/ n = 5 \/ n = 6
                         \/ n = 7 \/ n = 8 \/ n = 9 \/ n = 10 \/ n = 11 \/ n = 12
      OBVIOUS
  <2> QED BY <1>8, <1>11, <1>12, <1>13, <1>14, <1>15, <1>16, <1>17, <1>18, <1>19, <1>20,
             <1>21, <2>1 DEF Justified
<1>23. Answers(e, P, p)
    BY <1>5, <1>7, <1>9, <1>22 DEF Answers
<1> QED BY <1>1, <1>23

LEMMA CannedAnswers ==
    ASSUME NEW name \in DOMAIN CANNED_FILTERS, NEW p \in FrameFields
    PROVE  Answers(Proto(name), CANNED_FILTERS[name], p)
<1>1. name \in {"tcp", "udp", "arp", "ip6"}
    BY DEF CANNED_FILTERS
<1>2. Keeps(Proto(name), p) <=> MatchesProto(name, p)
    BY <1>1, KeepsEquations DEF Protocols
<1>3. CASE name = "tcp"
  <2>1. CANNED_FILTERS[name] = Transport(TCP)
      BY <1>3 DEF CANNED_FILTERS
  <2>2. Keeps(Proto(name), p) <=> Carries(p, TCP)
      BY <1>2, <1>3 DEF MatchesProto
  <2> QED BY <2>1, <2>2, TransportAnswers
<1>4. CASE name = "udp"
  <2>1. CANNED_FILTERS[name] = Transport(UDP)
      BY <1>4 DEF CANNED_FILTERS
  <2>2. Keeps(Proto(name), p) <=> Carries(p, UDP)
      BY <1>2, <1>4 DEF MatchesProto
  <2> QED BY <2>1, <2>2, TransportAnswers
<1>5. CASE name = "arp"
  <2>1. CANNED_FILTERS[name] = EtherType(ARP) /\ ARP \in Nat
      BY <1>5 DEF CANNED_FILTERS, ARP
  <2>2. Keeps(Proto(name), p) <=> p.eth = ARP
      BY <1>2, <1>5 DEF MatchesProto
  <2> QED BY <2>1, <2>2, EtherTypeAnswers
<1>6. CASE name = "ip6"
  <2>1. CANNED_FILTERS[name] = EtherType(IPV6) /\ IPV6 \in Nat
      BY <1>6 DEF CANNED_FILTERS, IPV6
  <2>2. Keeps(Proto(name), p) <=> p.eth = IPV6
      BY <1>2, <1>6 DEF MatchesProto
  <2> QED BY <2>1, <2>2, EtherTypeAnswers
<1> QED BY <1>1, <1>3, <1>4, <1>5, <1>6

-----------------------------------------------------------------------------
(* The machine, somewhere in a program that answers the expression: what   *)
(* the instructions from here on rely on holds.                            *)
Relies(c) == /\ c.v = 1 <=> Keeps(expr, frame)
             /\ c.x = 1 => idx = HeaderBytes(frame)
             /\ c.k = 1 => acc = c.a

RunInv == running => /\ frame \in FrameFields /\ verdict = -1
                     /\ \E cl : Justified(program, cl, frame) /\ Relies(cl[pc])

AnswerInv == /\ phase = "done" => \A p \in FrameFields : Answers(expr, program, p)
             /\ phase # "done" => ~running /\ verdict = -1

(* The verdict, with port N as _compile_port takes it.                     *)
KeptRight == verdict >= 0 => /\ verdict > 0 => Keeps(expr, frame)
                             /\ Complete(frame) => (verdict > 0 <=> Keeps(expr, frame))

VerdictInv == GenInv /\ AnswerInv /\ RunInv /\ KeptRight

LEMMA VerdictInit == FilterInit => VerdictInv
    BY DEF FilterInit, VerdictInv, GenInv, AnswerInv, RunInv, KeptRight

(* A step that leaves the machine and its program alone.                   *)
LEMMA SameMachine ==
    ASSUME VerdictInv, UNCHANGED vm, phase = "done" => UNCHANGED <<phase, expr, program>>,
           phase # "done" => phase' # "done" \/ \A p \in FrameFields : Answers(expr', program', p)
    PROVE  AnswerInv' /\ RunInv' /\ KeptRight'
<1>0. UNCHANGED <<frame, pc, acc, idx, running, verdict>>
    BY DEF vm
<1>1. CASE phase = "done"
    BY <1>0, <1>1 DEF VerdictInv, AnswerInv, RunInv, Relies, KeptRight
<1>2. CASE phase # "done"
  <2>1. ~running' /\ verdict' = -1
      BY <1>0, <1>2 DEF VerdictInv, AnswerInv
  <2>2. RunInv' /\ KeptRight'
      BY <2>1 DEF RunInv, KeptRight
  <2>3. AnswerInv'
      BY <1>2, <2>1 DEF AnswerInv
  <2> QED BY <2>2, <2>3
<1> QED BY <1>1, <1>2

LEMMA VerdictCompiler ==
    ASSUME FilterInv, VerdictInv,
           UseCanned \/ ParseText \/ CompileParsed \/ Rejected, UNCHANGED vm
    PROVE  VerdictInv'
<1>1. CASE UseCanned
  <2>1. /\ IsCanned /\ phase = "idle" /\ phase' = "done" /\ expr' = Proto(source[1].t)
        /\ program' = CANNED_FILTERS[source[1].t]
      BY <1>1 DEF UseCanned
  <2>2. \A p \in FrameFields : Answers(expr', program', p)
      BY <2>1, CannedAnswers DEF IsCanned
  <2>3. AnswerInv' /\ RunInv' /\ KeptRight'
      BY <2>1, <2>2, SameMachine
  <2>4. GenInv'
      BY <2>1 DEF GenInv
  <2> QED BY <2>3, <2>4 DEF VerdictInv
<1>2. CASE ParseText \/ Rejected
  <2>1. UNCHANGED vars
      BY <1>2 DEF ParseText, Rejected, compiler
  <2>2. UNCHANGED <<expr, todo, items, labels, phase, program>>
      BY <2>1 DEF vars
  <2>3. AnswerInv' /\ RunInv' /\ KeptRight'
      BY <2>2, SameMachine
  <2>4. GenInv'
      BY <2>1, GenStutter DEF VerdictInv
  <2> QED BY <2>3, <2>4 DEF VerdictInv
<1>3. CASE CompileParsed
  <2>1. phase = "idle" /\ phase' = "compiling"
      BY <1>3 DEF CompileParsed
  <2>2. AnswerInv' /\ RunInv' /\ KeptRight'
      BY <2>1, SameMachine
  <2>3. GenInv'
      BY <1>3, GenParsed
  <2> QED BY <2>2, <2>3 DEF VerdictInv
<1> QED BY <1>1, <1>2, <1>3

LEMMA VerdictGenerator ==
    ASSUME FilterInv, VerdictInv, Next, UNCHANGED vm
    PROVE  VerdictInv'
<1>1. CASE phase \in {"idle", "done"}
  <2>1. UNCHANGED vars
      BY <1>1 DEF Next, CompileTooDeep, CompilePrimitive, CompileNot, CompileAnd, CompileOr,
             CompileCall, EmitItem, Resolve, ResolveFails, Returned
  <2>2. UNCHANGED <<expr, todo, items, labels, phase, program>>
      BY <2>1 DEF vars
  <2>3. AnswerInv' /\ RunInv' /\ KeptRight'
      BY <2>2, SameMachine
  <2>4. GenInv'
      BY <2>1, GenStutter DEF VerdictInv
  <2> QED BY <2>3, <2>4 DEF VerdictInv
<1>2. CASE phase \notin {"idle", "done"}
  <2>1. CodegenInv(AllTrees)
      BY <1>2 DEF FilterInv, CannedInv
  <2>2. GenInv'
      BY <2>1, GenNext DEF VerdictInv
  <2>3. phase' # "done" \/ \A p \in FrameFields : Answers(expr', program', p)
    <3>1. CASE Resolve
      <4>1. program' = Resolved /\ expr' = expr
          BY <3>1 DEF Resolve
      <4> QED BY <2>1, <3>1, <4>1, ResolvedAnswers DEF VerdictInv
    <3>2. CASE ~Resolve
        BY <1>2, <3>2 DEF Next, CompileTooDeep, CompilePrimitive, CompileNot, CompileAnd,
               CompileOr, CompileCall, Chain, EmitItem, ResolveFails, Returned, vars
    <3> QED BY <3>1, <3>2
  <2>4. AnswerInv' /\ RunInv' /\ KeptRight'
      BY <1>2, <2>3, SameMachine
  <2> QED BY <2>2, <2>4 DEF VerdictInv
<1> QED BY <1>1, <1>2

(* What a step of the machine leaves alone.                                *)
LEMMA SameProgram ==
    ASSUME VerdictInv, UNCHANGED compiler, phase = "done"
    PROVE  /\ GenInv' /\ AnswerInv'
           /\ UNCHANGED <<expr, phase, program>>
<1>1. UNCHANGED vars
    BY DEF compiler
<1>2. UNCHANGED <<expr, phase, program>>
    BY <1>1 DEF vars
<1>3. GenInv'
    BY <1>1, GenStutter DEF VerdictInv
<1>4. AnswerInv'
    BY <1>2 DEF VerdictInv, AnswerInv
<1> QED BY <1>2, <1>3, <1>4

LEMMA VerdictDeliver ==
    ASSUME FilterInv, VerdictInv, NEW p \in Frames, Deliver(p)
    PROVE  VerdictInv'
<1>1. /\ phase = "done" /\ frame' = p /\ pc' = 1 /\ verdict' = -1 /\ UNCHANGED compiler
    BY DEF Deliver
<1>2. GenInv' /\ AnswerInv' /\ UNCHANGED <<expr, phase, program>>
    BY <1>1, SameProgram
<1>3. p \in FrameFields
    BY FramesAssumption
<1>4. Answers(expr, program, p)
    BY <1>1, <1>3 DEF VerdictInv, AnswerInv
<1>5. PICK cl : /\ Justified(program, cl, p)
                /\ cl[1].x = 0 /\ cl[1].k = 0 /\ (cl[1].v = 1 <=> Keeps(expr, p))
    BY <1>4 DEF Answers
<1>6. Justified(program', cl, frame') /\ Relies(cl[pc])'
  <2>1. Justified(program', cl, frame')
      BY <1>1, <1>2, <1>5
  <2>2. cl[pc'].x = 0 /\ cl[pc'].k = 0 /\ (cl[pc'].v = 1 <=> Keeps(expr', frame'))
      BY <1>1, <1>2, <1>5
  <2>3. 0 # 1
      OBVIOUS
  <2> QED BY <2>1, <2>2, <2>3 DEF Relies
<1>7. RunInv'
    BY <1>1, <1>3, <1>6 DEF RunInv
<1>8. KeptRight'
    BY <1>1 DEF KeptRight
<1> QED BY <1>2, <1>7, <1>8 DEF VerdictInv

(* The instruction at pc and what is claimed there.                        *)
LEMMA AtPc ==
    ASSUME FilterInv, VerdictInv, running
    PROVE  /\ phase = "done" /\ frame \in FrameFields /\ pc \in Nat /\ verdict = -1
           /\ program[pc] \in Items
           /\ \E cl : /\ Justified(program, cl, frame) /\ JustAt(program, pc, cl, frame)
                      /\ Relies(cl[pc])
<1>1. phase = "done" /\ pc \in 1..Len(program)
    BY DEF FilterInv, VmInv
<1>2. program \in Seq(Items)
    BY <1>1, ProgramClosed DEF Closed
<1>3. /\ frame \in FrameFields /\ verdict = -1
      /\ \E cl : Justified(program, cl, frame) /\ Relies(cl[pc])
    BY DEF VerdictInv, RunInv
<1>4. \A cl : Justified(program, cl, frame) => JustAt(program, pc, cl, frame)
    BY <1>1 DEF Justified
<1> QED BY <1>1, <1>2, <1>3, <1>4

LEMMA VerdictJump ==
    ASSUME FilterInv, VerdictInv, StepJump
    PROVE  VerdictInv'
<1> DEFINE i == program[pc]
<1>1. /\ running /\ i.code \in Jumps
      /\ pc' = pc + 1 + (IF Taken(i, acc) THEN i.jt ELSE i.jf)
      /\ UNCHANGED <<frame, acc, idx, running, verdict>> /\ UNCHANGED compiler
    BY DEF StepJump, At
<1>2. phase = "done" /\ frame \in FrameFields /\ verdict = -1
    BY <1>1, AtPc
<1>3. PICK cl : /\ Justified(program, cl, frame) /\ JustAt(program, pc, cl, frame)
                /\ Relies(cl[pc])
    BY <1>1, AtPc
<1>4. GenInv' /\ AnswerInv' /\ UNCHANGED <<expr, phase, program>>
    BY <1>1, <1>2, SameProgram
<1>5. /\ cl[pc].k = 1 /\ Leads(cl[pc], cl[pc + 1 + Target(i, cl[pc].a)])
      /\ cl[pc + 1 + Target(i, cl[pc].a)].k = 1 =>
             cl[pc + 1 + Target(i, cl[pc].a)].a = cl[pc].a
    BY <1>1, <1>3 DEF JustAt
<1>6. acc = cl[pc].a
    BY <1>3, <1>5 DEF Relies
<1>7. pc' = pc + 1 + Target(i, cl[pc].a)
    BY <1>1, <1>6 DEF Target
<1>8. /\ Leads(cl[pc], cl[pc']) /\ (cl[pc'].k = 1 => cl[pc'].a = cl[pc].a)
    BY <1>5, <1>7
<1>9. Relies(cl[pc])'
    BY <1>1, <1>3, <1>4, <1>6, <1>8 DEF Relies, Leads
<1>10. Justified(program', cl, frame')
    BY <1>1, <1>3, <1>4
<1>11. RunInv'
    BY <1>1, <1>2, <1>9, <1>10 DEF RunInv
<1>12. KeptRight'
    BY <1>1, <1>2 DEF KeptRight
<1> QED BY <1>4, <1>11, <1>12 DEF VerdictInv

LEMMA VerdictRet ==
    ASSUME FilterInv, VerdictInv, StepRet
    PROVE  VerdictInv'
<1> DEFINE i == program[pc]
<1>1. /\ running /\ i.code = "ret" /\ running' = FALSE /\ verdict' = i.k
      /\ frame' = frame /\ UNCHANGED compiler
    BY DEF StepRet, At
<1>2. phase = "done" /\ i \in Items
    BY <1>1, AtPc
<1>3. PICK cl : /\ Justified(program, cl, frame) /\ JustAt(program, pc, cl, frame)
                /\ Relies(cl[pc])
    BY <1>1, AtPc
<1>4. GenInv' /\ AnswerInv' /\ UNCHANGED <<expr, phase, program>>
    BY <1>1, <1>2, SameProgram
<1>5. Keeps(expr, frame) <=> i.k > 0
    BY <1>1, <1>3 DEF JustAt, Relies
<1>6. KeptRight'
    BY <1>1, <1>4, <1>5 DEF KeptRight
<1>7. RunInv'
    BY <1>1 DEF RunInv
<1> QED BY <1>4, <1>6, <1>7 DEF VerdictInv

(* Where a load looks: at a fixed offset, or behind the header X gives.    *)
LEMMA LoadPlace ==
    ASSUME FilterInv, VerdictInv, running, program[pc].code \in Loads,
           NEW cl, JustAt(program, pc, cl, frame), Relies(cl[pc])
    PROVE  LET i == program[pc] IN
           /\ OffsetOf(i) = i.k + Shift(i, frame)
           /\ i.code \in AccLoads => Load(frame, OffsetOf(i), SizeOf(i.code)) = Value(i, frame)
           /\ i.code = "ldxmsh" => OffsetOf(i) = 14 /\ SizeOf(i.code) = 1
           /\ Complete(frame) => OffsetOf(i) + SizeOf(i.code) <= frame.len
<1> DEFINE i == program[pc]
<1>1. i \in Items /\ frame \in FrameFields
    BY AtPc
<1>2. i.k \in Nat /\ i.code \in {"ldh", "ldb", "ldw", "ldhx", "ldxmsh"}
    BY <1>1 DEF Items, Loads, AccLoads
<1>3. HeaderBytes(frame) \in Nat /\ HeaderBytes(frame) <= 4 * frame.ihl /\ frame.ihl \in Nat
      /\ frame.len \in Nat
    BY <1>1, HeaderLength, FieldTypes
<1>4. i.code \in AccLoads => Fits(i) /\ (i.code = "ldhx" => cl[pc].x = 1)
    BY DEF JustAt
<1>5. i.code = "ldxmsh" => i.k = 14
    BY DEF JustAt
<1>6. i.code = "ldhx" => idx = HeaderBytes(frame)
    BY <1>4 DEF Relies, AccLoads
<1> HIDE DEF i
<1>7. OffsetOf(i) = i.k + Shift(i, frame)
    BY <1>6 DEF OffsetOf, Shift
<1>8. CASE i.code = "ldhx"
  <2>1. /\ OffsetOf(i) = i.k + HeaderBytes(frame) /\ SizeOf(i.code) = 2 /\ i.k <= 16
        /\ i.code # "ldxmsh"
      BY <1>4, <1>7, <1>8 DEF Shift, SizeOf, Fits, AccLoads
  <2>2. Complete(frame) => OffsetOf(i) + SizeOf(i.code) <= frame.len
      BY <1>2, <1>3, <2>1 DEF Complete
  <2>3. Load(frame, OffsetOf(i), SizeOf(i.code)) = Value(i, frame)
      BY <1>7 DEF Value
  <2> QED BY <1>7, <2>1, <2>2, <2>3 DEF i
<1>9. CASE i.code = "ldxmsh"
  <2>1. /\ OffsetOf(i) = 14 + 0 /\ SizeOf(i.code) = 1 /\ i.code \notin AccLoads
      BY <1>5, <1>7, <1>9 DEF Shift, SizeOf, AccLoads
  <2>2. Complete(frame) => OffsetOf(i) + SizeOf(i.code) <= frame.len
      BY <1>3, <2>1 DEF Complete
  <2> QED BY <1>7, <2>1, <2>2 DEF i
<1>10. CASE i.code \in {"ldh", "ldb", "ldw"}
  <2>1. /\ OffsetOf(i) = i.k + 0 /\ i.k + SizeOf(i.code) <= 58 /\ i.code # "ldxmsh"
        /\ SizeOf(i.code) \in Nat
      BY <1>4, <1>7, <1>10 DEF Shift, SizeOf, Fits, AccLoads
  <2>2. Complete(frame) => OffsetOf(i) + SizeOf(i.code) <= frame.len
    <3> DEFINE z == SizeOf(i.code)
    <3>1. OffsetOf(i) = i.k + 0 /\ i.k + z <= 58 /\ z \in Nat
        BY <2>1
    <3> HIDE DEF z
    <3>2. Complete(frame) => OffsetOf(i) + z <= frame.len
        BY <1>2, <1>3, <3>1 DEF Complete
    <3> QED BY <3>2 DEF z
  <2>3. Load(frame, OffsetOf(i), SizeOf(i.code)) = Value(i, frame)
      BY <1>7 DEF Value
  <2> QED BY <1>7, <2>1, <2>2, <2>3 DEF i
<1> QED BY <1>2, <1>8, <1>9, <1>10

LEMMA VerdictLoad ==
    ASSUME FilterInv, VerdictInv, StepLoad
    PROVE  VerdictInv'
<1> DEFINE i == program[pc]  value == Load(frame, OffsetOf(i), SizeOf(i.code))
<1>1. /\ running /\ i.code \in Loads /\ pc' = pc + 1
      /\ i.code = "ldxmsh" => idx' = 4 * (value % 16) /\ acc' = acc
      /\ i.code # "ldxmsh" => acc' = value /\ idx' = idx
      /\ UNCHANGED <<frame, running, verdict>> /\ UNCHANGED compiler
    BY DEF StepLoad, At
<1>2. phase = "done" /\ frame \in FrameFields /\ verdict = -1
    BY <1>1, AtPc
<1>3. PICK cl : /\ Justified(program, cl, frame) /\ JustAt(program, pc, cl, frame)
                /\ Relies(cl[pc])
    BY <1>1, AtPc
<1>4. GenInv' /\ AnswerInv' /\ UNCHANGED <<expr, phase, program>>
    BY <1>1, <1>2, SameProgram
<1>5. /\ i.code \in AccLoads => value = Value(i, frame)
      /\ i.code = "ldxmsh" => OffsetOf(i) = 14 /\ SizeOf(i.code) = 1
    BY <1>1, <1>3, LoadPlace
<1>6. i.code # "ldxmsh" => i.code \in AccLoads
    BY <1>1 DEF Loads
<1>7. Relies(cl[pc])'
  <2>1. CASE i.code = "ldxmsh"
    <3>1. idx' = HeaderBytes(frame) /\ acc' = acc
        BY <1>1, <1>5, <2>1 DEF HeaderBytes
    <3>2. cl[pc].v = cl[pc + 1].v /\ cl[pc + 1].k = 0
        BY <1>3, <2>1 DEF JustAt
    <3>3. cl[pc'].v = cl[pc].v /\ cl[pc'].k # 1
        BY <1>1, <3>2
    <3> QED BY <1>1, <1>3, <1>4, <3>1, <3>3 DEF Relies
  <2>2. CASE i.code # "ldxmsh"
    <3>1. /\ Leads(cl[pc], cl[pc + 1])
          /\ cl[pc + 1].k = 1 => cl[pc + 1].a = Value(i, frame)
        BY <1>3, <1>6, <2>2 DEF JustAt
    <3>2. acc' = Value(i, frame) /\ idx' = idx
        BY <1>1, <1>5, <1>6, <2>2
    <3>3. Leads(cl[pc], cl[pc']) /\ (cl[pc'].k = 1 => cl[pc'].a = acc')
        BY <1>1, <3>1, <3>2
    <3> QED BY <1>1, <1>3, <1>4, <3>2, <3>3 DEF Relies, Leads
  <2> QED BY <2>1, <2>2
<1>8. Justified(program', cl, frame')
    BY <1>1, <1>3, <1>4
<1>9. RunInv'
    BY <1>1, <1>2, <1>7, <1>8 DEF RunInv
<1>10. KeptRight'
    BY <1>1, <1>2 DEF KeptRight
<1> QED BY <1>4, <1>9, <1>10 DEF VerdictInv

LEMMA VerdictOutside ==
    ASSUME FilterInv, VerdictInv, StepLoadOutside
    PROVE  VerdictInv'
<1> DEFINE i == program[pc]
<1>1. /\ running /\ i.code \in Loads /\ running' = FALSE /\ verdict' = 0
      /\ OffsetOf(i) + SizeOf(i.code) > frame.len
      /\ frame' = frame /\ UNCHANGED compiler
    BY DEF StepLoadOutside, At
<1>2. phase = "done" /\ frame \in FrameFields /\ i \in Items
    BY <1>1, AtPc
<1>3. PICK cl : /\ Justified(program, cl, frame) /\ JustAt(program, pc, cl, frame)
                /\ Relies(cl[pc])
    BY <1>1, AtPc
<1>4. GenInv' /\ AnswerInv' /\ UNCHANGED <<expr, phase, program>>
    BY <1>1, <1>2, SameProgram
<1>5. /\ OffsetOf(i) = i.k + Shift(i, frame)
      /\ Complete(frame) => OffsetOf(i) + SizeOf(i.code) <= frame.len
    BY <1>1, <1>3, LoadPlace
<1>6. /\ OffsetOf(i) \in Nat /\ SizeOf(i.code) \in Nat /\ frame.len \in Nat
  <2>1. HeaderBytes(frame) \in Nat /\ frame.len \in Nat
      BY <1>2, HeaderLength, FieldTypes
  <2>2. i.k \in Nat /\ i.code \in {"ldh", "ldb", "ldw", "ldhx", "ldxmsh"}
      BY <1>1, <1>2 DEF Items, Loads, AccLoads
  <2> HIDE DEF i
  <2>3. SizeOf(i.code) \in Nat
      BY <2>2 DEF SizeOf
  <2>4. Shift(i, frame) \in Nat
      BY <2>1 DEF Shift
  <2> QED BY <1>5, <2>1, <2>2, <2>3, <2>4
<1>7. ~Complete(frame)
  <2> DEFINE a == OffsetOf(i)  b == SizeOf(i.code)  c == frame.len
  <2>1. a \in Nat /\ b \in Nat /\ c \in Nat /\ a + b > c
      BY <1>1, <1>6
  <2>2. Complete(frame) => a + b <= c
      BY <1>5
  <2> HIDE DEF a, b, c
  <2> QED BY <2>1, <2>2
<1>8. KeptRight'
  <2>1. frame' = frame /\ verdict' = 0 /\ ~(0 > 0)
      BY <1>1
  <2> QED BY <1>7, <2>1 DEF KeptRight
<1>9. RunInv'
    BY <1>1 DEF RunInv
<1> QED BY <1>4, <1>8, <1>9 DEF VerdictInv

LEMMA VerdictStutter == VerdictInv /\ UNCHANGED <<compiler, vm>> => VerdictInv'
<1> SUFFICES ASSUME VerdictInv, UNCHANGED <<compiler, vm>> PROVE VerdictInv'
    OBVIOUS
<1>1. UNCHANGED vars /\ UNCHANGED vm
    BY DEF compiler
<1>2. UNCHANGED <<expr, todo, items, labels, phase, program>>
    BY <1>1 DEF vars
<1>3. AnswerInv' /\ RunInv' /\ KeptRight'
    BY <1>1, <1>2, SameMachine
<1> QED BY <1>1, <1>3, GenStutter DEF VerdictInv

(* A filter never lies about a frame of IPv4 or IPv6, whatever the         *)
(* expression and whatever the frame: a complete frame is kept if and only *)
(* if it matches, and one cut short is kept only if it matches; and so for *)
(* every other frame when the expression does not hang on its having       *)
(* ports.  This is the whole way from the parsed expression through        *)
(* _compile's continuation labels and _resolve's offsets to the verdict of *)
(* the machine.                                                            *)
THEOREM VerdictsHold == FilterSpec => []VerdictCorrect
<1>1. FilterInit => VerdictInv
    BY VerdictInit
<1>2. FilterInv /\ VerdictInv /\ [FilterNext]_<<compiler, vm>> => VerdictInv'
  <2> SUFFICES ASSUME FilterInv, VerdictInv, [FilterNext]_<<compiler, vm>>
               PROVE  VerdictInv'
      OBVIOUS
  <2>1. CASE (UseCanned \/ ParseText \/ CompileParsed \/ Rejected) /\ UNCHANGED vm
      BY <2>1, VerdictCompiler
  <2>2. CASE Next /\ UNCHANGED parserVars /\ UNCHANGED vm
      BY <2>2, VerdictGenerator
  <2>3. CASE \E p \in Frames : Deliver(p)
      BY <2>3, VerdictDeliver
  <2>4. CASE StepLoad \/ StepLoadOutside \/ StepJump \/ StepRet
      BY <2>4, VerdictLoad, VerdictOutside, VerdictJump, VerdictRet
  <2>5. CASE UNCHANGED <<compiler, vm>>
      BY <2>5, VerdictStutter
  <2> QED BY <2>1, <2>2, <2>3, <2>4, <2>5 DEF FilterNext
<1>3. VerdictInv => VerdictCorrect
  <2> SUFFICES ASSUME VerdictInv, verdict >= 0,
                      frame.eth \in {IPV4, IPV6} \/ Indifferent(expr, frame)
               PROVE  /\ verdict > 0 => Matches(expr, frame)
                      /\ Complete(frame) => (verdict > 0 <=> Matches(expr, frame))
      BY DEF VerdictCorrect
  <2>1. Keeps(expr, frame) <=> Matches(expr, frame)
      BY KeepsMatches
  <2> QED BY <2>1 DEF VerdictInv, KeptRight
<1> QED BY <1>1, <1>2, <1>3, FilterInductive, PTL DEF FilterSpec

-----------------------------------------------------------------------------
(* The grammar as equations.  A table gives the trees of each symbol and   *)
(* span; Derived is a table that one more application of the rules leaves  *)
(* as it is.                                                               *)
Applied(d) == [x \in {"or", "and", "not"} \X Nat \X Nat |->
    CASE x[1] = "or"  -> ChainTrees(d, "or", "and", x[2], x[3])
      [] x[1] = "and" -> ChainTrees(d, "and", "not", x[2], x[3])
      [] x[1] = "not" -> NotTrees(d, x[2], x[3])]

LEMMA AppliedAt ==
    ASSUME NEW d, NEW i \in Nat, NEW j \in Nat
    PROVE  /\ Applied(d)[<<"or", i, j>>] = ChainTrees(d, "or", "and", i, j)
           /\ Applied(d)[<<"and", i, j>>] = ChainTrees(d, "and", "not", i, j)
           /\ Applied(d)[<<"not", i, j>>] = NotTrees(d, i, j)
<1>1. ASSUME NEW s \in {"or", "and", "not"}
      PROVE  /\ <<s, i, j>> \in {"or", "and", "not"} \X Nat \X Nat
             /\ <<s, i, j>>[1] = s /\ <<s, i, j>>[2] = i /\ <<s, i, j>>[3] = j
    OBVIOUS
<1>2. ASSUME NEW x \in {"or", "and", "not"} \X Nat \X Nat
      PROVE  Applied(d)[x] = CASE x[1] = "or"  -> ChainTrees(d, "or", "and", x[2], x[3])
                  [] x[1] = "and" -> ChainTrees(d, "and", "not", x[2], x[3])
                  [] x[1] = "not" -> NotTrees(d, x[2], x[3])
    BY DEF Applied
<1>3. Applied(d)[<<"or", i, j>>] = ChainTrees(d, "or", "and", i, j)
    BY <1>1, <1>2
<1>4. Applied(d)[<<"and", i, j>>] = ChainTrees(d, "and", "not", i, j)
    BY <1>1, <1>2
<1>5. Applied(d)[<<"not", i, j>>] = NotTrees(d, i, j)
    BY <1>1, <1>2
<1> QED BY <1>3, <1>4, <1>5

Pair(word, l, r) == [op |-> word, left |-> l, right |-> r]

InChain(d, word, operand, i, j, t) ==
    \/ t \in d[<<operand, i, j>>]
    \/ \E n \in i..(j - 1) : \E l \in d[<<word, i, n>>], r \in d[<<operand, n + 1, j>>] :
           WordAt(n) = word /\ t = Pair(word, l, r)

LEMMA ChainMember ==
    ASSUME NEW d, NEW word, NEW operand, NEW i \in Nat, NEW j \in Nat, NEW t
    PROVE  t \in ChainTrees(d, word, operand, i, j) <=> InChain(d, word, operand, i, j, t)
<1> DEFINE A == {m \in i..(j - 1) : WordAt(m) = word}
           J(n) == Joined(d[<<word, i, n>>], word, d[<<operand, n + 1, j>>])
<1>1. ASSUME NEW n PROVE t \in J(n) <=> \E l \in d[<<word, i, n>>], r \in d[<<operand, n + 1, j>>] :
                                          t = Pair(word, l, r)
    BY DEF Joined, Pair
<1>2. ChainTrees(d, word, operand, i, j) = d[<<operand, i, j>>] \cup UNION {J(n) : n \in A}
    BY DEF ChainTrees
<1> HIDE DEF J
<1>3. t \in UNION {J(n) : n \in A} <=> \E n \in A : t \in J(n)
    OBVIOUS
<1> QED BY <1>1, <1>2, <1>3 DEF InChain

LEMMA NotMember ==
    ASSUME NEW d, NEW i \in Nat, NEW j \in Nat, NEW t
    PROVE  t \in NotTrees(d, i, j) <=>
               /\ i < j
               /\ \/ WordAt(i) = "not" /\ \E u \in d[<<"not", i + 1, j>>] : t = Not(u)
                  \/ /\ WordAt(i) # "not" /\ KindAt(i) = "(" /\ KindAt(j - 1) = ")"
                     /\ t \in d[<<"or", i + 1, j - 1>>]
                  \/ /\ WordAt(i) # "not" /\ ~(KindAt(i) = "(" /\ KindAt(j - 1) = ")")
                     /\ t \in PrimitiveTrees(i, j)
    BY DEF NotTrees

(* What a primitive spells is a tree.                                      *)
LEMMA LiteralValue ==
    ASSUME ParserInv, NEW p \in Nat, NEW k \in {"ipv4", "number"}, KindAt(p) = k,
           NEW n \in 1..(IF k = "ipv4" THEN 4 ELSE 1)
    PROVE  Int10(tokens[p].nums[n]) \in Nat
<1> DEFINE nums == tokens[p].nums
           Row == Seq(0..9)
<1>1. nums \in Seq(Row) /\ n \in 1..Len(nums)
    BY KindIs
<1> HIDE DEF nums, Row
<1>2. nums[n] \in Row
    BY <1>1
<1> QED BY <1>2, Int10Nat DEF nums, Row

LEMMA PrimitiveTyped ==
    ASSUME ParserInv, NEW i \in Nat, NEW j \in Nat
    PROVE  PrimitiveTrees(i, j) \subseteq AllTrees
<1> DEFINE dir == IF WordAt(i) \in {"src", "dst"} THEN WordAt(i) ELSE "any"
           n == IF dir = "any" THEN i ELSE i + 1
           nums == tokens[n + 1].nums
           addr == Int10(nums[4]) + 256 * (Int10(nums[3]) + 256 *
                       (Int10(nums[2]) + 256 * Int10(nums[1])))
<1>1. dir \in Dirs /\ n \in Nat /\ n + 1 \in Nat
    BY DEF Dirs
<1> HIDE DEF dir, n
<1>2. KindAt(n + 1) = "ipv4" => addr \in Nat
  <2> SUFFICES ASSUME KindAt(n + 1) = "ipv4" PROVE addr \in Nat
      OBVIOUS
  <2>1. ASSUME NEW k \in 1..4 PROVE Int10(nums[k]) \in Nat
      BY <1>1, LiteralValue
  <2>2. Int10(nums[1]) \in Nat /\ Int10(nums[2]) \in Nat /\ Int10(nums[3]) \in Nat
          /\ Int10(nums[4]) \in Nat
      BY <2>1
  <2> QED BY <2>2
<1>3. KindAt(n + 1) = "number" => Int10(nums[1]) \in Nat
    BY <1>1, LiteralValue
<1> DEFINE port == Int10(nums[1])
           octets == \A k \in 1..4 : Int10(nums[k]) \in 0..255
           isHost == WordAt(n) = "host" /\ KindAt(n + 1) = "ipv4" /\ octets
           inRange == port \in 0..65535
           isPort == WordAt(n) = "port" /\ KindAt(n + 1) = "number" /\ inRange
<1>4. PrimitiveTrees(i, j) =
        CASE j = i + 1 /\ WordAt(i) \in Protocols -> {Proto(WordAt(i))}
          [] j = n + 2 /\ isHost -> {Host(addr, dir)}
          [] j = n + 2 /\ isPort -> {Port(port, dir)}
          [] OTHER -> {}
    BY DEF PrimitiveTrees, n, dir
<1>5. /\ WordAt(i) \in Protocols => Proto(WordAt(i)) \in AllTrees
      /\ addr \in Nat => Host(addr, dir) \in AllTrees
      /\ port \in Nat => Port(port, dir) \in AllTrees
  <2> HIDE DEF addr, port
  <2> QED BY <1>1, TreesClosed
<1>8. (isHost => KindAt(n + 1) = "ipv4") /\ (isPort => KindAt(n + 1) = "number")
  <2> HIDE DEF octets, inRange, addr, nums
  <2>1. ASSUME isHost PROVE KindAt(n + 1) = "ipv4"
      BY <2>1
  <2>2. ASSUME isPort PROVE KindAt(n + 1) = "number"
      BY <2>2
  <2> HIDE DEF isHost, isPort
  <2> QED BY <2>1, <2>2
<1>6. KindAt(n + 1) = "number" => port \in Nat
    BY <1>3
<1> HIDE DEF addr, nums, port
<1> SUFFICES ASSUME NEW t \in PrimitiveTrees(i, j) PROVE t \in AllTrees
    OBVIOUS
<1> HIDE DEF isHost, isPort
<1>7. \/ WordAt(i) \in Protocols /\ t = Proto(WordAt(i))
      \/ KindAt(n + 1) = "ipv4" /\ t = Host(addr, dir)
      \/ KindAt(n + 1) = "number" /\ t = Port(port, dir)
    BY <1>4, <1>8
<1> QED BY <1>2, <1>5, <1>6, <1>7

-----------------------------------------------------------------------------
(* The rules are monotonic, so that a least table exists that they leave   *)
(* as it is.                                                               *)
Tables == [{"or", "and", "not"} \X Nat \X Nat -> SUBSET AllTrees]
Within(d, e) == \A x \in {"or", "and", "not"} \X Nat \X Nat : d[x] \subseteq e[x]

LEMMA WithinAt ==
    ASSUME NEW d, NEW e, Within(d, e), NEW s \in {"or", "and", "not"},
           NEW i \in Nat, NEW j \in Nat
    PROVE  d[<<s, i, j>>] \subseteq e[<<s, i, j>>]
    BY DEF Within

LEMMA ChainMonotonic ==
    ASSUME NEW d, NEW e, Within(d, e), NEW word \in {"or", "and"},
           NEW operand \in {"and", "not"}, NEW i \in Nat, NEW j \in Nat
    PROVE  ChainTrees(d, word, operand, i, j) \subseteq ChainTrees(e, word, operand, i, j)
<1> SUFFICES ASSUME NEW t \in ChainTrees(d, word, operand, i, j)
             PROVE  t \in ChainTrees(e, word, operand, i, j)
    OBVIOUS
<1>0. \/ t \in d[<<operand, i, j>>]
      \/ \E n \in i..(j - 1) : \E l \in d[<<word, i, n>>], r \in d[<<operand, n + 1, j>>] :
             WordAt(n) = word /\ t = Pair(word, l, r)
  <2>1. t \in ChainTrees(d, word, operand, i, j)
      OBVIOUS
  <2>2. InChain(d, word, operand, i, j, t)
      BY <2>1, ChainMember
  <2> QED BY <2>2 DEF InChain
<1>1. CASE t \in d[<<operand, i, j>>]
  <2>1. InChain(e, word, operand, i, j, t)
      BY <1>1, WithinAt DEF InChain
  <2> QED BY <2>1, ChainMember
<1>2. ASSUME NEW n \in i..(j - 1), NEW l \in d[<<word, i, n>>],
             NEW r \in d[<<operand, n + 1, j>>],
             WordAt(n) = word, t = Pair(word, l, r)
      PROVE  t \in ChainTrees(e, word, operand, i, j)
  <2>1. n \in Nat /\ n + 1 \in Nat
      OBVIOUS
  <2>2. l \in e[<<word, i, n>>] /\ r \in e[<<operand, n + 1, j>>]
      BY <2>1, WithinAt
  <2>3. InChain(e, word, operand, i, j, t)
      BY <1>2, <2>2 DEF InChain
  <2> QED BY <2>3, ChainMember
<1> QED BY <1>0, <1>1, <1>2

LEMMA NotMonotonic ==
    ASSUME NEW d, NEW e, Within(d, e), NEW i \in Nat, NEW j \in Nat
    PROVE  NotTrees(d, i, j) \subseteq NotTrees(e, i, j)
<1> SUFFICES ASSUME NEW t \in NotTrees(d, i, j) PROVE t \in NotTrees(e, i, j)
    OBVIOUS
<1>0. t \in NotTrees(d, i, j)
    OBVIOUS
<1>1. i < j /\ i + 1 \in Nat /\ j - 1 \in Nat
  <2>1. i < j
      BY <1>0, NotMember
  <2> QED BY <2>1
<1>2. /\ d[<<"not", i + 1, j>>] \subseteq e[<<"not", i + 1, j>>]
      /\ d[<<"or", i + 1, j - 1>>] \subseteq e[<<"or", i + 1, j - 1>>]
    BY <1>1, WithinAt
<1> QED BY <1>0, <1>2, NotMember, SMTT(30)

LEMMA AppliedMonotonic ==
    ASSUME NEW d, NEW e, Within(d, e)
    PROVE  Within(Applied(d), Applied(e))
<1> SUFFICES ASSUME NEW x \in {"or", "and", "not"} \X Nat \X Nat
             PROVE  Applied(d)[x] \subseteq Applied(e)[x]
    BY DEF Within
<1>1. PICK s \in {"or", "and", "not"}, i \in Nat, j \in Nat : x = <<s, i, j>>
    OBVIOUS
<1>2. CASE s = "or"
  <2>1. x = <<"or", i, j>>
      BY <1>1, <1>2
  <2>2. Applied(d)[x] = ChainTrees(d, "or", "and", i, j) /\ Applied(e)[x] = ChainTrees(e, "or", "and", i, j)
      BY <2>1, AppliedAt, ZenonT(60)
  <2>3. ChainTrees(d, "or", "and", i, j) \subseteq ChainTrees(e, "or", "and", i, j)
      BY ChainMonotonic
  <2> QED BY <2>2, <2>3
<1>3. CASE s = "and"
  <2>1. x = <<"and", i, j>>
      BY <1>1, <1>3
  <2>2. Applied(d)[x] = ChainTrees(d, "and", "not", i, j) /\ Applied(e)[x] = ChainTrees(e, "and", "not", i, j)
      BY <2>1, AppliedAt, ZenonT(60)
  <2>3. ChainTrees(d, "and", "not", i, j) \subseteq ChainTrees(e, "and", "not", i, j)
      BY ChainMonotonic
  <2> QED BY <2>2, <2>3
<1>4. CASE s = "not"
  <2>1. x = <<"not", i, j>>
      BY <1>1, <1>4
  <2>2. Applied(d)[x] = NotTrees(d, i, j) /\ Applied(e)[x] = NotTrees(e, i, j)
      BY <2>1, AppliedAt
  <2>3. NotTrees(d, i, j) \subseteq NotTrees(e, i, j)
      BY NotMonotonic
  <2> QED BY <2>2, <2>3
<1> QED BY <1>2, <1>3, <1>4

LEMMA PairTyped ==
    ASSUME NEW word \in {"or", "and"}, NEW l \in AllTrees, NEW r \in AllTrees
    PROVE  Pair(word, l, r) \in AllTrees
<1>1. And(l, r) \in AllTrees /\ Or(l, r) \in AllTrees
    BY TreesClosed
<1>2. CASE word = "or"
    BY <1>1, <1>2 DEF Pair, Or
<1>3. CASE word = "and"
    BY <1>1, <1>3 DEF Pair, And
<1> QED BY <1>2, <1>3

(* Trees of a chain, and of a not_expr, if what they are made of is.       *)
LEMMA ChainTyped ==
    ASSUME NEW d, NEW word \in {"or", "and"}, NEW operand, NEW i \in Nat, NEW j \in Nat,
           d[<<operand, i, j>>] \subseteq AllTrees,
           \A n \in i..(j - 1) : /\ d[<<word, i, n>>] \subseteq AllTrees
                                 /\ d[<<operand, n + 1, j>>] \subseteq AllTrees
    PROVE  ChainTrees(d, word, operand, i, j) \subseteq AllTrees
<1> SUFFICES ASSUME NEW t \in ChainTrees(d, word, operand, i, j) PROVE t \in AllTrees
    OBVIOUS
<1>1. ASSUME NEW n \in i..(j - 1), NEW l \in d[<<word, i, n>>],
             NEW r \in d[<<operand, n + 1, j>>], t = Pair(word, l, r)
      PROVE  t \in AllTrees
  <2>1. l \in AllTrees /\ r \in AllTrees
      OBVIOUS
  <2> QED BY <1>1, <2>1, PairTyped
<1>2. t \in ChainTrees(d, word, operand, i, j)
    OBVIOUS
<1>3. InChain(d, word, operand, i, j, t)
    BY <1>2, ChainMember
<1> QED BY <1>1, <1>3 DEF InChain

LEMMA NotTyped ==
    ASSUME ParserInv, NEW d, NEW i \in Nat, NEW j \in Nat,
           i < j => /\ d[<<"not", i + 1, j>>] \subseteq AllTrees
                    /\ d[<<"or", i + 1, j - 1>>] \subseteq AllTrees
    PROVE  NotTrees(d, i, j) \subseteq AllTrees
<1> SUFFICES ASSUME NEW t \in NotTrees(d, i, j) PROVE t \in AllTrees
    OBVIOUS
<1>1. ASSUME NEW u \in d[<<"not", i + 1, j>>], t = Not(u), i < j PROVE t \in AllTrees
    BY <1>1, TreesClosed
<1>2. t \in NotTrees(d, i, j) /\ PrimitiveTrees(i, j) \subseteq AllTrees
    BY PrimitiveTyped
<1> QED BY <1>1, <1>2, NotMember, SMTT(30)

LEMMA AppliedTyped ==
    ASSUME ParserInv, NEW d \in Tables
    PROVE  Applied(d) \in Tables
<1>1. ASSUME NEW s \in {"or", "and", "not"}, NEW i \in Nat, NEW j \in Nat
      PROVE  d[<<s, i, j>>] \subseteq AllTrees
    BY DEF Tables
<1>2. ASSUME NEW i \in Nat, NEW j \in Nat
      PROVE  /\ ChainTrees(d, "or", "and", i, j) \subseteq AllTrees
             /\ ChainTrees(d, "and", "not", i, j) \subseteq AllTrees
             /\ NotTrees(d, i, j) \subseteq AllTrees
  <2>1. \A n \in i..(j - 1) : n \in Nat /\ n + 1 \in Nat
      OBVIOUS
  <2>2. ChainTrees(d, "or", "and", i, j) \subseteq AllTrees
      BY <1>1, <2>1, ChainTyped
  <2>3. ChainTrees(d, "and", "not", i, j) \subseteq AllTrees
      BY <1>1, <2>1, ChainTyped
  <2>4. i < j => i + 1 \in Nat /\ j - 1 \in Nat
      OBVIOUS
  <2>5. NotTrees(d, i, j) \subseteq AllTrees
      BY <1>1, <2>4, NotTyped
  <2> QED BY <2>2, <2>3, <2>5
<1>3. ASSUME NEW x \in {"or", "and", "not"} \X Nat \X Nat
      PROVE  Applied(d)[x] \subseteq AllTrees
  <2>1. PICK s \in {"or", "and", "not"}, i \in Nat, j \in Nat : x = <<s, i, j>>
      OBVIOUS
  <2>2. CASE s = "or"
    <3>1. x = <<"or", i, j>>
        BY <2>1, <2>2
    <3>2. Applied(d)[x] = ChainTrees(d, "or", "and", i, j)
        BY <3>1, AppliedAt
    <3> QED BY <1>2, <3>2
  <2>3. CASE s = "and"
    <3>1. x = <<"and", i, j>>
        BY <2>1, <2>3
    <3>2. Applied(d)[x] = ChainTrees(d, "and", "not", i, j)
        BY <3>1, AppliedAt
    <3> QED BY <1>2, <3>2
  <2>4. CASE s = "not"
    <3>1. x = <<"not", i, j>>
        BY <2>1, <2>4
    <3>2. Applied(d)[x] = NotTrees(d, i, j)
        BY <3>1, AppliedAt
    <3> QED BY <1>2, <3>2
  <2> QED BY <2>2, <2>3, <2>4
<1>4. Applied(d) = [x \in {"or", "and", "not"} \X Nat \X Nat |-> Applied(d)[x]]
    BY DEF Applied
<1> QED BY <1>3, <1>4 DEF Tables

LEMMA LeastTable ==
    ASSUME ParserInv
    PROVE  \E d : d = Applied(d)
<1> DEFINE Dom == {"or", "and", "not"} \X Nat \X Nat
           P == {d \in Tables : Within(Applied(d), d)}
           m == [x \in Dom |-> {t \in AllTrees : \A d \in P : t \in d[x]}]
<1>1. m \in Tables /\ DOMAIN m = Dom
    BY DEF Tables
<1>2. ASSUME NEW d \in P PROVE Within(m, d)
    BY DEF Within
<1>3. ASSUME NEW e \in Tables, \A d \in P : Within(e, d) PROVE Within(e, m)
  <2> SUFFICES ASSUME NEW x \in Dom, NEW t \in e[x] PROVE t \in m[x]
      BY DEF Within
  <2>1. t \in AllTrees
      BY DEF Tables
  <2>2. \A d \in P : t \in d[x]
      BY <1>3 DEF Within
  <2> QED BY <2>1, <2>2
<1> HIDE DEF m
<1>4. Applied(m) \in Tables /\ Applied(Applied(m)) \in Tables
    BY <1>1, AppliedTyped
<1>5. ASSUME NEW d \in P PROVE Within(Applied(m), d)
  <2>1. Within(Applied(m), Applied(d))
      BY <1>2, AppliedMonotonic
  <2>2. Within(Applied(d), d)
      OBVIOUS
  <2> QED BY <2>1, <2>2 DEF Within
<1>6. Within(Applied(m), m)
    BY <1>3, <1>4, <1>5
<1>7. Within(m, Applied(m))
  <2>1. Within(Applied(Applied(m)), Applied(m))
      BY <1>6, AppliedMonotonic
  <2> QED BY <1>2, <1>4, <2>1
<1>8. m = [x \in Dom |-> m[x]] /\ Applied(m) = [x \in Dom |-> Applied(m)[x]]
    BY <1>1, <1>4 DEF Tables
<1>9. ASSUME NEW x \in Dom PROVE m[x] = Applied(m)[x]
    BY <1>6, <1>7 DEF Within
<1>10. m = Applied(m)
  <2> HIDE DEF Dom
  <2> QED BY <1>8, <1>9
<1> QED BY <1>10

LEMMA DerivedEquation ==
    ASSUME ParserInv
    PROVE  Derived = Applied(Derived)
<1>1. PICK d : d = Applied(d)
    BY LeastTable
<1>2. Derived = CHOOSE e : e = Applied(e)
    BY DEF Derived, Applied
<1> QED BY <1>1, <1>2

-----------------------------------------------------------------------------
(* The grammar of the tokens as a value, which does not change while they  *)
(* are parsed,                                                             *)
Grammar == [d |-> Derived,
            word |-> [p \in Nat |-> WordAt(p)],
            kind |-> [p \in Nat |-> KindAt(p)],
            prim |-> [x \in Nat \X Nat |-> PrimitiveTrees(x[1], x[2])],
            end |-> Len(tokens) + 1]

LEMMA SameGrammar ==
    ASSUME tokens' = tokens
    PROVE  Grammar' = Grammar
<1>1. /\ \A p : KindAt(p)' = KindAt(p) /\ WordAt(p)' = WordAt(p)
      /\ Derived' = Derived
      /\ \A i, j : PrimitiveTrees(i, j)' = PrimitiveTrees(i, j)
    BY DEF Derived, ChainTrees, NotTrees, PrimitiveTrees, KindAt, WordAt
<1> QED BY <1>1 DEF Grammar

(* and its rules.                                                          *)
SpelledBy(g, s, i, j) == g.d[<<s, i, j>>]

ChainRule(g, word, operand) ==
    \A i, j \in Nat : \A t :
        t \in SpelledBy(g, word, i, j) <=>
            \/ t \in SpelledBy(g, operand, i, j)
            \/ \E n \in i..(j - 1) :
                   /\ g.word[n] = word
                   /\ \E l \in SpelledBy(g, word, i, n), r \in SpelledBy(g, operand, n + 1, j) :
                          t = Pair(word, l, r)

NotRule(g) ==
    \A i, j \in Nat : \A t :
        t \in SpelledBy(g, "not", i, j) <=>
            /\ i < j
            /\ \/ g.word[i] = "not" /\ \E u \in SpelledBy(g, "not", i + 1, j) : t = Not(u)
               \/ /\ g.word[i] # "not" /\ g.kind[i] = "(" /\ g.kind[j - 1] = ")"
                  /\ t \in SpelledBy(g, "or", i + 1, j - 1)
               \/ /\ g.word[i] # "not" /\ ~(g.kind[i] = "(" /\ g.kind[j - 1] = ")")
                  /\ t \in g.prim[<<i, j>>]

Typed(g) == \A s \in {"or", "and", "not"}, i \in Nat, j \in Nat :
                SpelledBy(g, s, i, j) \subseteq AllTrees

PrimTyped(g) == \A i, j \in Nat : g.prim[<<i, j>>] \subseteq AllTrees

Equations(g) == ChainRule(g, "or", "and") /\ ChainRule(g, "and", "not") /\ NotRule(g)

(* What the kind of a token says of the word it is, and of primitives.     *)
Lexical(g) == /\ g.end \in Nat /\ g.end > 0
              /\ g.word[g.end] = ""
              /\ \A p \in Nat : g.kind[p] # "word" => g.word[p] = ""
              /\ \A p, j \in Nat : g.kind[p] = "(" => g.prim[<<p, j>>] = {}

LEMMA GrammarEquations ==
    ASSUME ParserInv
    PROVE  Equations(Grammar)
<1>1. /\ Grammar.d = Derived
      /\ \A p \in Nat : Grammar.word[p] = WordAt(p) /\ Grammar.kind[p] = KindAt(p)
      /\ \A i, j \in Nat : Grammar.prim[<<i, j>>] = PrimitiveTrees(i, j)
    BY DEF Grammar
<1>2. ASSUME NEW i \in Nat, NEW j \in Nat
      PROVE  /\ Derived[<<"or", i, j>>] = ChainTrees(Derived, "or", "and", i, j)
             /\ Derived[<<"and", i, j>>] = ChainTrees(Derived, "and", "not", i, j)
             /\ Derived[<<"not", i, j>>] = NotTrees(Derived, i, j)
  <2>1. Derived = Applied(Derived)
      BY DerivedEquation
  <2> DEFINE d == Derived
  <2> HIDE DEF d
  <2>2. /\ Applied(d)[<<"or", i, j>>] = ChainTrees(d, "or", "and", i, j)
        /\ Applied(d)[<<"and", i, j>>] = ChainTrees(d, "and", "not", i, j)
        /\ Applied(d)[<<"not", i, j>>] = NotTrees(d, i, j)
      BY AppliedAt
  <2> QED BY <2>1, <2>2 DEF d
<1>6. \A s, i, j : SpelledBy(Grammar, s, i, j) = Derived[<<s, i, j>>]
    BY <1>1 DEF SpelledBy
<1>3. ASSUME NEW word, NEW operand,
             \A i, j \in Nat : Derived[<<word, i, j>>] = ChainTrees(Derived, word, operand, i, j)
      PROVE  ChainRule(Grammar, word, operand)
  <2> SUFFICES ASSUME NEW i \in Nat, NEW j \in Nat, NEW t
               PROVE  t \in SpelledBy(Grammar, word, i, j) <=>
            \/ t \in SpelledBy(Grammar, operand, i, j)
            \/ \E n \in i..(j - 1) :
                   /\ Grammar.word[n] = word
                   /\ \E l \in SpelledBy(Grammar, word, i, n),
                          r \in SpelledBy(Grammar, operand, n + 1, j) : t = Pair(word, l, r)
      BY DEF ChainRule
  <2>1. t \in Derived[<<word, i, j>>] <=> InChain(Derived, word, operand, i, j, t)
      BY <1>3, ChainMember
  <2>2. \A n \in i..(j - 1) : Grammar.word[n] = WordAt(n)
      BY <1>1
  <2> QED BY <1>6, <2>1, <2>2, ZenonT(60) DEF InChain
<1>4. NotRule(Grammar)
  <2> SUFFICES ASSUME NEW i \in Nat, NEW j \in Nat, NEW t
               PROVE  t \in SpelledBy(Grammar, "not", i, j) <=>
            /\ i < j
            /\ \/ /\ Grammar.word[i] = "not"
                  /\ \E u \in SpelledBy(Grammar, "not", i + 1, j) : t = Not(u)
               \/ /\ Grammar.word[i] # "not" /\ Grammar.kind[i] = "("
                  /\ Grammar.kind[j - 1] = ")" /\ t \in SpelledBy(Grammar, "or", i + 1, j - 1)
               \/ /\ Grammar.word[i] # "not"
                  /\ ~(Grammar.kind[i] = "(" /\ Grammar.kind[j - 1] = ")")
                  /\ t \in Grammar.prim[<<i, j>>]
      BY ZenonT(60) DEF NotRule
  <2>1. t \in Derived[<<"not", i, j>>] <=> t \in NotTrees(Derived, i, j)
      BY <1>2
  <2>2. /\ Grammar.word[i] = WordAt(i) /\ Grammar.kind[i] = KindAt(i)
        /\ Grammar.prim[<<i, j>>] = PrimitiveTrees(i, j)
        /\ i < j => Grammar.kind[j - 1] = KindAt(j - 1)
    <3>1. i < j => j - 1 \in Nat
        OBVIOUS
    <3> QED BY <1>1, <3>1
  <2>3. t \in NotTrees(Derived, i, j) <=>
          /\ i < j
          /\ \/ WordAt(i) = "not" /\ \E u \in Derived[<<"not", i + 1, j>>] : t = Not(u)
             \/ /\ WordAt(i) # "not" /\ KindAt(i) = "(" /\ KindAt(j - 1) = ")"
                /\ t \in Derived[<<"or", i + 1, j - 1>>]
             \/ /\ WordAt(i) # "not" /\ ~(KindAt(i) = "(" /\ KindAt(j - 1) = ")")
                /\ t \in PrimitiveTrees(i, j)
      BY NotMember
  <2>4. /\ SpelledBy(Grammar, "not", i, j) = Derived[<<"not", i, j>>]
        /\ SpelledBy(Grammar, "not", i + 1, j) = Derived[<<"not", i + 1, j>>]
        /\ SpelledBy(Grammar, "or", i + 1, j - 1) = Derived[<<"or", i + 1, j - 1>>]
      BY <1>6
  <2> QED BY <2>1, <2>2, <2>3, <2>4
<1>5. ChainRule(Grammar, "or", "and") /\ ChainRule(Grammar, "and", "not")
    BY <1>2, <1>3
<1> QED BY <1>4, <1>5 DEF Equations

(* A primitive: its direction, the place behind that, and what it says.    *)
DirAt(i) == IF WordAt(i) \in {"src", "dst"} THEN WordAt(i) ELSE "any"
PastAt(i) == IF DirAt(i) = "any" THEN i ELSE i + 1
OctetAt(n, k) == Int10(tokens[n + 1].nums[k])
OctetsFit(n) == \A k \in 1..4 : OctetAt(n, k) \in 0..255
PortFits(n) == OctetAt(n, 1) \in 0..65535
HostAt(n) == WordAt(n) = "host" /\ KindAt(n + 1) = "ipv4" /\ OctetsFit(n)
PortAt(n) == WordAt(n) = "port" /\ KindAt(n + 1) = "number" /\ PortFits(n)
AddrAt(n) == OctetAt(n, 4) + 256 * (OctetAt(n, 3) + 256 * (OctetAt(n, 2) + 256 * OctetAt(n, 1)))

LEMMA PrimitiveMember ==
    ASSUME NEW i \in Nat, NEW j \in Nat, NEW t
    PROVE  t \in PrimitiveTrees(i, j) <=>
               \/ j = i + 1 /\ WordAt(i) \in Protocols /\ t = Proto(WordAt(i))
               \/ j = PastAt(i) + 2 /\ HostAt(PastAt(i)) /\ t = Host(AddrAt(PastAt(i)), DirAt(i))
               \/ j = PastAt(i) + 2 /\ PortAt(PastAt(i)) /\ t = Port(OctetAt(PastAt(i), 1), DirAt(i))
<1> DEFINE n == PastAt(i)
           a == j = i + 1 /\ WordAt(i) \in Protocols
           b == j = n + 2 /\ HostAt(n)
           c == j = n + 2 /\ PortAt(n)
           host == Host(AddrAt(n), DirAt(i))
           port == Port(OctetAt(n, 1), DirAt(i))
<1>1. PrimitiveTrees(i, j) = CASE a -> {Proto(WordAt(i))} [] b -> {host} [] c -> {port}
                               [] OTHER -> {}
    BY DEF PrimitiveTrees, PastAt, DirAt, HostAt, PortAt, AddrAt, OctetAt, OctetsFit, PortFits
<1>2. n \in Nat
    BY DEF PastAt
<1>3. WordAt(i) \in Protocols => n = i /\ WordAt(n) # "host" /\ WordAt(n) # "port"
    BY DEF PastAt, DirAt, Protocols
<1>4. HostAt(n) => WordAt(n) = "host"
    BY DEF HostAt
<1>5. PortAt(n) => WordAt(n) = "port"
    BY DEF PortAt
<1>6. ~(a /\ b) /\ ~(a /\ c) /\ ~(b /\ c)
  <2> HIDE DEF n
  <2> QED BY <1>3, <1>4, <1>5
<1> HIDE DEF a, b, c, host, port
<1>7. t \in PrimitiveTrees(i, j) <=>
          (a /\ t = Proto(WordAt(i))) \/ (b /\ t = host) \/ (c /\ t = port)
    BY <1>1, <1>6
<1> QED BY <1>7 DEF a, b, c, host, port

LEMMA ParenNoPrimitive ==
    ASSUME NEW i \in Nat, NEW j \in Nat, KindAt(i) = "("
    PROVE  PrimitiveTrees(i, j) = {}
<1>1. WordAt(i) = ""
    BY DEF WordAt
<1>2. PastAt(i) = i
    BY <1>1 DEF PastAt, DirAt
<1>3. WordAt(i) \notin Protocols /\ ~HostAt(PastAt(i)) /\ ~PortAt(PastAt(i))
    BY <1>1, <1>2 DEF Protocols, HostAt, PortAt
<1>4. ASSUME NEW t \in PrimitiveTrees(i, j) PROVE FALSE
  <2>1. t \in PrimitiveTrees(i, j)
      OBVIOUS
  <2> QED BY <1>3, <2>1, PrimitiveMember
<1> QED BY <1>4

LEMMA GrammarLexical ==
    ASSUME ParserInv
    PROVE  Lexical(Grammar) /\ PrimTyped(Grammar)
<1>1. /\ \A p \in Nat : Grammar.word[p] = WordAt(p) /\ Grammar.kind[p] = KindAt(p)
      /\ \A i, j \in Nat : Grammar.prim[<<i, j>>] = PrimitiveTrees(i, j)
      /\ Grammar.end = Len(tokens) + 1
    BY DEF Grammar
<1>2. Len(tokens) \in Nat /\ DOMAIN tokens = 1..Len(tokens)
    BY DEF ParserInv
<1>3. Grammar.end \in Nat /\ Grammar.end > 0 /\ Grammar.end \notin DOMAIN tokens
    BY <1>1, <1>2
<1>4. WordAt(Grammar.end) = ""
    BY <1>3 DEF WordAt, KindAt
<1>5. \A p : KindAt(p) # "word" => WordAt(p) = ""
    BY DEF WordAt
<1>6. PrimTyped(Grammar)
    BY <1>1, PrimitiveTyped DEF PrimTyped
<1>7. \A p, j \in Nat : Grammar.kind[p] = "(" => Grammar.prim[<<p, j>>] = {}
    BY <1>1, ParenNoPrimitive
<1> HIDE DEF Grammar
<1> QED BY <1>1, <1>3, <1>4, <1>5, <1>6, <1>7 DEF Lexical

(* Nothing is spelled by no tokens.                                        *)
Spanning(g) == \A s \in {"or", "and", "not"}, i \in Nat, j \in Nat :
                   SpelledBy(g, s, i, j) # {} => i < j

LEMMA SpansForward ==
    ASSUME NEW g, Equations(g)
    PROVE  Spanning(g)
<1> SUFFICES ASSUME NEW i \in Nat, NEW j \in Nat, ~(i < j)
             PROVE  \A s \in {"or", "and", "not"} : SpelledBy(g, s, i, j) = {}
    BY DEF Spanning
<1>1. SpelledBy(g, "not", i, j) = {}
    BY DEF Equations, NotRule
<1>2. i..(j - 1) = {}
    OBVIOUS
<1>3. ASSUME NEW word, NEW operand, ChainRule(g, word, operand),
             SpelledBy(g, operand, i, j) = {}
      PROVE  SpelledBy(g, word, i, j) = {}
    BY <1>2, <1>3 DEF ChainRule
<1>4. SpelledBy(g, "and", i, j) = {}
    BY <1>1, <1>3 DEF Equations
<1>5. SpelledBy(g, "or", i, j) = {}
    BY <1>3, <1>4 DEF Equations
<1> QED BY <1>1, <1>4, <1>5

(* A chain of trees is a tree, as far as its operands and shorter chains   *)
(* are.                                                                    *)
LEMMA ChainOfTrees ==
    ASSUME NEW g, NEW word \in {"or", "and"}, NEW operand, ChainRule(g, word, operand),
           NEW i \in Nat, NEW j \in Nat, SpelledBy(g, operand, i, j) \subseteq AllTrees,
           \A n \in i..(j - 1) : /\ SpelledBy(g, word, i, n) \subseteq AllTrees
                                 /\ SpelledBy(g, operand, n + 1, j) \subseteq AllTrees
    PROVE  SpelledBy(g, word, i, j) \subseteq AllTrees
<1> SUFFICES ASSUME NEW t \in SpelledBy(g, word, i, j) PROVE t \in AllTrees
    OBVIOUS
<1>1. \/ t \in SpelledBy(g, operand, i, j)
      \/ \E n \in i..(j - 1) : \E l \in SpelledBy(g, word, i, n),
             r \in SpelledBy(g, operand, n + 1, j) : t = Pair(word, l, r)
    BY DEF ChainRule
<1>2. ASSUME NEW n \in i..(j - 1), NEW l \in SpelledBy(g, word, i, n),
             NEW r \in SpelledBy(g, operand, n + 1, j), t = Pair(word, l, r)
      PROVE  t \in AllTrees
  <2>1. l \in AllTrees /\ r \in AllTrees
      OBVIOUS
  <2> QED BY <1>2, <2>1, PairTyped
<1> QED BY <1>1, <1>2

LEMMA AllTyped ==
    ASSUME NEW g, Equations(g), PrimTyped(g)
    PROVE  Typed(g)
<1> DEFINE Good(i, j) == \A s \in {"or", "and", "not"} : SpelledBy(g, s, i, j) \subseteq AllTrees
           S == {m \in Nat : \A i, j \in Nat : j <= i + m => Good(i, j)}
<1>1. 0 \in S
  <2> SUFFICES ASSUME NEW i \in Nat, NEW j \in Nat, j <= i + 0, NEW s \in {"or", "and", "not"}
               PROVE  SpelledBy(g, s, i, j) \subseteq AllTrees
      OBVIOUS
  <2> QED BY SpansForward DEF Spanning
<1>2. ASSUME NEW m \in Nat, m \in S PROVE m + 1 \in S
  <2> SUFFICES ASSUME NEW i \in Nat, NEW j \in Nat, j <= i + (m + 1) PROVE Good(i, j)
      OBVIOUS
  <2>0. \A a, b \in Nat : b <= a + m => Good(a, b)
      BY <1>2
  <2>1. CASE ~(i < j)
      BY <2>1, SpansForward DEF Spanning
  <2>2. CASE i < j
    <3>1. /\ i + 1 \in Nat /\ j - 1 \in Nat /\ j <= (i + 1) + m /\ j - 1 <= (i + 1) + m
          /\ \A n \in i..(j - 1) : n \in Nat /\ n + 1 \in Nat /\ n <= i + m /\ j <= (n + 1) + m
        BY <2>2
    <3>2. Good(i + 1, j) /\ Good(i + 1, j - 1)
        BY <2>0, <3>1
    <3>3. \A n \in i..(j - 1) : Good(i, n) /\ Good(n + 1, j)
        BY <2>0, <3>1
    <3>4. SpelledBy(g, "not", i, j) \subseteq AllTrees
      <4> SUFFICES ASSUME NEW t \in SpelledBy(g, "not", i, j) PROVE t \in AllTrees
          OBVIOUS
      <4>1. ASSUME NEW u \in SpelledBy(g, "not", i + 1, j), t = Not(u) PROVE t \in AllTrees
          BY <3>2, <4>1, TreesClosed
      <4>2. g.prim[<<i, j>>] \subseteq AllTrees
          BY DEF PrimTyped
      <4>3. \/ \E u \in SpelledBy(g, "not", i + 1, j) : t = Not(u)
            \/ t \in SpelledBy(g, "or", i + 1, j - 1)
            \/ t \in g.prim[<<i, j>>]
          BY DEF Equations, NotRule
      <4> QED BY <3>2, <4>1, <4>2, <4>3
    <3>5. /\ \A n \in i..(j - 1) : SpelledBy(g, "and", i, n) \subseteq AllTrees
          /\ \A n \in i..(j - 1) : SpelledBy(g, "not", n + 1, j) \subseteq AllTrees
          /\ \A n \in i..(j - 1) : SpelledBy(g, "or", i, n) \subseteq AllTrees
          /\ \A n \in i..(j - 1) : SpelledBy(g, "and", n + 1, j) \subseteq AllTrees
        BY <3>3
    <3>6. SpelledBy(g, "and", i, j) \subseteq AllTrees
        BY <3>4, <3>5, ChainOfTrees DEF Equations
    <3>7. SpelledBy(g, "or", i, j) \subseteq AllTrees
        BY <3>5, <3>6, ChainOfTrees DEF Equations
    <3> QED BY <3>4, <3>6, <3>7
  <2> QED BY <2>1, <2>2
<1> HIDE DEF S
<1>3. Nat \subseteq S
    BY <1>1, <1>2, SetInduction
<1>4. ASSUME NEW i \in Nat, NEW j \in Nat PROVE Good(i, j)
  <2>1. j \in S
      BY <1>3
  <2> QED BY <2>1 DEF S
<1> QED BY <1>4 DEF Typed

Rules(g) == Equations(g) /\ Typed(g) /\ Spanning(g) /\ Lexical(g) /\ PrimTyped(g)

LEMMA GrammarRules ==
    ASSUME ParserInv
    PROVE  Rules(Grammar)
<1>1. Equations(Grammar) /\ Lexical(Grammar) /\ PrimTyped(Grammar)
    BY GrammarEquations, GrammarLexical
<1> DEFINE g == Grammar
<1> HIDE DEF g
<1>2. Equations(g) /\ Lexical(g) /\ PrimTyped(g)
    BY <1>1 DEF g
<1>3. Typed(g) /\ Spanning(g)
    BY <1>2, AllTyped, SpansForward
<1>4. Rules(g)
    BY <1>2, <1>3 DEF Rules
<1> QED BY <1>4 DEF g

-----------------------------------------------------------------------------
(* Any number of steps of a relation R on C: y is in every set that has x  *)
(* and all that R leads to.                                                *)
ClosedUnder(C, R, X) == \A a \in X, b \in C : <<a, b>> \in R => b \in X
Star(C, R, x, y) == \A X \in SUBSET C : x \in X /\ ClosedUnder(C, R, X) => y \in X

LEMMA StarSelf ==
    ASSUME NEW C, NEW R, NEW x
    PROVE  Star(C, R, x, x)
    BY DEF Star

LEMMA StarNext ==
    ASSUME NEW C, NEW R, NEW x, NEW y, NEW z \in C, Star(C, R, x, y), <<y, z>> \in R
    PROVE  Star(C, R, x, z)
    BY DEF Star, ClosedUnder

LEMMA StarFirst ==
    ASSUME NEW C, NEW R, NEW x \in C, NEW y
    PROVE  Star(C, R, x, y) <=> y = x \/ \E z \in C : <<x, z>> \in R /\ Star(C, R, z, y)
<1>1. ASSUME NEW z \in C, <<x, z>> \in R, Star(C, R, z, y) PROVE Star(C, R, x, y)
    BY <1>1 DEF Star, ClosedUnder
<1>2. ASSUME Star(C, R, x, y), y # x
      PROVE  \E z \in C : <<x, z>> \in R /\ Star(C, R, z, y)
  <2> DEFINE X == {a \in C : a = x \/ \E z \in C : <<x, z>> \in R /\ Star(C, R, z, a)}
  <2>1. x \in X /\ X \in SUBSET C
      OBVIOUS
  <2>2. ASSUME NEW a \in X, NEW b \in C, <<a, b>> \in R PROVE b \in X
    <3>1. CASE a = x
      <4>1. Star(C, R, b, b)
          BY StarSelf
      <4> QED BY <2>2, <3>1, <4>1
    <3>2. ASSUME NEW z \in C, <<x, z>> \in R, Star(C, R, z, a) PROVE b \in X
      <4>1. Star(C, R, z, b)
          BY <2>2, <3>2, StarNext
      <4> QED BY <3>2, <4>1
    <3> QED BY <3>1, <3>2
  <2>3. ClosedUnder(C, R, X)
    <3> HIDE DEF X
    <3> QED BY <2>2 DEF ClosedUnder
  <2>4. y \in X
    <3> HIDE DEF X
    <3> QED BY <1>2, <2>1, <2>3 DEF Star
  <2> QED BY <1>2, <2>4
<1>3. y = x => Star(C, R, x, y)
    BY StarSelf
<1> QED BY <1>1, <1>2, <1>3

(* A chain so far and the place behind it; one more word and operand.      *)
Chains == AllTrees \X Nat
Links(g, word, operand) ==
    {z \in Chains \X Chains :
        /\ g.word[z[1][2]] = word
        /\ \E r \in SpelledBy(g, operand, z[1][2] + 1, z[2][2]) : z[2][1] = Pair(word, z[1][1], r)}

Longer(g, word, operand, x, y) == Star(Chains, Links(g, word, operand), x, y)

LEMMA LinkIs ==
    ASSUME NEW g, NEW word, NEW operand, NEW l \in AllTrees, NEW n \in Nat,
           NEW t \in AllTrees, NEW m \in Nat
    PROVE  <<<<l, n>>, <<t, m>>>> \in Links(g, word, operand) <=>
               g.word[n] = word /\ \E r \in SpelledBy(g, operand, n + 1, m) : t = Pair(word, l, r)
    BY DEF Links, Chains

Linked(g, word, operand) == /\ word \in {"or", "and"} /\ operand \in {"and", "not"}
                            /\ ChainRule(g, word, operand)
                            /\ Typed(g) /\ Spanning(g)

LEMMA RulesLinked ==
    ASSUME NEW g, Rules(g)
    PROVE  Linked(g, "or", "and") /\ Linked(g, "and", "not")
    BY DEF Linked, Rules, Equations

LEMMA ShorterSpans ==
    ASSUME NEW g, NEW word, NEW operand, Linked(g, word, operand), NEW i \in Nat, NEW j \in Nat
    PROVE  /\ SpelledBy(g, word, i, j) \subseteq AllTrees
           /\ SpelledBy(g, operand, i, j) \subseteq AllTrees
           /\ SpelledBy(g, word, i, j) # {} => i < j
           /\ SpelledBy(g, operand, i, j) # {} => i < j
           /\ SpelledBy(g, operand, i, j) \subseteq SpelledBy(g, word, i, j)
<1>1. word \in {"or", "and", "not"} /\ operand \in {"or", "and", "not"}
    BY DEF Linked
<1>2. /\ SpelledBy(g, word, i, j) \subseteq AllTrees
      /\ SpelledBy(g, operand, i, j) \subseteq AllTrees
    BY <1>1 DEF Linked, Typed
<1>3. /\ SpelledBy(g, word, i, j) # {} => i < j
      /\ SpelledBy(g, operand, i, j) # {} => i < j
    BY <1>1 DEF Linked, Spanning
<1>4. SpelledBy(g, operand, i, j) \subseteq SpelledBy(g, word, i, j)
    BY DEF Linked, ChainRule
<1> QED BY <1>2, <1>3, <1>4

(* A chain is an operand and any number of words and operands more: the    *)
(* way the loops of _or_expr and _and_expr come by it.                     *)
LEMMA ChainAhead ==
    ASSUME NEW g, NEW word, NEW operand, Linked(g, word, operand),
           NEW i \in Nat, NEW n \in Nat, NEW r \in SpelledBy(g, operand, i, n),
           NEW j \in Nat, NEW t \in AllTrees, Longer(g, word, operand, <<r, n>>, <<t, j>>)
    PROVE  t \in SpelledBy(g, word, i, j)
<1> DEFINE X == {x \in Chains : x[1] \in SpelledBy(g, word, i, x[2])}
           R == Links(g, word, operand)
<1>1. <<r, n>> \in X
    BY ShorterSpans DEF Chains
<1>2. ASSUME NEW a \in X, NEW b \in Chains, <<a, b>> \in R PROVE b \in X
  <2>1. PICK l \in AllTrees, p \in Nat : a = <<l, p>>
      BY DEF Chains
  <2>2. PICK u \in AllTrees, q \in Nat : b = <<u, q>>
      BY DEF Chains
  <2>3. g.word[p] = word /\ \E v \in SpelledBy(g, operand, p + 1, q) : u = Pair(word, l, v)
      BY <1>2, <2>1, <2>2, LinkIs
  <2>4. PICK v \in SpelledBy(g, operand, p + 1, q) : u = Pair(word, l, v)
      BY <2>3
  <2>5. l \in SpelledBy(g, word, i, p)
      BY <2>1
  <2>6. i < p /\ p + 1 < q
      BY <2>4, <2>5, ShorterSpans
  <2>7. p \in i..(q - 1)
      BY <2>6
  <2>8. u \in SpelledBy(g, word, i, q)
      BY <2>3, <2>4, <2>5, <2>7 DEF Linked, ChainRule
  <2> QED BY <2>2, <2>8
<1>3. ClosedUnder(Chains, R, X) /\ X \in SUBSET Chains
  <2>1. X \in SUBSET Chains
      OBVIOUS
  <2> HIDE DEF X, R
  <2> QED BY <1>2, <2>1 DEF ClosedUnder
<1>4. <<t, j>> \in X
  <2> HIDE DEF X
  <2> QED BY <1>1, <1>3 DEF Longer, Star
<1> QED BY <1>4

LEMMA ChainBehind ==
    ASSUME NEW g, NEW word, NEW operand, Linked(g, word, operand), NEW i \in Nat
    PROVE  \A j \in Nat : \A t \in SpelledBy(g, word, i, j) :
               \E n \in Nat : \E r \in SpelledBy(g, operand, i, n) :
                   Longer(g, word, operand, <<r, n>>, <<t, j>>)
<1> DEFINE Has(t, j) == \E n \in Nat : \E r \in SpelledBy(g, operand, i, n) :
                            Longer(g, word, operand, <<r, n>>, <<t, j>>)
           S == {m \in Nat : \A j \in Nat : j <= m => \A t \in SpelledBy(g, word, i, j) : Has(t, j)}
<1>1. 0 \in S
  <2>1. ASSUME NEW j \in Nat, j <= 0, NEW t \in SpelledBy(g, word, i, j) PROVE FALSE
      BY <2>1, ShorterSpans
  <2> QED BY <2>1
<1>2. ASSUME NEW m \in Nat, m \in S PROVE m + 1 \in S
  <2> SUFFICES ASSUME NEW j \in Nat, j <= m + 1, NEW t \in SpelledBy(g, word, i, j)
               PROVE  Has(t, j)
      OBVIOUS
  <2>0. \A k \in Nat : k <= m => \A u \in SpelledBy(g, word, i, k) : Has(u, k)
      BY <1>2
  <2>1. CASE t \in SpelledBy(g, operand, i, j)
      BY <2>1, StarSelf DEF Longer
  <2>2. ASSUME NEW n \in i..(j - 1), g.word[n] = word, NEW l \in SpelledBy(g, word, i, n),
               NEW r \in SpelledBy(g, operand, n + 1, j), t = Pair(word, l, r)
        PROVE  Has(t, j)
    <3>1. n \in Nat /\ n <= m /\ n + 1 \in Nat
        OBVIOUS
    <3>2. Has(l, n)
        BY <2>0, <3>1
    <3>7. PICK k \in Nat : \E u \in SpelledBy(g, operand, i, k) :
              Longer(g, word, operand, <<u, k>>, <<l, n>>)
        BY <3>2
    <3>3. PICK u \in SpelledBy(g, operand, i, k) :
              Longer(g, word, operand, <<u, k>>, <<l, n>>)
        BY <3>7
    <3>4. l \in AllTrees /\ t \in AllTrees
        BY <3>1, ShorterSpans
    <3>5. <<<<l, n>>, <<t, j>>>> \in Links(g, word, operand) /\ <<t, j>> \in Chains
        BY <2>2, <3>1, <3>4, LinkIs DEF Chains
    <3>6. Longer(g, word, operand, <<u, k>>, <<t, j>>)
        BY <3>3, <3>5, StarNext DEF Longer
    <3> QED BY <3>6
  <2>3. \/ t \in SpelledBy(g, operand, i, j)
        \/ \E n \in i..(j - 1) : /\ g.word[n] = word
               /\ \E l \in SpelledBy(g, word, i, n), r \in SpelledBy(g, operand, n + 1, j) :
                      t = Pair(word, l, r)
      BY DEF Linked, ChainRule
  <2> QED BY <2>1, <2>2, <2>3
<1> HIDE DEF S
<1>3. Nat \subseteq S
    BY <1>1, <1>2, SetInduction
<1>4. ASSUME NEW j \in Nat, NEW t \in SpelledBy(g, word, i, j) PROVE Has(t, j)
  <2>1. j \in S /\ j <= j
      BY <1>3
  <2> QED BY <2>1 DEF S
<1> QED BY <1>4

-----------------------------------------------------------------------------
(* What is left to parse.  An ending <<t, j, e>> says: if the callee       *)
(* returns t and leaves off at j, then the tokens from j on can make the   *)
(* whole text spell e.                                                     *)
Endings == AllTrees \X Nat \X AllTrees

(* Nothing is left, for parse() itself; for a caller, given what is left   *)
(* to the one that called it:                                              *)
AtEnd(g) == {x \in Endings : x[2] = g.end /\ x[3] = x[1]}

ViaNot(F) == {x \in Endings : <<Not(x[1]), x[2], x[3]>> \in F}

ViaParen(g, F) == {x \in Endings : g.kind[x[2]] = ")" /\ <<x[1], x[2] + 1, x[3]>> \in F}

Extended(word, node, t) == IF node = Nil THEN t ELSE Pair(word, node, t)

ViaChain(g, word, operand, node, F) ==
    {x \in Endings : \E y \in Chains :
        /\ Longer(g, word, operand, <<Extended(word, node, x[1]), x[2]>>, y)
        /\ <<y[1], y[2], x[3]>> \in F}

(* The trees the whole text can spell, when a symbol is to be parsed at p, *)
(* or a primitive, or when t is returned at p.                             *)
After(g, s, p, F) == {e \in AllTrees : \E j \in Nat : \E t \in SpelledBy(g, s, p, j) :
                          <<t, j, e>> \in F}
AfterPrim(g, p, F) == {e \in AllTrees : \E j \in Nat : p < j /\ \E t \in g.prim[<<p, j>>] :
                           <<t, j, e>> \in F}
Then(t, p, F) == {e \in AllTrees : <<t, p, e>> \in F}

LEMMA EndingAt ==
    ASSUME NEW g, NEW F, NEW t \in AllTrees, NEW p \in Nat, NEW e \in AllTrees
    PROVE  /\ <<t, p, e>> \in AtEnd(g) <=> p = g.end /\ e = t
           /\ <<t, p, e>> \in ViaNot(F) <=> <<Not(t), p, e>> \in F
           /\ <<t, p, e>> \in ViaParen(g, F) <=> g.kind[p] = ")" /\ <<t, p + 1, e>> \in F
<1>1. <<t, p, e>> \in Endings
    BY DEF Endings
<1> QED BY <1>1 DEF AtEnd, ViaNot, ViaParen

LEMMA EndingVia ==
    ASSUME NEW g, NEW word, NEW operand, NEW node, NEW F,
           NEW t \in AllTrees, NEW p \in Nat, NEW e \in AllTrees
    PROVE  <<t, p, e>> \in ViaChain(g, word, operand, node, F) <=>
               \E u \in AllTrees, m \in Nat :
                   /\ Longer(g, word, operand, <<Extended(word, node, t), p>>, <<u, m>>)
                   /\ <<u, m, e>> \in F
<1>1. <<t, p, e>> \in Endings
    BY DEF Endings
<1>2. <<t, p, e>> \in ViaChain(g, word, operand, node, F) <=>
          \E y \in Chains : /\ Longer(g, word, operand, <<Extended(word, node, t), p>>, y)
                            /\ <<y[1], y[2], e>> \in F
    BY <1>1 DEF ViaChain
<1>3. \A y \in Chains : y[1] \in AllTrees /\ y[2] \in Nat /\ y = <<y[1], y[2]>>
    BY DEF Chains
<1>4. \A u \in AllTrees, m \in Nat : <<u, m>> \in Chains /\ <<u, m>>[1] = u /\ <<u, m>>[2] = m
    BY DEF Chains
<1> QED BY <1>2, <1>3, <1>4, ZenonT(60)

LEMMA NilIsNoTree == Nil \notin AllTrees
<1>1. AllTrees \subseteq Trees(AllTrees)
    BY TreesWellFormed DEF WellFormed
<1>2. \A x \in Trees(AllTrees) : x.op # "nil"
    BY DEF Trees
<1> QED BY <1>1, <1>2 DEF Nil

(* _or_expr and _and_expr call for their first operand.                    *)
LEMMA CallChain ==
    ASSUME NEW g, NEW word, NEW operand, Linked(g, word, operand), NEW p \in Nat, NEW F
    PROVE  After(g, word, p, F) = After(g, operand, p, ViaChain(g, word, operand, Nil, F))
<1> DEFINE V == ViaChain(g, word, operand, Nil, F)
<1>1. ASSUME NEW e \in AllTrees, NEW j \in Nat, NEW t \in SpelledBy(g, word, p, j),
             <<t, j, e>> \in F
      PROVE  e \in After(g, operand, p, V)
  <2>1. PICK n \in Nat : \E r \in SpelledBy(g, operand, p, n) :
            Longer(g, word, operand, <<r, n>>, <<t, j>>)
      BY ChainBehind
  <2>2. PICK r \in SpelledBy(g, operand, p, n) : Longer(g, word, operand, <<r, n>>, <<t, j>>)
      BY <2>1
  <2>3. t \in AllTrees /\ r \in AllTrees
      BY ShorterSpans
  <2>4. Extended(word, Nil, r) = r
      BY DEF Extended
  <2>5. <<r, n, e>> \in V
      BY <1>1, <2>2, <2>3, <2>4, EndingVia
  <2> HIDE DEF V
  <2> QED BY <2>5 DEF After
<1>2. ASSUME NEW e \in AllTrees, NEW n \in Nat, NEW r \in SpelledBy(g, operand, p, n),
             <<r, n, e>> \in V
      PROVE  e \in After(g, word, p, F)
  <2>1. r \in AllTrees
      BY ShorterSpans
  <2>2. Extended(word, Nil, r) = r
      BY DEF Extended
  <2>3. PICK t \in AllTrees, j \in Nat : /\ Longer(g, word, operand, <<r, n>>, <<t, j>>)
                                         /\ <<t, j, e>> \in F
      BY <1>2, <2>1, <2>2, EndingVia
  <2>4. t \in SpelledBy(g, word, p, j)
      BY <2>3, ChainAhead
  <2> QED BY <2>3, <2>4 DEF After
<1> HIDE DEF V
<1>3. \A e \in After(g, word, p, F) : e \in After(g, operand, p, V)
    BY <1>1 DEF After
<1>4. \A e \in After(g, operand, p, V) : e \in After(g, word, p, F)
    BY <1>2 DEF After
<1> QED BY <1>3, <1>4 DEF V

(* Their loops: behind an operand comes the word and one more operand,     *)
(* unless what is left begins with something else.                         *)
Free(g, F, word) == \A x \in Endings : x \in F => g.word[x[2]] # word

LEMMA LoopGoesOn ==
    ASSUME NEW g, NEW word, NEW operand, Linked(g, word, operand), NEW p \in Nat, NEW F,
           NEW node, NEW t \in AllTrees, Extended(word, node, t) \in AllTrees,
           g.word[p] = word, Free(g, F, word)
    PROVE  Then(t, p, ViaChain(g, word, operand, node, F)) =
           After(g, operand, p + 1, ViaChain(g, word, operand, Extended(word, node, t), F))
<1> DEFINE x == Extended(word, node, t)
           V == ViaChain(g, word, operand, node, F)
           W == ViaChain(g, word, operand, x, F)
           R == Links(g, word, operand)
<1>0. /\ x \in AllTrees /\ p + 1 \in Nat /\ <<x, p>> \in Chains
      /\ \A r : Extended(word, x, r) = Pair(word, x, r)
    BY NilIsNoTree DEF Extended, Chains
<1> HIDE DEF x
<1>1. ASSUME NEW e \in AllTrees, <<t, p, e>> \in V PROVE e \in After(g, operand, p + 1, W)
  <2>1. PICK u \in AllTrees, m \in Nat : /\ Longer(g, word, operand, <<x, p>>, <<u, m>>)
                                         /\ <<u, m, e>> \in F
      BY <1>1, EndingVia DEF x
  <2>2. <<u, m>> # <<x, p>>
    <3>1. <<x, p, e>> \notin F
      <4>1. <<x, p, e>> \in Endings /\ <<x, p, e>>[2] = p
          BY <1>0 DEF Endings
      <4> QED BY <4>1 DEF Free
    <3> QED BY <2>1, <3>1
  <2>3. PICK z \in Chains : <<<<x, p>>, z>> \in R /\ Star(Chains, R, z, <<u, m>>)
    <3> HIDE DEF R
    <3>1. Star(Chains, R, <<x, p>>, <<u, m>>)
        BY <2>1 DEF Longer, R
    <3> QED BY <1>0, <2>2, <3>1, StarFirst
  <2>4. PICK v \in AllTrees, j \in Nat : z = <<v, j>>
      BY DEF Chains
  <2>5. PICK r \in SpelledBy(g, operand, p + 1, j) : v = Pair(word, x, r)
      BY <1>0, <2>3, <2>4, LinkIs
  <2>6. r \in AllTrees /\ Longer(g, word, operand, <<Extended(word, x, r), j>>, <<u, m>>)
      BY <1>0, <2>3, <2>4, <2>5, ShorterSpans DEF Longer
  <2>7. <<r, j, e>> \in W
      BY <2>1, <2>6, EndingVia
  <2> HIDE DEF W
  <2> QED BY <2>7 DEF After
<1>2. ASSUME NEW e \in AllTrees, NEW j \in Nat, NEW r \in SpelledBy(g, operand, p + 1, j),
             <<r, j, e>> \in W
      PROVE  <<t, p, e>> \in V
  <2>1. r \in AllTrees
      BY <1>0, ShorterSpans
  <2>2. PICK u \in AllTrees, m \in Nat :
            /\ Longer(g, word, operand, <<Pair(word, x, r), j>>, <<u, m>>)
            /\ <<u, m, e>> \in F
      BY <1>0, <1>2, <2>1, EndingVia
  <2>3. Pair(word, x, r) \in AllTrees
      BY <1>0, <2>1, PairTyped DEF Linked
  <2>4. <<<<x, p>>, <<Pair(word, x, r), j>>>> \in R /\ <<Pair(word, x, r), j>> \in Chains
      BY <1>0, <2>3, LinkIs DEF Chains
  <2>5. Longer(g, word, operand, <<x, p>>, <<u, m>>)
    <3> HIDE DEF R
    <3>1. Star(Chains, R, <<Pair(word, x, r), j>>, <<u, m>>)
        BY <2>2 DEF Longer, R
    <3>2. Star(Chains, R, <<x, p>>, <<u, m>>)
        BY <1>0, <2>4, <3>1, StarFirst
    <3> QED BY <3>2 DEF Longer, R
  <2> QED BY <2>2, <2>5, EndingVia DEF x
<1> HIDE DEF V, W
<1>3. \A e \in Then(t, p, V) : e \in After(g, operand, p + 1, W)
    BY <1>1 DEF Then
<1>4. \A e \in After(g, operand, p + 1, W) : e \in Then(t, p, V)
    BY <1>2 DEF Then, After
<1> QED BY <1>3, <1>4 DEF V, W, x

LEMMA LoopEnds ==
    ASSUME NEW g, NEW word, NEW operand, NEW p \in Nat, NEW F,
           NEW node, NEW t \in AllTrees, Extended(word, node, t) \in AllTrees,
           g.word[p] # word
    PROVE  Then(t, p, ViaChain(g, word, operand, node, F)) = Then(Extended(word, node, t), p, F)
<1> DEFINE x == Extended(word, node, t)
           V == ViaChain(g, word, operand, node, F)
           R == Links(g, word, operand)
<1>0. x \in AllTrees /\ <<x, p>> \in Chains
    BY DEF Chains
<1> HIDE DEF x
<1>1. ASSUME NEW u \in AllTrees, NEW m \in Nat,
             Longer(g, word, operand, <<x, p>>, <<u, m>>)
      PROVE  u = x /\ m = p
  <2>1. ASSUME NEW z \in Chains, <<<<x, p>>, z>> \in R PROVE FALSE
    <3>1. PICK v \in AllTrees, j \in Nat : z = <<v, j>>
        BY DEF Chains
    <3> QED BY <1>0, <2>1, <3>1, LinkIs
  <2> HIDE DEF R
  <2>2. Star(Chains, R, <<x, p>>, <<u, m>>)
      BY <1>1 DEF Longer, R
  <2>3. <<u, m>> = <<x, p>>
      BY <1>0, <2>1, <2>2, StarFirst
  <2> QED BY <2>3
<1>2. Longer(g, word, operand, <<x, p>>, <<x, p>>)
    BY StarSelf DEF Longer
<1>3. \A e \in AllTrees : <<t, p, e>> \in V <=> <<x, p, e>> \in F
  <2> SUFFICES ASSUME NEW e \in AllTrees PROVE <<t, p, e>> \in V <=> <<x, p, e>> \in F
      OBVIOUS
  <2>1. <<t, p, e>> \in V <=>
            \E u \in AllTrees, m \in Nat :
                /\ Longer(g, word, operand, <<x, p>>, <<u, m>>) /\ <<u, m, e>> \in F
      BY EndingVia DEF x
  <2> HIDE DEF V
  <2> QED BY <1>0, <1>1, <1>2, <2>1
<1> HIDE DEF V
<1>4. Then(t, p, V) = Then(x, p, F)
    BY <1>3 DEF Then
<1> QED BY <1>4 DEF V, x

(* _not_expr and _primary: "not", a parenthesis, or a primitive.           *)
LEMMA CallNot ==
    ASSUME NEW g, Rules(g), NEW p \in Nat, NEW F, g.word[p] = "not"
    PROVE  After(g, "not", p, F) = After(g, "not", p + 1, ViaNot(F))
<1>1. ASSUME NEW e \in AllTrees, NEW j \in Nat, NEW t \in SpelledBy(g, "not", p, j),
             <<t, j, e>> \in F
      PROVE  e \in After(g, "not", p + 1, ViaNot(F))
  <2>1. PICK u \in SpelledBy(g, "not", p + 1, j) : t = Not(u)
      BY DEF Rules, Equations, NotRule
  <2>2. u \in AllTrees
      BY DEF Rules, Typed
  <2>3. <<u, j, e>> \in ViaNot(F)
      BY <1>1, <2>1, <2>2, EndingAt
  <2> QED BY <2>3 DEF After
<1>2. ASSUME NEW e \in AllTrees, NEW j \in Nat, NEW u \in SpelledBy(g, "not", p + 1, j),
             <<u, j, e>> \in ViaNot(F)
      PROVE  e \in After(g, "not", p, F)
  <2>1. u \in AllTrees /\ p + 1 < j
      BY DEF Rules, Typed, Spanning
  <2>4. p < j /\ \E v \in SpelledBy(g, "not", p + 1, j) : Not(u) = Not(v)
      BY <2>1
  <2>2. Not(u) \in SpelledBy(g, "not", p, j)
      BY <2>4 DEF Rules, Equations, NotRule
  <2>3. <<Not(u), j, e>> \in F
      BY <1>2, <2>1, EndingAt
  <2> QED BY <2>2, <2>3 DEF After
<1>3. \A e \in After(g, "not", p, F) : e \in After(g, "not", p + 1, ViaNot(F))
    BY <1>1 DEF After
<1>4. \A e \in After(g, "not", p + 1, ViaNot(F)) : e \in After(g, "not", p, F)
    BY <1>2 DEF After
<1> QED BY <1>3, <1>4

LEMMA CallParen ==
    ASSUME NEW g, Rules(g), NEW p \in Nat, NEW F, g.word[p] # "not", g.kind[p] = "("
    PROVE  After(g, "not", p, F) = After(g, "or", p + 1, ViaParen(g, F))
<1>1. ASSUME NEW e \in AllTrees, NEW j \in Nat, NEW t \in SpelledBy(g, "not", p, j),
             <<t, j, e>> \in F
      PROVE  e \in After(g, "or", p + 1, ViaParen(g, F))
  <2>0. g.prim[<<p, j>>] = {}
      BY DEF Rules, Lexical
  <2>1. p < j /\ g.kind[j - 1] = ")" /\ t \in SpelledBy(g, "or", p + 1, j - 1)
      BY <2>0 DEF Rules, Equations, NotRule
  <2> DEFINE k == j - 1
  <2>2. k \in Nat /\ k + 1 = j /\ p + 1 \in Nat
      BY <2>1
  <2>5. g.kind[k] = ")" /\ t \in SpelledBy(g, "or", p + 1, k)
      BY <2>1
  <2> HIDE DEF k
  <2>3. t \in AllTrees
      BY <2>2, <2>5 DEF Rules, Typed
  <2>4. <<t, k, e>> \in ViaParen(g, F)
      BY <1>1, <2>2, <2>3, <2>5, EndingAt
  <2> QED BY <2>2, <2>4, <2>5 DEF After
<1>2. ASSUME NEW e \in AllTrees, NEW j \in Nat, NEW t \in SpelledBy(g, "or", p + 1, j),
             <<t, j, e>> \in ViaParen(g, F)
      PROVE  e \in After(g, "not", p, F)
  <2>1. t \in AllTrees /\ p + 1 < j
      BY DEF Rules, Typed, Spanning
  <2>2. g.kind[j] = ")" /\ <<t, j + 1, e>> \in F
      BY <1>2, <2>1, EndingAt
  <2>3. (j + 1) - 1 = j /\ j + 1 \in Nat /\ p < j + 1
      BY <2>1
  <2>4. t \in SpelledBy(g, "not", p, j + 1)
      BY <2>2, <2>3 DEF Rules, Equations, NotRule
  <2> QED BY <2>2, <2>3, <2>4 DEF After
<1>3. \A e \in After(g, "not", p, F) : e \in After(g, "or", p + 1, ViaParen(g, F))
    BY <1>1 DEF After
<1>4. \A e \in After(g, "or", p + 1, ViaParen(g, F)) : e \in After(g, "not", p, F)
    BY <1>2 DEF After
<1> QED BY <1>3, <1>4

LEMMA CallPrimitive ==
    ASSUME NEW g, Rules(g), NEW p \in Nat, NEW F, g.word[p] # "not", g.kind[p] # "("
    PROVE  After(g, "not", p, F) = AfterPrim(g, p, F)
<1>1. \A j \in Nat : \A t : t \in SpelledBy(g, "not", p, j) <=> p < j /\ t \in g.prim[<<p, j>>]
    BY DEF Rules, Equations, NotRule
<1> QED BY <1>1 DEF After, AfterPrim

(* The first call, and the last return.                                    *)
LEMMA AllAhead ==
    ASSUME NEW g, Rules(g)
    PROVE  After(g, "or", 1, AtEnd(g)) = SpelledBy(g, "or", 1, g.end)
<1>1. g.end \in Nat
    BY DEF Rules, Lexical
<1>2. \A j \in Nat : SpelledBy(g, "or", 1, j) \subseteq AllTrees
    BY DEF Rules, Typed
<1>3. \A j \in Nat : \A t \in SpelledBy(g, "or", 1, j) : \A e \in AllTrees :
          <<t, j, e>> \in AtEnd(g) <=> j = g.end /\ e = t
    BY <1>2, EndingAt
<1>4. ASSUME NEW e \in After(g, "or", 1, AtEnd(g)) PROVE e \in SpelledBy(g, "or", 1, g.end)
    BY <1>3 DEF After
<1>5. ASSUME NEW e \in SpelledBy(g, "or", 1, g.end) PROVE e \in After(g, "or", 1, AtEnd(g))
  <2>1. e \in AllTrees
      BY <1>1, <1>2
  <2>2. <<e, g.end, e>> \in AtEnd(g)
      BY <1>1, <1>3, <2>1
  <2> QED BY <1>1, <2>1, <2>2 DEF After
<1> QED BY <1>4, <1>5

LEMMA AllParsed ==
    ASSUME NEW g, NEW t \in AllTrees, NEW p \in Nat
    PROVE  Then(t, p, AtEnd(g)) = IF p = g.end THEN {t} ELSE {}
<1>1. \A e \in AllTrees : <<t, p, e>> \in AtEnd(g) <=> p = g.end /\ e = t
    BY EndingAt
<1> QED BY <1>1 DEF Then

LEMMA ThenNot ==
    ASSUME NEW t \in AllTrees, NEW p \in Nat, NEW F
    PROVE  Then(t, p, ViaNot(F)) = Then(Not(t), p, F)
    BY EndingAt DEF Then

LEMMA ThenParen ==
    ASSUME NEW g, NEW t \in AllTrees, NEW p \in Nat, NEW F
    PROVE  Then(t, p, ViaParen(g, F)) = IF g.kind[p] = ")" THEN Then(t, p + 1, F) ELSE {}
<1>1. \A e \in AllTrees : <<t, p, e>> \in ViaParen(g, F) <=>
                              g.kind[p] = ")" /\ <<t, p + 1, e>> \in F
    BY EndingAt
<1> QED BY <1>1 DEF Then

(* What an or_expr leaves does not begin with "or" or "and", what an       *)
(* and_expr leaves not with "and".                                         *)
LEMMA FreeAtEnd ==
    ASSUME NEW g, Rules(g)
    PROVE  Free(g, AtEnd(g), "or") /\ Free(g, AtEnd(g), "and")
<1>1. g.word[g.end] = ""
    BY DEF Rules, Lexical
<1> QED BY <1>1 DEF Free, AtEnd

LEMMA FreeParen ==
    ASSUME NEW g, Rules(g), NEW F
    PROVE  Free(g, ViaParen(g, F), "or") /\ Free(g, ViaParen(g, F), "and")
<1>1. ASSUME NEW x \in Endings, x \in ViaParen(g, F) PROVE g.word[x[2]] = ""
  <2>1. x[2] \in Nat
      BY DEF Endings
  <2>2. g.kind[x[2]] = ")"
      BY <1>1 DEF ViaParen
  <2> QED BY <2>1, <2>2 DEF Rules, Lexical
<1> QED BY <1>1 DEF Free

LEMMA FreeChain ==
    ASSUME NEW g, NEW node \in Nodes, NEW F, Free(g, F, "and")
    PROVE  Free(g, ViaChain(g, "or", "and", node, F), "and")
<1> SUFFICES ASSUME NEW x \in Endings, x \in ViaChain(g, "or", "and", node, F),
                    g.word[x[2]] = "and"
             PROVE  FALSE
    BY DEF Free
<1>1. PICK t \in AllTrees, p \in Nat, e \in AllTrees : x = <<t, p, e>>
    BY DEF Endings
<1> DEFINE y == Extended("or", node, t)
<1>2. y \in AllTrees
  <2>1. CASE node = Nil
      BY <2>1 DEF Extended
  <2>2. CASE node # Nil
      BY <2>2, PairTyped DEF Extended, Nodes
  <2> QED BY <2>1, <2>2
<1>3. g.word[p] # "or" /\ g.word[p] = "and"
    BY <1>1
<1>4. <<t, p, e>> \in ViaChain(g, "or", "and", node, F)
    BY <1>1
<1>5. e \in Then(t, p, ViaChain(g, "or", "and", node, F))
    BY <1>4 DEF Then
<1>6. e \in Then(y, p, F)
    BY <1>2, <1>3, <1>5, LoopEnds
<1>7. <<y, p, e>> \in F /\ <<y, p, e>> \in Endings /\ <<y, p, e>>[2] = p
    BY <1>2, <1>6 DEF Then, Endings
<1> QED BY <1>3, <1>7 DEF Free

-----------------------------------------------------------------------------
(* The whole call stack: what is left to each caller, from the first on.   *)
Awaited(g, c, F) == CASE c.method = "not_expr" -> ViaNot(F)
                      [] c.method = "primary"  -> ViaParen(g, F)
                      [] c.method = "and_expr" -> ViaChain(g, "and", "not", c.node, F)
                      [] c.method = "or_expr"  -> ViaChain(g, "or", "and", c.node, F)

Allows(g, c, F) == /\ c.method = "or_expr" => Free(g, F, "or") /\ Free(g, F, "and")
                   /\ c.method = "and_expr" => Free(g, F, "and")

Awaiting(g, cs, K) ==
    /\ K = [k \in Nat |-> K[k]] /\ K[0] = AtEnd(g)
    /\ \A k \in 1..Len(cs) : K[k] = Awaited(g, cs[k], K[k - 1]) /\ Allows(g, cs[k], K[k - 1])

(* The trees the tokens spell are those that can still come out: what the  *)
(* method being called, or the node being returned, can be completed to.   *)
Whole(g) == SpelledBy(g, "or", 1, g.end)

Expects(g, m, p, node, F) ==
    /\ m = "or_expr"   => /\ Free(g, F, "or") /\ Free(g, F, "and")
                          /\ Whole(g) = After(g, "or", p, F)
    /\ m = "and_expr"  => Free(g, F, "and") /\ Whole(g) = After(g, "and", p, F)
    /\ m = "not_expr"  => Whole(g) = After(g, "not", p, F)
    /\ m = "primary"   => g.word[p] # "not" /\ Whole(g) = After(g, "not", p, F)
    /\ m = "primitive" => Whole(g) = AfterPrim(g, p, F)
    /\ m = "return"    => Whole(g) = Then(node, p, F)
    /\ m = "parsed"    => Whole(g) = {node}
    /\ m = "BPFCompileError" => Whole(g) = {}

Situation(g, m, p, cs, node) ==
    \E K : Awaiting(g, cs, K) /\ Expects(g, m, p, node, K[Len(cs)])

LEMMA AwaitedIs ==
    ASSUME NEW g, NEW F, NEW node
    PROVE  /\ Awaited(g, Caller("not_expr", node), F) = ViaNot(F)
           /\ Awaited(g, Caller("primary", node), F) = ViaParen(g, F)
           /\ Awaited(g, Caller("and_expr", node), F) = ViaChain(g, "and", "not", node, F)
           /\ Awaited(g, Caller("or_expr", node), F) = ViaChain(g, "or", "and", node, F)
    BY DEF Awaited, Caller

LEMMA PushAwaiting ==
    ASSUME NEW g, NEW S, NEW cs \in Seq(S), NEW K, Awaiting(g, cs, K),
           NEW c \in S, Allows(g, c, K[Len(cs)])
    PROVE  \E L : /\ Awaiting(g, Append(cs, c), L)
                  /\ L[Len(Append(cs, c))] = Awaited(g, c, K[Len(cs)])
<1> DEFINE n == Len(cs)
           w == Awaited(g, c, K[n])
           L == [k \in Nat |-> IF k = n + 1 THEN w ELSE K[k]]
           ds == Append(cs, c)
<1>1. /\ n \in Nat /\ Len(ds) = n + 1 /\ ds[n + 1] = c
      /\ \A k \in 1..n : ds[k] = cs[k]
    OBVIOUS
<1>4. /\ K[0] = AtEnd(g)
      /\ \A k \in 1..n : K[k] = Awaited(g, cs[k], K[k - 1]) /\ Allows(g, cs[k], K[k - 1])
    BY DEF Awaiting
<1> HIDE DEF n, ds, w
<1>2. /\ L = [k \in Nat |-> L[k]] /\ L[0] = AtEnd(g)
      /\ L[n + 1] = w /\ \A k \in 0..n : L[k] = K[k]
    BY <1>1, <1>4
<1> HIDE DEF L
<1>3. ASSUME NEW k \in 1..Len(ds)
      PROVE  L[k] = Awaited(g, ds[k], L[k - 1]) /\ Allows(g, ds[k], L[k - 1])
  <2>1. CASE k = n + 1
    <3>1. L[k - 1] = K[n] /\ ds[k] = c /\ L[k] = w
        BY <1>1, <1>2, <2>1
    <3> QED BY <3>1 DEF w, n
  <2>2. CASE k # n + 1
    <3>1. k \in 1..n /\ k \in 0..n /\ k - 1 \in 0..n
        BY <1>1, <2>2
    <3>2. L[k - 1] = K[k - 1] /\ L[k] = K[k] /\ ds[k] = cs[k]
        BY <1>1, <1>2, <3>1
    <3> QED BY <1>4, <3>1, <3>2
  <2> QED BY <2>1, <2>2
<1>5. Awaiting(g, ds, L)
    BY <1>2, <1>3 DEF Awaiting
<1>6. L[Len(ds)] = Awaited(g, c, K[Len(cs)])
    BY <1>1, <1>2 DEF w, n
<1> QED BY <1>5, <1>6 DEF ds

LEMMA PopAwaiting ==
    ASSUME NEW g, NEW S, NEW cs \in Seq(S), NEW K, Awaiting(g, cs, K), cs # <<>>
    PROVE  LET n == Len(cs)
               ds == SubSeq(cs, 1, n - 1)
           IN  /\ Awaiting(g, ds, K) /\ Len(ds) = n - 1 /\ ds \in Seq(S)
               /\ K[n] = Awaited(g, cs[n], K[n - 1]) /\ Allows(g, cs[n], K[n - 1])
<1> DEFINE n == Len(cs)
           ds == SubSeq(cs, 1, n - 1)
<1>1. n \in Nat /\ n >= 1
    OBVIOUS
<1>2. /\ Len(ds) = n - 1 /\ ds \in Seq(S)
      /\ \A k \in 1..(n - 1) : ds[k] = cs[k]
  <2>1. n - 1 \in Nat /\ n - 1 <= Len(cs)
      BY <1>1
  <2> DEFINE m == n - 1
  <2>2. m \in Nat /\ m <= Len(cs)
      BY <2>1
  <2> HIDE DEF m
  <2>3. SubSeq(cs, 1, m) \in Seq(S)
      BY <2>2
  <2>4. Len(SubSeq(cs, 1, m)) = m
      BY <2>2
  <2>5. \A k \in 1..m : SubSeq(cs, 1, m)[k] = cs[k]
      BY <2>2
  <2> QED BY <2>3, <2>4, <2>5 DEF m
<1>3. /\ K = [k \in Nat |-> K[k]] /\ K[0] = AtEnd(g)
      /\ \A k \in 1..n : K[k] = Awaited(g, cs[k], K[k - 1]) /\ Allows(g, cs[k], K[k - 1])
    BY DEF Awaiting
<1> HIDE DEF n, ds
<1>4. Awaiting(g, ds, K)
  <2>1. \A k \in 1..Len(ds) : k \in 1..n /\ ds[k] = cs[k]
      BY <1>1, <1>2
  <2> QED BY <1>3, <2>1 DEF Awaiting
<1>5. n \in 1..n
    BY <1>1
<1> QED BY <1>2, <1>3, <1>4, <1>5 DEF n, ds

(* The start, the calls and the returns, each for any grammar.             *)
LEMMA StartSituation ==
    ASSUME NEW g, Rules(g), NEW node
    PROVE  Situation(g, "or_expr", 1, <<>>, node)
<1> DEFINE K == [k \in Nat |-> AtEnd(g)]
<1>1. K = [k \in Nat |-> K[k]] /\ K[0] = AtEnd(g) /\ Len(<<>>) = 0
    OBVIOUS
<1> HIDE DEF K
<1>2. Awaiting(g, <<>>, K)
    BY <1>1 DEF Awaiting
<1>3. Expects(g, "or_expr", 1, node, AtEnd(g))
    BY AllAhead, FreeAtEnd DEF Expects, Whole
<1> QED BY <1>1, <1>2, <1>3 DEF Situation

LEMMA EmptySituation ==
    ASSUME NEW g, Rules(g), g.end = 1, NEW p, NEW node
    PROVE  Situation(g, "BPFCompileError", p, <<>>, node)
<1> DEFINE K == [k \in Nat |-> AtEnd(g)]
<1>1. K = [k \in Nat |-> K[k]] /\ K[0] = AtEnd(g) /\ Len(<<>>) = 0
    OBVIOUS
<1> HIDE DEF K
<1>2. Awaiting(g, <<>>, K)
    BY <1>1 DEF Awaiting
<1>3. SpelledBy(g, "or", 1, 1) = {}
    BY DEF Rules, Spanning
<1>4. Expects(g, "BPFCompileError", p, node, K[0])
    BY <1>3 DEF Expects, Whole
<1> QED BY <1>1, <1>2, <1>4 DEF Situation

LEMMA OrSituation ==
    ASSUME NEW g, Rules(g), NEW p \in Nat, NEW cs \in Seq(Waiting), NEW node,
           Situation(g, "or_expr", p, cs, node)
    PROVE  Situation(g, "and_expr", p, Append(cs, Caller("or_expr", Nil)), Nil)
<1> DEFINE c == Caller("or_expr", Nil)
<1>1. PICK K : Awaiting(g, cs, K) /\ Expects(g, "or_expr", p, node, K[Len(cs)])
    BY DEF Situation
<1> DEFINE F == K[Len(cs)]
<1>2. Free(g, F, "or") /\ Free(g, F, "and") /\ Whole(g) = After(g, "or", p, F)
    BY <1>1 DEF Expects
<1>3. c \in Waiting
    BY DEF Caller, Waiting, Nodes
<1>4. Allows(g, c, F)
    BY <1>2 DEF Allows
<1>5. PICK L : Awaiting(g, Append(cs, c), L) /\ L[Len(Append(cs, c))] = Awaited(g, c, F)
    BY <1>1, <1>3, <1>4, PushAwaiting
<1> HIDE DEF F
<1>6. Awaited(g, c, F) = ViaChain(g, "or", "and", Nil, F)
    BY AwaitedIs
<1>7. Whole(g) = After(g, "and", p, ViaChain(g, "or", "and", Nil, F))
    BY <1>2, CallChain, RulesLinked
<1>8. Free(g, ViaChain(g, "or", "and", Nil, F), "and")
    BY <1>2, FreeChain DEF Nodes
<1>9. Expects(g, "and_expr", p, Nil, L[Len(Append(cs, c))])
    BY <1>5, <1>6, <1>7, <1>8 DEF Expects
<1> HIDE DEF c
<1> QED BY <1>5, <1>9 DEF Situation, c

LEMMA AndSituation ==
    ASSUME NEW g, Rules(g), NEW p \in Nat, NEW cs \in Seq(Waiting), NEW node,
           Situation(g, "and_expr", p, cs, node)
    PROVE  Situation(g, "not_expr", p, Append(cs, Caller("and_expr", Nil)), Nil)
<1> DEFINE c == Caller("and_expr", Nil)
<1>1. PICK K : Awaiting(g, cs, K) /\ Expects(g, "and_expr", p, node, K[Len(cs)])
    BY DEF Situation
<1> DEFINE F == K[Len(cs)]
<1>2. Free(g, F, "and") /\ Whole(g) = After(g, "and", p, F)
    BY <1>1 DEF Expects
<1>3. c \in Waiting
    BY DEF Caller, Waiting, Nodes
<1>4. Allows(g, c, F)
    BY <1>2 DEF Allows, Caller
<1>5. PICK L : Awaiting(g, Append(cs, c), L) /\ L[Len(Append(cs, c))] = Awaited(g, c, F)
    BY <1>1, <1>3, <1>4, PushAwaiting
<1> HIDE DEF F
<1>6. Awaited(g, c, F) = ViaChain(g, "and", "not", Nil, F)
    BY AwaitedIs
<1>7. Whole(g) = After(g, "not", p, ViaChain(g, "and", "not", Nil, F))
    BY <1>2, CallChain, RulesLinked
<1>9. Expects(g, "not_expr", p, Nil, L[Len(Append(cs, c))])
    BY <1>5, <1>6, <1>7 DEF Expects
<1> HIDE DEF c
<1> QED BY <1>5, <1>9 DEF Situation, c

LEMMA NotSituation ==
    ASSUME NEW g, Rules(g), NEW p \in Nat, NEW cs \in Seq(Waiting), NEW node,
           Situation(g, "not_expr", p, cs, node)
    PROVE  IF g.word[p] = "not"
           THEN Situation(g, "not_expr", p + 1, Append(cs, Caller("not_expr", Nil)), Nil)
           ELSE Situation(g, "primary", p, cs, Nil)
<1> DEFINE c == Caller("not_expr", Nil)
<1>1. PICK K : Awaiting(g, cs, K) /\ Expects(g, "not_expr", p, node, K[Len(cs)])
    BY DEF Situation
<1> DEFINE F == K[Len(cs)]
<1>2. Whole(g) = After(g, "not", p, F)
    BY <1>1 DEF Expects
<1>3. ASSUME g.word[p] = "not" PROVE Situation(g, "not_expr", p + 1, Append(cs, c), Nil)
  <2>1. c \in Waiting /\ Allows(g, c, F)
      BY DEF Caller, Waiting, Nodes, Allows
  <2>2. PICK L : Awaiting(g, Append(cs, c), L) /\ L[Len(Append(cs, c))] = Awaited(g, c, F)
      BY <1>1, <2>1, PushAwaiting
  <2> HIDE DEF F
  <2>3. Awaited(g, c, F) = ViaNot(F)
      BY AwaitedIs
  <2>4. Whole(g) = After(g, "not", p + 1, ViaNot(F))
      BY <1>2, <1>3, CallNot
  <2>5. Expects(g, "not_expr", p + 1, Nil, L[Len(Append(cs, c))])
      BY <2>2, <2>3, <2>4 DEF Expects
  <2> HIDE DEF c
  <2> QED BY <2>2, <2>5 DEF Situation
<1>4. ASSUME g.word[p] # "not" PROVE Situation(g, "primary", p, cs, Nil)
  <2>1. Expects(g, "primary", p, Nil, K[Len(cs)])
      BY <1>2, <1>4 DEF Expects
  <2> QED BY <1>1, <2>1 DEF Situation
<1> QED BY <1>3, <1>4

LEMMA PrimarySituation ==
    ASSUME NEW g, Rules(g), NEW p \in Nat, NEW cs \in Seq(Waiting), NEW node,
           Situation(g, "primary", p, cs, node)
    PROVE  IF g.kind[p] = "("
           THEN Situation(g, "or_expr", p + 1, Append(cs, Caller("primary", Nil)), Nil)
           ELSE Situation(g, "primitive", p, cs, Nil)
<1> DEFINE c == Caller("primary", Nil)
<1>1. PICK K : Awaiting(g, cs, K) /\ Expects(g, "primary", p, node, K[Len(cs)])
    BY DEF Situation
<1> DEFINE F == K[Len(cs)]
<1>2. g.word[p] # "not" /\ Whole(g) = After(g, "not", p, F)
    BY <1>1 DEF Expects
<1>3. ASSUME g.kind[p] = "(" PROVE Situation(g, "or_expr", p + 1, Append(cs, c), Nil)
  <2>1. c \in Waiting /\ Allows(g, c, F)
      BY DEF Caller, Waiting, Nodes, Allows
  <2>2. PICK L : Awaiting(g, Append(cs, c), L) /\ L[Len(Append(cs, c))] = Awaited(g, c, F)
      BY <1>1, <2>1, PushAwaiting
  <2> HIDE DEF F
  <2>3. Awaited(g, c, F) = ViaParen(g, F)
      BY AwaitedIs
  <2>4. Whole(g) = After(g, "or", p + 1, ViaParen(g, F))
      BY <1>2, <1>3, CallParen
  <2>5. Free(g, ViaParen(g, F), "or") /\ Free(g, ViaParen(g, F), "and")
      BY FreeParen
  <2>6. Expects(g, "or_expr", p + 1, Nil, L[Len(Append(cs, c))])
      BY <2>2, <2>3, <2>4, <2>5 DEF Expects
  <2> HIDE DEF c
  <2> QED BY <2>2, <2>6 DEF Situation
<1>4. ASSUME g.kind[p] # "(" PROVE Situation(g, "primitive", p, cs, Nil)
  <2> HIDE DEF F
  <2>1. Whole(g) = AfterPrim(g, p, F)
      BY <1>2, <1>4, CallPrimitive
  <2>2. Expects(g, "primitive", p, Nil, F)
      BY <2>1 DEF Expects
  <2> QED BY <1>1, <2>2 DEF Situation, F
<1> QED BY <1>3, <1>4

(* A primitive that has been read, or none is there.                       *)
LEMMA PrimitiveSituation ==
    ASSUME NEW g, NEW p \in Nat, NEW q \in Nat, p < q, NEW cs, NEW node, NEW t,
           Situation(g, "primitive", p, cs, node),
           \A j \in Nat : \A u : u \in g.prim[<<p, j>>] <=> j = q /\ u = t
    PROVE  Situation(g, "return", q, cs, t)
<1>1. PICK K : Awaiting(g, cs, K) /\ Expects(g, "primitive", p, node, K[Len(cs)])
    BY DEF Situation
<1> DEFINE F == K[Len(cs)]
<1>2. Whole(g) = AfterPrim(g, p, F)
    BY <1>1 DEF Expects
<1> HIDE DEF F
<1>3. AfterPrim(g, p, F) = Then(t, q, F)
    BY DEF AfterPrim, Then
<1>4. Expects(g, "return", q, t, F)
    BY <1>2, <1>3 DEF Expects
<1> QED BY <1>1, <1>4 DEF Situation, F

LEMMA NoPrimitiveSituation ==
    ASSUME NEW g, NEW p \in Nat, NEW cs, NEW node,
           Situation(g, "primitive", p, cs, node), \A j \in Nat : g.prim[<<p, j>>] = {}
    PROVE  Situation(g, "BPFCompileError", p, cs, node)
<1>1. PICK K : Awaiting(g, cs, K) /\ Expects(g, "primitive", p, node, K[Len(cs)])
    BY DEF Situation
<1> DEFINE F == K[Len(cs)]
<1>2. Whole(g) = AfterPrim(g, p, F)
    BY <1>1 DEF Expects
<1> HIDE DEF F
<1>3. AfterPrim(g, p, F) = {}
    BY DEF AfterPrim
<1>4. Expects(g, "BPFCompileError", p, node, F)
    BY <1>2, <1>3 DEF Expects
<1> QED BY <1>1, <1>4 DEF Situation, F

(* A node is returned to the method that called.                           *)
Unwinds(g, cs, p, node, K) ==
    LET n == Len(cs)  ds == SubSeq(cs, 1, n - 1)  F == K[n - 1] IN
        /\ Awaiting(g, ds, K) /\ Len(ds) = n - 1 /\ ds \in Seq(Waiting)
        /\ Allows(g, cs[n], F)
        /\ Whole(g) = Then(node, p, Awaited(g, cs[n], F))

LEMMA PoppedSituation ==
    ASSUME NEW g, NEW cs \in Seq(Waiting), cs # <<>>, NEW p, NEW node,
           Situation(g, "return", p, cs, node)
    PROVE  \E K : Unwinds(g, cs, p, node, K)
<1>1. PICK K : Awaiting(g, cs, K) /\ Expects(g, "return", p, node, K[Len(cs)])
    BY DEF Situation
<1> DEFINE n == Len(cs)
           ds == SubSeq(cs, 1, n - 1)
<1>2. /\ Awaiting(g, ds, K) /\ Len(ds) = n - 1 /\ ds \in Seq(Waiting)
      /\ K[n] = Awaited(g, cs[n], K[n - 1]) /\ Allows(g, cs[n], K[n - 1])
    BY <1>1, PopAwaiting
<1>3. Whole(g) = Then(node, p, K[n])
    BY <1>1 DEF Expects
<1> HIDE DEF n, ds
<1>4. Whole(g) = Then(node, p, Awaited(g, cs[n], K[n - 1]))
    BY <1>2, <1>3
<1> QED BY <1>2, <1>4 DEF n, ds, Unwinds

LEMMA ReturnNotSituation ==
    ASSUME NEW g, NEW cs \in Seq(Waiting), cs # <<>>, NEW p \in Nat, NEW node \in AllTrees,
           Situation(g, "return", p, cs, node), cs[Len(cs)].method = "not_expr"
    PROVE  Situation(g, "return", p, SubSeq(cs, 1, Len(cs) - 1), Not(node))
<1> DEFINE n == Len(cs)
           ds == SubSeq(cs, 1, n - 1)
<1>10. PICK K : Unwinds(g, cs, p, node, K)
    BY PoppedSituation
<1>1. /\ Awaiting(g, ds, K) /\ Len(ds) = n - 1
      /\ Whole(g) = Then(node, p, Awaited(g, cs[n], K[n - 1]))
    BY <1>10 DEF Unwinds
<1> DEFINE F == K[n - 1]
<1>2. Awaited(g, cs[n], F) = ViaNot(F)
    BY DEF Awaited
<1> HIDE DEF n, ds, F
<1>3. Whole(g) = Then(Not(node), p, F)
    BY <1>1, <1>2, ThenNot DEF F
<1>4. Expects(g, "return", p, Not(node), F)
    BY <1>3 DEF Expects
<1>5. Situation(g, "return", p, ds, Not(node))
    BY <1>1, <1>4 DEF Situation, F
<1> QED BY <1>5 DEF ds, n

LEMMA ReturnParenSituation ==
    ASSUME NEW g, NEW cs \in Seq(Waiting), cs # <<>>, NEW p \in Nat, NEW node \in AllTrees,
           Situation(g, "return", p, cs, node), cs[Len(cs)].method = "primary"
    PROVE  IF g.kind[p] = ")"
           THEN Situation(g, "return", p + 1, SubSeq(cs, 1, Len(cs) - 1), node)
           ELSE Situation(g, "BPFCompileError", p, cs, node)
<1> DEFINE n == Len(cs)
           ds == SubSeq(cs, 1, n - 1)
<1>10. PICK K : Unwinds(g, cs, p, node, K)
    BY PoppedSituation
<1>1. /\ Awaiting(g, ds, K) /\ Len(ds) = n - 1
      /\ Whole(g) = Then(node, p, Awaited(g, cs[n], K[n - 1]))
    BY <1>10 DEF Unwinds
<1> DEFINE F == K[n - 1]
<1>2. Awaited(g, cs[n], F) = ViaParen(g, F)
    BY DEF Awaited
<1>0. PICK M : Awaiting(g, cs, M)
    BY DEF Situation
<1> HIDE DEF n, ds, F
<1>3. Whole(g) = IF g.kind[p] = ")" THEN Then(node, p + 1, F) ELSE {}
  <2>1. Whole(g) = Then(node, p, ViaParen(g, F))
      BY <1>1, <1>2 DEF F
  <2> QED BY <2>1, ThenParen
<1>4. ASSUME g.kind[p] = ")" PROVE Situation(g, "return", p + 1, ds, node)
  <2>1. Expects(g, "return", p + 1, node, F)
      BY <1>3, <1>4 DEF Expects
  <2> QED BY <1>1, <2>1 DEF Situation, F
<1>5. ASSUME g.kind[p] # ")" PROVE Situation(g, "BPFCompileError", p, cs, node)
  <2>1. Expects(g, "BPFCompileError", p, node, M[Len(cs)])
      BY <1>3, <1>5 DEF Expects
  <2> QED BY <1>0, <2>1 DEF Situation
<1> QED BY <1>4, <1>5 DEF ds, n

(* The loops.                                                              *)
LEMMA ReturnAndSituation ==
    ASSUME NEW g, Rules(g), NEW cs \in Seq(Waiting), cs # <<>>, NEW p \in Nat,
           NEW node \in AllTrees,
           Situation(g, "return", p, cs, node), cs[Len(cs)].method = "and_expr",
           NEW joined \in AllTrees, joined = Extended("and", cs[Len(cs)].node, node)
    PROVE  IF g.word[p] = "and"
           THEN Situation(g, "not_expr", p + 1,
                          Append(SubSeq(cs, 1, Len(cs) - 1), Caller("and_expr", joined)), Nil)
           ELSE Situation(g, "return", p, SubSeq(cs, 1, Len(cs) - 1), joined)
<1> DEFINE n == Len(cs)
           ds == SubSeq(cs, 1, n - 1)
           c == Caller("and_expr", joined)
           last == cs[n].node
<1>10. PICK K : Unwinds(g, cs, p, node, K)
    BY PoppedSituation
<1>1. /\ Awaiting(g, ds, K) /\ Len(ds) = n - 1 /\ ds \in Seq(Waiting)
      /\ Allows(g, cs[n], K[n - 1])
      /\ Whole(g) = Then(node, p, Awaited(g, cs[n], K[n - 1]))
    BY <1>10 DEF Unwinds
<1> DEFINE F == K[n - 1]
<1>2. Awaited(g, cs[n], F) = ViaChain(g, "and", "not", last, F)
    BY DEF Awaited
<1>3. Free(g, F, "and")
    BY <1>1 DEF Allows
<1>4. joined = Extended("and", last, node)
    OBVIOUS
<1> HIDE DEF n, ds, F, last
<1>5. Whole(g) = Then(node, p, ViaChain(g, "and", "not", last, F))
    BY <1>1, <1>2 DEF F
<1>6. ASSUME g.word[p] # "and" PROVE Situation(g, "return", p, ds, joined)
  <2>1. Whole(g) = Then(joined, p, F)
      BY <1>4, <1>5, <1>6, LoopEnds
  <2>2. Expects(g, "return", p, joined, F)
      BY <2>1 DEF Expects
  <2> QED BY <1>1, <2>2 DEF Situation, F
<1>7. ASSUME g.word[p] = "and"
      PROVE  Situation(g, "not_expr", p + 1, Append(ds, c), Nil)
  <2>1. Whole(g) = After(g, "not", p + 1, ViaChain(g, "and", "not", joined, F))
    <3>1. Linked(g, "and", "not")
        BY RulesLinked
    <3> QED BY <1>3, <1>4, <1>5, <1>7, <3>1, LoopGoesOn
  <2>2. c \in Waiting /\ Allows(g, c, F)
      BY <1>3 DEF Caller, Waiting, Nodes, Allows
  <2>3. Awaited(g, c, F) = ViaChain(g, "and", "not", joined, F)
      BY AwaitedIs
  <2>4. F = K[Len(ds)]
      BY <1>1 DEF F
  <2> HIDE DEF c
  <2>5. PICK L : Awaiting(g, Append(ds, c), L) /\ L[Len(Append(ds, c))] = Awaited(g, c, F)
      BY <1>1, <2>2, <2>4, PushAwaiting
  <2>6. Expects(g, "not_expr", p + 1, Nil, L[Len(Append(ds, c))])
      BY <2>1, <2>3, <2>5 DEF Expects
  <2> QED BY <2>5, <2>6 DEF Situation
<1> QED BY <1>6, <1>7 DEF ds, n

LEMMA ReturnOrSituation ==
    ASSUME NEW g, Rules(g), NEW cs \in Seq(Waiting), cs # <<>>, NEW p \in Nat,
           NEW node \in AllTrees,
           Situation(g, "return", p, cs, node), cs[Len(cs)].method = "or_expr",
           NEW joined \in AllTrees, joined = Extended("or", cs[Len(cs)].node, node)
    PROVE  IF g.word[p] = "or"
           THEN Situation(g, "and_expr", p + 1,
                          Append(SubSeq(cs, 1, Len(cs) - 1), Caller("or_expr", joined)), Nil)
           ELSE Situation(g, "return", p, SubSeq(cs, 1, Len(cs) - 1), joined)
<1> DEFINE n == Len(cs)
           ds == SubSeq(cs, 1, n - 1)
           c == Caller("or_expr", joined)
           last == cs[n].node
<1>10. PICK K : Unwinds(g, cs, p, node, K)
    BY PoppedSituation
<1>1. /\ Awaiting(g, ds, K) /\ Len(ds) = n - 1 /\ ds \in Seq(Waiting)
      /\ Allows(g, cs[n], K[n - 1])
      /\ Whole(g) = Then(node, p, Awaited(g, cs[n], K[n - 1]))
    BY <1>10 DEF Unwinds
<1> DEFINE F == K[n - 1]
<1>2. Awaited(g, cs[n], F) = ViaChain(g, "or", "and", last, F)
    BY DEF Awaited
<1>3. Free(g, F, "or") /\ Free(g, F, "and")
    BY <1>1 DEF Allows
<1>4. joined = Extended("or", last, node)
    OBVIOUS
<1> HIDE DEF n, ds, F, last
<1>5. Whole(g) = Then(node, p, ViaChain(g, "or", "and", last, F))
    BY <1>1, <1>2 DEF F
<1>6. ASSUME g.word[p] # "or" PROVE Situation(g, "return", p, ds, joined)
  <2>1. Whole(g) = Then(joined, p, F)
      BY <1>4, <1>5, <1>6, LoopEnds
  <2>2. Expects(g, "return", p, joined, F)
      BY <2>1 DEF Expects
  <2> QED BY <1>1, <2>2 DEF Situation, F
<1>7. ASSUME g.word[p] = "or"
      PROVE  Situation(g, "and_expr", p + 1, Append(ds, c), Nil)
  <2>1. Whole(g) = After(g, "and", p + 1, ViaChain(g, "or", "and", joined, F))
    <3>1. Linked(g, "or", "and")
        BY RulesLinked
    <3> QED BY <1>3, <1>4, <1>5, <1>7, <3>1, LoopGoesOn
  <2>2. c \in Waiting /\ Allows(g, c, F)
      BY <1>3 DEF Caller, Waiting, Nodes, Allows
  <2>3. Awaited(g, c, F) = ViaChain(g, "or", "and", joined, F)
      BY AwaitedIs
  <2>4. F = K[Len(ds)]
      BY <1>1 DEF F
  <2>7. Free(g, ViaChain(g, "or", "and", joined, F), "and")
      BY <1>3, FreeChain DEF Nodes
  <2> HIDE DEF c
  <2>5. PICK L : Awaiting(g, Append(ds, c), L) /\ L[Len(Append(ds, c))] = Awaited(g, c, F)
      BY <1>1, <2>2, <2>4, PushAwaiting
  <2>6. Expects(g, "and_expr", p + 1, Nil, L[Len(Append(ds, c))])
      BY <2>1, <2>3, <2>5, <2>7 DEF Expects
  <2> QED BY <2>5, <2>6 DEF Situation
<1> QED BY <1>6, <1>7 DEF ds, n

(* parse().                                                                *)
LEMMA ParseSituation ==
    ASSUME NEW g, NEW p \in Nat, NEW node \in AllTrees, Situation(g, "return", p, <<>>, node)
    PROVE  IF p = g.end THEN Situation(g, "parsed", p, <<>>, node)
                        ELSE Situation(g, "BPFCompileError", p, <<>>, node)
<1>1. PICK K : Awaiting(g, <<>>, K) /\ Expects(g, "return", p, node, K[Len(<<>>)])
    BY DEF Situation
<1>2. K[Len(<<>>)] = AtEnd(g)
    BY <1>1 DEF Awaiting
<1>3. Whole(g) = IF p = g.end THEN {node} ELSE {}
    BY <1>1, <1>2, AllParsed DEF Expects
<1>4. IF p = g.end THEN Expects(g, "parsed", p, node, K[Len(<<>>)])
                   ELSE Expects(g, "BPFCompileError", p, node, K[Len(<<>>)])
    BY <1>3 DEF Expects
<1> QED BY <1>1, <1>4 DEF Situation

-----------------------------------------------------------------------------
(* The invariant: once the tokens are there, what they spell is what the   *)
(* parser can still come to.                                               *)
GrammarInv == /\ at = "lexing" => callers = <<>>
              /\ rest = <<>> /\ at # "lexing" =>
                     Situation(Grammar, at, pos, callers, result)

LEMMA GotoGrammar ==
    ASSUME NEW m, NEW p, NEW s, NEW node, m # "lexing", Goto(m, p, s, node),
           rest = <<>> => Situation(Grammar, m, p, s, node)
    PROVE  GrammarInv'
<1>1. /\ at' = m /\ pos' = p /\ callers' = s /\ result' = node
      /\ rest' = rest /\ Grammar' = Grammar
    BY SameGrammar DEF Goto
<1> HIDE DEF Grammar
<1> QED BY <1>1 DEF GrammarInv

LEMMA RaiseGrammar ==
    ASSUME GrammarInv, at # "lexing", NEW error \in {"RecursionError", "ValueError"},
           Raise(error)
    PROVE  GrammarInv'
<1>1. rest = <<>> => Situation(Grammar, error, pos, callers, result)
  <2> SUFFICES ASSUME rest = <<>> PROVE Situation(Grammar, error, pos, callers, result)
      OBVIOUS
  <2>1. PICK K : Awaiting(Grammar, callers, K)
      BY DEF GrammarInv, Situation
  <2>2. Expects(Grammar, error, pos, result, K[Len(callers)])
      BY DEF Expects
  <2> QED BY <2>1, <2>2 DEF Situation
<1> QED BY <1>1, GotoGrammar DEF Raise

LEMMA FailGrammar ==
    ASSUME rest = <<>> => Situation(Grammar, "BPFCompileError", pos, callers, result), Fail
    PROVE  GrammarInv'
    BY GotoGrammar DEF Fail, Raise

LEMMA GrammarAt ==
    ASSUME ParserInv
    PROVE  /\ Rules(Grammar) /\ pos \in Nat /\ pos + 1 \in Nat /\ callers \in Seq(Waiting)
           /\ Grammar.end = Len(tokens) + 1
           /\ \A p \in Nat : Grammar.word[p] = WordAt(p) /\ Grammar.kind[p] = KindAt(p)
           /\ \A i, j \in Nat : Grammar.prim[<<i, j>>] = PrimitiveTrees(i, j)
<1>1. /\ Grammar.end = Len(tokens) + 1
      /\ \A p \in Nat : Grammar.word[p] = WordAt(p) /\ Grammar.kind[p] = KindAt(p)
      /\ \A i, j \in Nat : Grammar.prim[<<i, j>>] = PrimitiveTrees(i, j)
    BY DEF Grammar
<1>2. pos \in Nat /\ pos + 1 \in Nat /\ callers \in Seq(Waiting)
    BY DEF ParserInv
<1> QED BY <1>1, <1>2, GrammarRules

LEMMA LexGrammar ==
    ASSUME ParserInv, GrammarInv,
           LexIpv4 \/ LexNumber \/ LexWord \/ LexParen \/ LexSpace \/ LexFails \/ LexEnds
    PROVE  GrammarInv'
<1>1. CASE LexIpv4 \/ LexNumber \/ LexWord \/ LexParen \/ LexSpace
  <2>1. at = "lexing" /\ at' = "lexing" /\ callers' = callers
    <3>1. \A new, left : Lexed(new, left) => at' = at /\ callers' = callers
        BY DEF Lexed
    <3>2. ASSUME LexIpv4 PROVE at = "lexing" /\ at' = "lexing" /\ callers' = callers
        BY <3>1, <3>2 DEF LexIpv4
    <3>3. ASSUME LexNumber PROVE at = "lexing" /\ at' = "lexing" /\ callers' = callers
        BY <3>1, <3>3 DEF LexNumber
    <3>4. ASSUME LexWord PROVE at = "lexing" /\ at' = "lexing" /\ callers' = callers
        BY <3>1, <3>4 DEF LexWord
    <3>5. ASSUME LexParen \/ LexSpace PROVE at = "lexing" /\ at' = "lexing" /\ callers' = callers
        BY <3>1, <3>5 DEF LexParen, LexSpace
    <3> QED BY <1>1, <3>2, <3>3, <3>4, <3>5
  <2> QED BY <2>1 DEF GrammarInv
<1>2. CASE LexFails
    BY <1>2, FailGrammar DEF LexFails
<1>3. CASE LexEnds
  <2> DEFINE g == Grammar
  <2>1. Rules(g) /\ g.end = Len(tokens) + 1
      BY GrammarAt
  <2>2. CASE tokens = <<>>
    <3>1. g.end = 1 /\ Fail /\ callers = <<>>
        BY <1>3, <2>1, <2>2 DEF LexEnds, GrammarInv
    <3> HIDE DEF g
    <3>2. Situation(g, "BPFCompileError", pos, <<>>, result)
        BY <2>1, <3>1, EmptySituation
    <3> QED BY <3>1, <3>2, FailGrammar DEF g
  <2>3. CASE tokens # <<>>
    <3>1. Goto("or_expr", 1, <<>>, Nil)
        BY <1>3, <2>3 DEF LexEnds
    <3>2. Situation(Grammar, "or_expr", 1, <<>>, Nil)
        BY <2>1, StartSituation
    <3> QED BY <3>1, <3>2, GotoGrammar
  <2> QED BY <2>2, <2>3
<1> QED BY <1>1, <1>2, <1>3

LEMMA CallGrammar ==
    ASSUME ParserInv, GrammarInv, ParseTooDeep \/ OrExpr \/ AndExpr \/ NotExpr \/ Primary
    PROVE  GrammarInv'
<1> DEFINE g == Grammar
<1>1. /\ Rules(g) /\ pos \in Nat /\ callers \in Seq(Waiting)
      /\ g.word[pos] = WordAt(pos) /\ g.kind[pos] = KindAt(pos)
    BY GrammarAt
<1>2. at # "lexing" /\ (rest = <<>> => Situation(g, at, pos, callers, result))
    BY DEF GrammarInv, ParseTooDeep, OrExpr, AndExpr, NotExpr, Primary, Calling
<1> HIDE DEF g
<1>3. CASE ParseTooDeep
    BY <1>2, <1>3, RaiseGrammar DEF ParseTooDeep
<1>4. CASE OrExpr
  <2>1. at = "or_expr"
      BY <1>4 DEF OrExpr, Calling
  <2>2. rest = <<>> => Situation(g, "and_expr", pos, Append(callers, Caller("or_expr", Nil)), Nil)
      BY <1>1, <1>2, <2>1, OrSituation
  <2> QED BY <1>4, <2>2, GotoGrammar DEF OrExpr, g
<1>5. CASE AndExpr
  <2>1. at = "and_expr"
      BY <1>5 DEF AndExpr, Calling
  <2>2. rest = <<>> => Situation(g, "not_expr", pos, Append(callers, Caller("and_expr", Nil)), Nil)
      BY <1>1, <1>2, <2>1, AndSituation
  <2> QED BY <1>5, <2>2, GotoGrammar DEF AndExpr, g
<1>6. CASE NotExpr
  <2>1. at = "not_expr"
      BY <1>6 DEF NotExpr, Calling
  <2>2. rest = <<>> => IF g.word[pos] = "not"
           THEN Situation(g, "not_expr", pos + 1, Append(callers, Caller("not_expr", Nil)), Nil)
           ELSE Situation(g, "primary", pos, callers, Nil)
      BY <1>1, <1>2, <2>1, NotSituation
  <2>3. CASE WordAt(pos) = "not"
    <3>1. Goto("not_expr", pos + 1, Append(callers, Caller("not_expr", Nil)), Nil)
        BY <1>6, <2>3 DEF NotExpr
    <3>2. rest = <<>> =>
            Situation(g, "not_expr", pos + 1, Append(callers, Caller("not_expr", Nil)), Nil)
        BY <1>1, <2>2, <2>3
    <3> QED BY <3>1, <3>2, GotoGrammar DEF g
  <2>4. CASE WordAt(pos) # "not"
    <3>1. Goto("primary", pos, callers, Nil)
        BY <1>6, <2>4 DEF NotExpr
    <3>2. rest = <<>> => Situation(g, "primary", pos, callers, Nil)
        BY <1>1, <2>2, <2>4
    <3> QED BY <3>1, <3>2, GotoGrammar DEF g
  <2> QED BY <2>3, <2>4
<1>7. CASE Primary
  <2>1. at = "primary"
      BY <1>7 DEF Primary, Calling
  <2>2. rest = <<>> => IF g.kind[pos] = "("
           THEN Situation(g, "or_expr", pos + 1, Append(callers, Caller("primary", Nil)), Nil)
           ELSE Situation(g, "primitive", pos, callers, Nil)
      BY <1>1, <1>2, <2>1, PrimarySituation
  <2>3. CASE KindAt(pos) = "("
    <3>1. Goto("or_expr", pos + 1, Append(callers, Caller("primary", Nil)), Nil)
        BY <1>7, <2>3 DEF Primary
    <3>2. rest = <<>> =>
            Situation(g, "or_expr", pos + 1, Append(callers, Caller("primary", Nil)), Nil)
        BY <1>1, <2>2, <2>3
    <3> QED BY <3>1, <3>2, GotoGrammar DEF g
  <2>4. CASE KindAt(pos) # "("
    <3>1. Goto("primitive", pos, callers, Nil)
        BY <1>7, <2>4 DEF Primary
    <3>2. rest = <<>> => Situation(g, "primitive", pos, callers, Nil)
        BY <1>1, <2>2, <2>4
    <3> QED BY <3>1, <3>2, GotoGrammar DEF g
  <2> QED BY <2>3, <2>4
<1> QED BY <1>3, <1>4, <1>5, <1>6, <1>7

(* _primitive reads what the grammar has at the place, and nothing else.   *)
LEMMA PrimitiveReads ==
    ASSUME ParserInv
    PROVE  /\ Past = PastAt(pos) /\ Direction = DirAt(pos) /\ Past \in Nat /\ Past >= pos
           /\ IsProto <=> WordAt(pos) \in Protocols
           /\ IsHost <=> HostAt(Past)
           /\ HasPort /\ Int10(PortDigits) <= 65535 <=> PortAt(Past)
           /\ PortAt(Past) => OctetAt(Past, 1) = Int10(PortDigits)
           /\ IsHost => AddrAt(Past) = 16777216 * Octets[1] + 65536 * Octets[2]
                                         + 256 * Octets[3] + Octets[4]
<1>1. Past = PastAt(pos) /\ Direction = DirAt(pos)
    BY DEF Past, Direction, PastAt, DirAt
<1>2. Past \in Nat /\ Past >= pos /\ pos \in Nat
    BY PrimitiveFacts DEF ParserInv, Past
<1>3. IsProto <=> WordAt(pos) \in Protocols
    BY DEF IsProto, Past, Direction, Protocols
<1>4. \A k \in 1..4 : Octets[k] = OctetAt(Past, k)
    BY DEF Octets, OctetAt
<1>5. Int10(PortDigits) = OctetAt(Past, 1)
    BY DEF PortDigits, OctetAt
<1> DEFINE n == Past
<1>6. KindAt(n + 1) = "ipv4" => \A k \in 1..4 : OctetAt(n, k) \in Nat
  <2> SUFFICES ASSUME KindAt(n + 1) = "ipv4", NEW k \in 1..4 PROVE OctetAt(n, k) \in Nat
      OBVIOUS
  <2>1. n + 1 \in Nat
      BY <1>2
  <2> QED BY <2>1, LiteralValue DEF OctetAt
<1>7. KindAt(n + 1) = "number" => OctetAt(n, 1) \in Nat
  <2>1. n + 1 \in Nat
      BY <1>2
  <2> QED BY <2>1, LiteralValue DEF OctetAt
<1>8. IsHost <=> HostAt(n)
  <2>1. KindAt(n + 1) = "ipv4" => ((\A k \in 1..4 : Octets[k] <= 255) <=> OctetsFit(n))
    <3> SUFFICES ASSUME KindAt(n + 1) = "ipv4"
                 PROVE  (\A k \in 1..4 : Octets[k] <= 255) <=> OctetsFit(n)
        OBVIOUS
    <3>1. \A k \in 1..4 : OctetAt(n, k) \in Nat /\ Octets[k] = OctetAt(n, k)
        BY <1>4, <1>6
    <3>2. \A k \in 1..4 : Octets[k] <= 255 <=> OctetAt(n, k) \in 0..255
        BY <3>1
    <3> QED BY <3>2 DEF OctetsFit
  <2> DEFINE fits == \A k \in 1..4 : Octets[k] <= 255
  <2>2. IsHost <=> WordAt(n) = "host" /\ KindAt(n + 1) = "ipv4" /\ fits
      BY DEF IsHost
  <2>3. HostAt(n) <=> WordAt(n) = "host" /\ KindAt(n + 1) = "ipv4" /\ OctetsFit(n)
      BY DEF HostAt
  <2> HIDE DEF fits, n
  <2> QED BY <2>1, <2>2, <2>3 DEF fits
<1>9. HasPort /\ Int10(PortDigits) <= 65535 <=> PortAt(n)
  <2>1. KindAt(n + 1) = "number" => (Int10(PortDigits) <= 65535 <=> PortFits(n))
    <3> SUFFICES ASSUME KindAt(n + 1) = "number"
                 PROVE  Int10(PortDigits) <= 65535 <=> PortFits(n)
        OBVIOUS
    <3> DEFINE x == OctetAt(n, 1)
    <3>1. x \in Nat /\ Int10(PortDigits) = x
        BY <1>5, <1>7
    <3> DEFINE inside == x \in 0..65535
               a == Int10(PortDigits) <= 65535
               b == x <= 65535
    <3>4. PortFits(n) <=> inside
        BY SMTT(30) DEF PortFits
    <3> HIDE DEF x
    <3>5. b <=> inside
        BY <3>1
    <3>6. a <=> b
        BY <3>1
    <3> HIDE DEF inside, a, b, n
    <3>8. a <=> PortFits(n)
        BY <3>4, <3>5, <3>6
    <3> QED BY <3>8 DEF a
  <2>2. HasPort <=> WordAt(n) = "port" /\ KindAt(n + 1) = "number"
      BY DEF HasPort
  <2>3. PortAt(n) <=> WordAt(n) = "port" /\ KindAt(n + 1) = "number" /\ PortFits(n)
      BY DEF PortAt
  <2> HIDE DEF n
  <2> DEFINE small == Int10(PortDigits) <= 65535
  <2>4. KindAt(n + 1) = "number" => (small <=> PortFits(n))
      BY <2>1
  <2> HIDE DEF small
  <2>5. HasPort /\ small <=> PortAt(n)
      BY <2>2, <2>3, <2>4
  <2> QED BY <2>5 DEF small
<1>10. IsHost => AddrAt(n) = 16777216 * Octets[1] + 65536 * Octets[2]
                               + 256 * Octets[3] + Octets[4]
  <2> SUFFICES ASSUME IsHost
               PROVE  AddrAt(n) = 16777216 * Octets[1] + 65536 * Octets[2]
                               + 256 * Octets[3] + Octets[4]
      OBVIOUS
  <2>1. \A k \in 1..4 : OctetAt(n, k) \in Nat
      BY <1>6 DEF IsHost
  <2>2. /\ OctetAt(n, 1) \in Nat /\ OctetAt(n, 2) \in Nat /\ OctetAt(n, 3) \in Nat
        /\ OctetAt(n, 4) \in Nat
      BY <2>1
  <2>3. /\ Octets[1] = OctetAt(n, 1) /\ Octets[2] = OctetAt(n, 2)
        /\ Octets[3] = OctetAt(n, 3) /\ Octets[4] = OctetAt(n, 4)
      BY <1>4
  <2> HIDE DEF n
  <2> QED BY <2>2, <2>3 DEF AddrAt
<1> QED BY <1>1, <1>2, <1>3, <1>5, <1>8, <1>9, <1>10

LEMMA PrimitiveGrammar ==
    ASSUME ParserInv, GrammarInv,
           PrimitiveProto \/ PrimitiveHost \/ PrimitivePort \/ PrimitivePortTooLong
             \/ PrimitiveFails
    PROVE  GrammarInv'
<1> DEFINE g == Grammar
           n == PastAt(pos)
           dir == DirAt(pos)
           addr == 16777216 * Octets[1] + 65536 * Octets[2] + 256 * Octets[3] + Octets[4]
           port == Int10(PortDigits)
           small == port <= 65535
<1>1. /\ Rules(g) /\ pos \in Nat /\ callers \in Seq(Waiting)
      /\ \A j \in Nat : g.prim[<<pos, j>>] = PrimitiveTrees(pos, j)
    BY GrammarAt
<1>2. at = "primitive"
    BY DEF PrimitiveProto, PrimitiveHost, PrimitivePort, PrimitivePortTooLong, PrimitiveFails
<1>3. at # "lexing" /\ (rest = <<>> => Situation(g, "primitive", pos, callers, result))
    BY <1>2 DEF GrammarInv
<1>4. /\ Past = n /\ Direction = dir /\ n \in Nat /\ n >= pos
      /\ IsProto <=> WordAt(pos) \in Protocols
      /\ IsHost <=> HostAt(n)
      /\ HasPort /\ small <=> PortAt(n)
      /\ PortAt(n) => OctetAt(n, 1) = port
      /\ IsHost => AddrAt(n) = addr
    BY PrimitiveReads
<1>5. ASSUME NEW j \in Nat, NEW u
      PROVE  u \in g.prim[<<pos, j>>] <=>
               \/ j = pos + 1 /\ IsProto /\ u = Proto(WordAt(pos))
               \/ j = n + 2 /\ IsHost /\ u = Host(addr, dir)
               \/ j = n + 2 /\ HasPort /\ small /\ u = Port(port, dir)
  <2>1. u \in PrimitiveTrees(pos, j) <=>
               \/ j = pos + 1 /\ WordAt(pos) \in Protocols /\ u = Proto(WordAt(pos))
               \/ j = n + 2 /\ HostAt(n) /\ u = Host(AddrAt(n), dir)
               \/ j = n + 2 /\ PortAt(n) /\ u = Port(OctetAt(n, 1), dir)
      BY <1>1, PrimitiveMember
  <2>2. g.prim[<<pos, j>>] = PrimitiveTrees(pos, j)
      BY <1>1
  <2> HIDE DEF g, n, dir, addr, port, small
  <2> QED BY <1>4, <2>1, <2>2
<1>6. /\ IsProto => n = pos /\ ~IsHost /\ ~HasPort
      /\ IsHost => ~HasPort
  <2>1. IsProto => Direction = "any" /\ WordAt(Past) \in Protocols
      BY DEF IsProto
  <2>2. IsHost => WordAt(Past) = "host"
      BY DEF IsHost
  <2>3. HasPort => WordAt(Past) = "port"
      BY DEF HasPort
  <2>4. "host" \notin Protocols /\ "port" \notin Protocols
      BY DEF Protocols
  <2>5. Direction = "any" => Past = pos
      BY DEF Past
  <2> QED BY <1>4, <2>1, <2>2, <2>3, <2>4, <2>5
<1> DEFINE Only(q, t) == \A j \in Nat : \A u : u \in g.prim[<<pos, j>>] <=> j = q /\ u = t
<1>7. ASSUME NEW q \in Nat, pos < q, NEW t, Only(q, t), Reduce(t, q)
      PROVE  GrammarInv'
  <2> HIDE DEF g
  <2>1. rest = <<>> => Situation(g, "return", q, callers, t)
      BY <1>1, <1>3, <1>7, PrimitiveSituation
  <2> QED BY <1>7, <2>1, GotoGrammar DEF Reduce, g
<1>8. CASE PrimitiveProto
  <2>1. IsProto /\ Reduce(Proto(WordAt(pos)), pos + 1)
    <3>1. IsProto /\ Reduce(Proto(WordAt(Past)), Past + 1)
        BY <1>8 DEF PrimitiveProto
    <3>2. Past = pos
        BY <1>4, <1>6, <3>1
    <3> QED BY <3>1, <3>2
  <2> HIDE DEF g, n, dir, addr, port, small
  <2>2. Only(pos + 1, Proto(WordAt(pos)))
      BY <1>5, <1>6, <2>1
  <2>3. pos + 1 \in Nat /\ pos < pos + 1
      BY <1>1
  <2> HIDE DEF Only
  <2> QED BY <1>7, <2>1, <2>2, <2>3
<1>9. CASE PrimitiveHost
  <2>1. IsHost /\ Reduce(Host(addr, dir), n + 2)
      BY <1>4, <1>9 DEF PrimitiveHost
  <2> HIDE DEF g, n, dir, addr, port, small
  <2>2. Only(n + 2, Host(addr, dir))
      BY <1>5, <1>6, <2>1
  <2>3. n + 2 \in Nat /\ pos < n + 2
      BY <1>1, <1>4
  <2> HIDE DEF Only
  <2> QED BY <1>7, <2>1, <2>2, <2>3
<1>10. CASE PrimitivePort
  <2>1. HasPort /\ small /\ Reduce(Port(port, dir), n + 2)
      BY <1>4, <1>10 DEF PrimitivePort
  <2> HIDE DEF g, n, dir, addr, port, small
  <2>2. Only(n + 2, Port(port, dir))
      BY <1>5, <1>6, <2>1
  <2>3. n + 2 \in Nat /\ pos < n + 2
      BY <1>1, <1>4
  <2> HIDE DEF Only
  <2> QED BY <1>7, <2>1, <2>2, <2>3
<1>11. CASE PrimitivePortTooLong
    BY <1>3, <1>11, RaiseGrammar DEF PrimitivePortTooLong
<1>12. CASE PrimitiveFails
  <2>1. ~IsProto /\ ~IsHost /\ (HasPort => port > 65535) /\ Fail
      BY <1>12 DEF PrimitiveFails
  <2>2. HasPort => port \in Nat
    <3> SUFFICES ASSUME HasPort PROVE port \in Nat
        OBVIOUS
    <3>1. KindAt(Past + 1) = "number" /\ Past + 1 \in Nat
        BY <1>4 DEF HasPort
    <3> QED BY <3>1, LiteralValue DEF PortDigits
  <2>3. HasPort => ~small
      BY <2>1, <2>2
  <2> HIDE DEF g, n, dir, addr, port, small
  <2>4. \A j \in Nat : g.prim[<<pos, j>>] = {}
      BY <1>5, <2>1, <2>3
  <2>5. rest = <<>> => Situation(g, "BPFCompileError", pos, callers, result)
      BY <1>1, <1>3, <2>4, NoPrimitiveSituation
  <2> QED BY <2>1, <2>5, FailGrammar DEF g
<1> QED BY <1>8, <1>9, <1>10, <1>11, <1>12

(* A loop of _and_expr or _or_expr, where joined is its node so far.       *)
LEMMA LoopGrammar ==
    ASSUME NEW method, NEW word, NEW operand \in {"not_expr", "and_expr"}, NEW joined,
           rest = <<>> =>
               IF WordAt(pos) = word
               THEN Situation(Grammar, operand, pos + 1,
                              Append(Popped, Caller(method, joined)), Nil)
               ELSE Situation(Grammar, "return", pos, Popped, joined),
           IF WordAt(pos) = word
           THEN Goto(operand, pos + 1, Append(Popped, Caller(method, joined)), Nil)
           ELSE Goto("return", pos, Popped, joined)
    PROVE  GrammarInv'
<1>1. CASE WordAt(pos) = word
  <2>1. operand # "lexing"
      OBVIOUS
  <2> QED BY <1>1, <2>1, GotoGrammar
<1>2. CASE WordAt(pos) # word
    BY <1>2, GotoGrammar
<1> QED BY <1>1, <1>2

LEMMA ReturnGrammar ==
    ASSUME ParserInv, GrammarInv,
           ReturnToNot \/ ReturnToAnd \/ ReturnToOr \/ ReturnToPrimary \/ Parse
    PROVE  GrammarInv'
<1> DEFINE g == Grammar
           node == callers[Len(callers)].node
<1>1. /\ Rules(g) /\ pos \in Nat /\ callers \in Seq(Waiting)
      /\ g.end = Len(tokens) + 1
      /\ g.word[pos] = WordAt(pos) /\ g.kind[pos] = KindAt(pos)
    BY GrammarAt
<1>2. at = "return"
    BY DEF ReturnToNot, ReturnToAnd, ReturnToOr, ReturnToPrimary, Parse, Loop, Returning
<1>3. /\ rest = <<>> => Situation(g, "return", pos, callers, result)
      /\ result \in AllTrees
    BY <1>2 DEF GrammarInv, ParserInv
<1> HIDE DEF g
<1>4. CASE ReturnToNot
  <2>1. callers # <<>> /\ callers[Len(callers)].method = "not_expr"
      BY <1>4 DEF ReturnToNot, Returning
  <2>2. rest = <<>> => Situation(g, "return", pos, Popped, Not(result))
      BY <1>1, <1>3, <2>1, ReturnNotSituation DEF Popped
  <2> QED BY <1>4, <2>2, GotoGrammar DEF ReturnToNot, g
<1>5. CASE ReturnToAnd
  <2> DEFINE joined == IF node = Nil THEN result ELSE And(node, result)
  <2>1. Returning("and_expr")
      BY <1>5 DEF ReturnToAnd, Loop
  <2>2. node \in Nodes /\ result \in AllTrees
      BY <2>1, ReturnFacts
  <2>3. joined \in AllTrees
      BY <2>2, TreesClosed DEF Nodes
  <2>4. IF WordAt(pos) = "and"
        THEN Goto("not_expr", pos + 1, Append(Popped, Caller("and_expr", joined)), Nil)
        ELSE Goto("return", pos, Popped, joined)
      BY <1>5 DEF ReturnToAnd, Loop
  <2>5. joined = Extended("and", node, result)
      BY DEF Extended, Pair, And
  <2>6. callers # <<>> /\ callers[Len(callers)].method = "and_expr"
      BY <2>1 DEF Returning
  <2> HIDE DEF joined
  <2>7. rest = <<>> =>
            IF WordAt(pos) = "and"
            THEN Situation(g, "not_expr", pos + 1,
                           Append(Popped, Caller("and_expr", joined)), Nil)
            ELSE Situation(g, "return", pos, Popped, joined)
      BY <1>1, <1>3, <2>3, <2>5, <2>6, ReturnAndSituation DEF Popped
  <2> QED BY <2>4, <2>7, LoopGrammar DEF g
<1>6. CASE ReturnToOr
  <2> DEFINE joined == IF node = Nil THEN result ELSE Or(node, result)
  <2>1. Returning("or_expr")
      BY <1>6 DEF ReturnToOr, Loop
  <2>2. node \in Nodes /\ result \in AllTrees
      BY <2>1, ReturnFacts
  <2>3. joined \in AllTrees
      BY <2>2, TreesClosed DEF Nodes
  <2>4. IF WordAt(pos) = "or"
        THEN Goto("and_expr", pos + 1, Append(Popped, Caller("or_expr", joined)), Nil)
        ELSE Goto("return", pos, Popped, joined)
      BY <1>6 DEF ReturnToOr, Loop
  <2>5. joined = Extended("or", node, result)
      BY DEF Extended, Pair, Or
  <2>6. callers # <<>> /\ callers[Len(callers)].method = "or_expr"
      BY <2>1 DEF Returning
  <2> HIDE DEF joined
  <2>7. rest = <<>> =>
            IF WordAt(pos) = "or"
            THEN Situation(g, "and_expr", pos + 1,
                           Append(Popped, Caller("or_expr", joined)), Nil)
            ELSE Situation(g, "return", pos, Popped, joined)
      BY <1>1, <1>3, <2>3, <2>5, <2>6, ReturnOrSituation DEF Popped
  <2> QED BY <2>4, <2>7, LoopGrammar DEF g
<1>7. CASE ReturnToPrimary
  <2>1. callers # <<>> /\ callers[Len(callers)].method = "primary"
      BY <1>7 DEF ReturnToPrimary, Returning
  <2>2. rest = <<>> => IF g.kind[pos] = ")"
           THEN Situation(g, "return", pos + 1, Popped, result)
           ELSE Situation(g, "BPFCompileError", pos, callers, result)
      BY <1>1, <1>3, <2>1, ReturnParenSituation DEF Popped
  <2>3. CASE KindAt(pos) = ")"
    <3>1. Goto("return", pos + 1, Popped, result)
        BY <1>7, <2>3 DEF ReturnToPrimary
    <3>2. rest = <<>> => Situation(g, "return", pos + 1, Popped, result)
        BY <1>1, <2>2, <2>3
    <3> QED BY <3>1, <3>2, GotoGrammar DEF g
  <2>4. CASE KindAt(pos) # ")"
    <3>1. Fail
        BY <1>7, <2>4 DEF ReturnToPrimary
    <3>2. rest = <<>> => Situation(g, "BPFCompileError", pos, callers, result)
        BY <1>1, <2>2, <2>4
    <3> QED BY <3>1, <3>2, FailGrammar DEF g
  <2> QED BY <2>3, <2>4
<1>8. CASE Parse
  <2>1. callers = <<>>
      BY <1>8 DEF Parse
  <2>2. rest = <<>> => IF pos = g.end
           THEN Situation(g, "parsed", pos, callers, result)
           ELSE Situation(g, "BPFCompileError", pos, callers, result)
      BY <1>1, <1>3, <2>1, ParseSituation
  <2>3. CASE pos = Len(tokens) + 1
    <3>1. Goto("parsed", pos, callers, result)
        BY <1>8, <2>3 DEF Parse, Raise
    <3>2. rest = <<>> => Situation(g, "parsed", pos, callers, result)
        BY <1>1, <2>2, <2>3
    <3> QED BY <3>1, <3>2, GotoGrammar DEF g
  <2>4. CASE pos # Len(tokens) + 1
    <3>1. Fail
        BY <1>8, <2>4 DEF Parse
    <3>2. rest = <<>> => Situation(g, "BPFCompileError", pos, callers, result)
        BY <1>1, <2>2, <2>4
    <3> QED BY <3>1, <3>2, FailGrammar DEF g
  <2> QED BY <2>3, <2>4
<1> QED BY <1>4, <1>5, <1>6, <1>7, <1>8

LEMMA ParserGrammar ==
    ASSUME ParserInv, GrammarInv, ParserNext
    PROVE  GrammarInv'
<1>1. CASE LexIpv4 \/ LexNumber \/ LexWord \/ LexParen \/ LexSpace \/ LexFails \/ LexEnds
    BY <1>1, LexGrammar
<1>2. CASE ParseTooDeep \/ OrExpr \/ AndExpr \/ NotExpr \/ Primary
    BY <1>2, CallGrammar
<1>3. CASE PrimitiveProto \/ PrimitiveHost \/ PrimitivePort \/ PrimitivePortTooLong
             \/ PrimitiveFails
    BY <1>3, PrimitiveGrammar
<1>4. CASE ReturnToNot \/ ReturnToAnd \/ ReturnToOr \/ ReturnToPrimary \/ Parse
    BY <1>4, ReturnGrammar
<1> QED BY <1>1, <1>2, <1>3, <1>4 DEF ParserNext

LEMMA GrammarStutter ==
    ASSUME GrammarInv, UNCHANGED parserVars
    PROVE  GrammarInv'
<1>1. UNCHANGED <<rest, tokens, at, pos, callers, result>>
    BY DEF parserVars
<1>2. Grammar' = Grammar
    BY <1>1, SameGrammar
<1> HIDE DEF Grammar
<1> QED BY <1>1, <1>2 DEF GrammarInv

LEMMA GrammarExact == GrammarInv => ParseExact
<1> SUFFICES ASSUME GrammarInv, rest = <<>>, at \in {"parsed", "BPFCompileError"}
             PROVE  /\ at = "parsed" => Derived[<<"or", 1, Len(tokens) + 1>>] = {result}
                    /\ at = "BPFCompileError" => Derived[<<"or", 1, Len(tokens) + 1>>] = {}
    BY DEF ParseExact
<1> DEFINE g == Grammar
<1>1. Whole(g) = Derived[<<"or", 1, Len(tokens) + 1>>]
    BY DEF Whole, SpelledBy, Grammar
<1>2. Situation(g, at, pos, callers, result)
    BY DEF GrammarInv
<1> HIDE DEF g
<1>3. PICK K : Expects(g, at, pos, result, K[Len(callers)])
    BY <1>2 DEF Situation
<1>4. /\ at = "parsed" => Whole(g) = {result}
      /\ at = "BPFCompileError" => Whole(g) = {}
    BY <1>3 DEF Expects
<1> QED BY <1>1, <1>4

(* Whatever the text: when the parser has accepted it, the grammar derives *)
(* exactly one tree from its tokens, and that is the tree it returned;     *)
(* when it has raised BPFCompileError on a text that was lexed to its end, *)
(* the grammar derives none.  The call stack of the methods, the loops of  *)
(* _and_expr and _or_expr and the places where a token is left to another  *)
(* method add up to the docstring's grammar, for every text and every      *)
(* depth the interpreter's stack admits.                                   *)
THEOREM ParsesExactly == FilterSpec => []ParseExact
<1>1. FilterInit => GrammarInv
    BY DEF FilterInit, ParserInit, GrammarInv
<1>2. FilterInv /\ GrammarInv /\ [FilterNext]_<<compiler, vm>> => GrammarInv'
  <2> SUFFICES ASSUME FilterInv, GrammarInv, [FilterNext]_<<compiler, vm>>
               PROVE  GrammarInv'
      OBVIOUS
  <2>1. CASE ParseText
    <3>1. ParserInv /\ ParserNext
        BY <2>1 DEF ParseText, FilterInv
    <3> QED BY <3>1, ParserGrammar
  <2>2. CASE UNCHANGED parserVars
      BY <2>2, GrammarStutter
  <2>3. CASE UseCanned \/ CompileParsed
      BY <2>2, <2>3 DEF UseCanned, CompileParsed
  <2>4. CASE UNCHANGED compiler
      BY <2>2, <2>4 DEF compiler
  <2>5. CASE Rejected
      BY <2>4, <2>5 DEF Rejected
  <2>6. CASE (\E p \in Frames : Deliver(p)) \/ StepLoad \/ StepLoadOutside \/ StepJump
                \/ StepRet
    <3>1. UNCHANGED compiler
        BY <2>6 DEF Deliver, StepLoad, StepLoadOutside, StepJump, StepRet
    <3> QED BY <2>4, <3>1
  <2> QED BY <2>1, <2>2, <2>3, <2>4, <2>5, <2>6 DEF FilterNext
<1> QED BY <1>1, <1>2, GrammarExact, FilterInductive, PTL DEF FilterSpec
=============================================================================
