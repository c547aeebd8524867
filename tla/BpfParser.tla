----------------------------- MODULE BpfParser -----------------------------
(***************************************************************************)
(* The lexer and the recursive-descent parser of bpf_compiler.py: from the *)
(* text of --filter to an AST, or an exception.                            *)
(*                                                                         *)
(* A text is a sequence of pieces: a run of letters, a run of digits, or   *)
(* one other character.  Only digits are looked into, since the pattern of *)
(* an address may end in the middle of a run of them.  The parser's        *)
(* recursion is its explicit call stack, and each action is one turn of    *)
(* _tokenize, one call of a parser method, or one return to its caller.    *)
(***************************************************************************)
EXTENDS Integers, Sequences, FiniteSets, BpfAst

CONSTANTS
    Texts,      \* the texts a user may give
    DigitLimit  \* digits int() converts before ValueError (4300)

(* A piece of text: its class, its letters and its digits.  A keyword is   *)
(* always one piece of letters, "ip6" with its digit.                      *)
Pieces == [c : STRING, t : STRING, d : Seq(0..9)]

(* A run of digits ends where the digits do.                               *)
ASSUME ParserAssumption ==
    /\ DigitLimit \in Nat
    /\ Texts \subseteq Seq(Pieces)
    /\ \A t \in Texts : \A i \in 2..Len(t) :
           t[i].c = "digits" => t[i - 1].c # "digits"

VARIABLES
    source,     \* the text
    rest,       \* what _tokenize has not consumed
    tokens,     \* the tokens so far
    at,         \* the parser method being called, "return", or the outcome
    pos,        \* _Parser._pos, from 1
    callers,    \* the methods waiting for a result, the latest last
    result      \* the node being returned; Nil before there is one

parserVars == <<source, rest, tokens, at, pos, callers, result>>

Nil == [op |-> "nil"]
Protocols == {"tcp", "udp", "icmp", "arp", "ip", "ip6"}

-----------------------------------------------------------------------------
(* Runs of letters and digits, other characters, and tokens.               *)
Letters(t) == [c |-> "letters", t |-> t, d |-> <<>>]
Digits(d) == [c |-> "digits", t |-> "", d |-> d]
Char(c) == [c |-> c, t |-> "", d |-> <<>>]

Token(kind, text, nums) == [kind |-> kind, text |-> text, nums |-> nums]

(* The decimal value of a run of digits.                                   *)
Int10(d) == LET v[n \in 0..Len(d)] == IF n = 0 THEN 0 ELSE 10 * v[n - 1] + d[n]
            IN  v[Len(d)]

Drop(s, n) == SubSeq(s, n + 1, Len(s))

Next1(class) == rest # <<>> /\ rest[1].c = class

(* \d{1,3}\.\d{1,3}\.\d{1,3}\.\d{1,3} at the head of what is left.         *)
AtIpv4 == /\ Len(rest) >= 7
          /\ \A n \in {1, 3, 5, 7} : rest[n].c = "digits"
          /\ \A n \in {2, 4, 6} : rest[n].c = "."
          /\ \A n \in {1, 3, 5} : Len(rest[n].d) <= 3

Lexed(new, left) == /\ tokens' = tokens \o new
                    /\ rest' = left
                    /\ UNCHANGED <<source, at, pos, callers, result>>

(* The last \d{1,3} takes three digits of a longer run and leaves the      *)
(* others in the input.                                                    *)
LexIpv4 ==
    /\ at = "lexing" /\ AtIpv4
    /\ LET d == rest[7].d
           n == IF Len(d) > 3 THEN 3 ELSE Len(d)
       IN  Lexed(<<Token("ipv4", "", <<rest[1].d, rest[3].d, rest[5].d,
                                       SubSeq(d, 1, n)>>)>>,
                 (IF n < Len(d) THEN <<Digits(Drop(d, n))>> ELSE <<>>)
                    \o Drop(rest, 7))

LexNumber == /\ at = "lexing" /\ Next1("digits") /\ ~AtIpv4
             /\ Lexed(<<Token("number", "", <<rest[1].d>>)>>, Tail(rest))

(* A word takes every letter and digit that follows: run together with     *)
(* something else, a keyword is one no more.  (That "ip" and "6" run       *)
(* together spell "ip6" is what the convention on Pieces is for.)          *)
LexWord ==
    /\ at = "lexing" /\ Next1("letters")
    /\ LET ends == {n \in 1..Len(rest) :
                        \A i \in 1..n : rest[i].c \in {"letters", "digits"}}
           n == CHOOSE m \in ends : \A k \in ends : k <= m
       IN  Lexed(<<Token("word", IF n = 1 THEN rest[1].t ELSE "unknown", <<>>)>>,
                 Drop(rest, n))

LexParen == /\ at = "lexing" /\ (Next1("(") \/ Next1(")"))
            /\ Lexed(<<Token(rest[1].c, "", <<>>)>>, Tail(rest))

LexSpace == /\ at = "lexing" /\ Next1(" ")
            /\ Lexed(<<>>, Tail(rest))

-----------------------------------------------------------------------------
Goto(method, p, stack, node) ==
    /\ at' = method /\ pos' = p /\ callers' = stack /\ result' = node
    /\ UNCHANGED <<source, rest, tokens>>

Raise(error) == Goto(error, pos, callers, result)

Fail == Raise("BPFCompileError")

(* No pattern matches at the next character.                               *)
LexFails == /\ at = "lexing" /\ rest # <<>>
            /\ rest[1].c \notin {"digits", "letters", "(", ")", " "}
            /\ Fail

(* compile_expression: an empty list of tokens is refused, otherwise the   *)
(* parser starts.                                                          *)
LexEnds == /\ at = "lexing" /\ rest = <<>>
           /\ IF tokens = <<>> THEN Fail ELSE Goto("or_expr", 1, <<>>, Nil)

KindAt(p) == IF p \in DOMAIN tokens THEN tokens[p].kind ELSE "end"
WordAt(p) == IF KindAt(p) = "word" THEN tokens[p].text ELSE ""

(* A caller waiting for its callee: _or_expr and _and_expr with what they  *)
(* have so far, _not_expr behind a "not", _primary behind a "(" (with the  *)
(* _not_expr that called it).                                              *)
Caller(method, node) == [method |-> method, node |-> node]

Depth == Len(callers)
           + Cardinality({n \in DOMAIN callers : callers[n].method = "primary"})

Calling(method) == at = method /\ Depth <= RecLimit

ParseTooDeep == /\ at \in {"or_expr", "and_expr", "not_expr", "primary"}
                /\ Depth > RecLimit
                /\ Raise("RecursionError")

OrExpr == /\ Calling("or_expr")
          /\ Goto("and_expr", pos, Append(callers, Caller("or_expr", Nil)), Nil)

AndExpr == /\ Calling("and_expr")
           /\ Goto("not_expr", pos, Append(callers, Caller("and_expr", Nil)), Nil)

(* "not" takes a whole and_expr.                                           *)
NotExprLoose ==
    /\ Calling("not_expr")
    /\ IF WordAt(pos) = "not"
       THEN Goto("and_expr", pos + 1, Append(callers, Caller("not_expr", Nil)), Nil)
       ELSE Goto("primary", pos, callers, Nil)

NotExpr ==
    /\ Calling("not_expr")
    /\ IF WordAt(pos) = "not"
       THEN Goto("not_expr", pos + 1, Append(callers, Caller("not_expr", Nil)), Nil)
       ELSE Goto("primary", pos, callers, Nil)

Primary ==
    /\ Calling("primary")
    /\ IF KindAt(pos) = "("
       THEN Goto("or_expr", pos + 1, Append(callers, Caller("primary", Nil)), Nil)
       ELSE Goto("primitive", pos, callers, Nil)

-----------------------------------------------------------------------------
(* _primitive: an optional direction in front of host or port, or a        *)
(* protocol without one.                                                   *)
Direction == IF WordAt(pos) \in {"src", "dst"} THEN WordAt(pos) ELSE "any"
Past == IF Direction = "any" THEN pos ELSE pos + 1

Octets == [n \in 1..4 |-> Int10(tokens[Past + 1].nums[n])]
PortDigits == tokens[Past + 1].nums[1]

IsProto == Direction = "any" /\ WordAt(Past) \in Protocols
IsHost == /\ WordAt(Past) = "host" /\ KindAt(Past + 1) = "ipv4"
          /\ \A n \in 1..4 : Octets[n] <= 255
HasPort == WordAt(Past) = "port" /\ KindAt(Past + 1) = "number"
TooLong == Len(PortDigits) > DigitLimit

Reduce(node, p) == Goto("return", p, callers, node)

PrimitiveProto == /\ at = "primitive" /\ IsProto
                  /\ Reduce(Proto(WordAt(Past)), Past + 1)

(* _parse_ipv4: the octets shifted into one number.                        *)
PrimitiveHost ==
    /\ at = "primitive" /\ IsHost
    /\ Reduce(Host(16777216 * Octets[1] + 65536 * Octets[2] + 256 * Octets[3]
                     + Octets[4], Direction), Past + 2)

PrimitivePort == /\ at = "primitive" /\ HasPort /\ ~TooLong
                 /\ Int10(PortDigits) <= 65535
                 /\ Reduce(Port(Int10(PortDigits), Direction), Past + 2)

(* int() refuses an overlong text, with a ValueError of its own.           *)
PrimitivePortTooLong == /\ at = "primitive" /\ HasPort /\ TooLong
                        /\ Raise("ValueError")

PrimitiveFails == /\ at = "primitive"
                  /\ ~IsProto /\ ~IsHost
                  /\ HasPort => ~TooLong /\ Int10(PortDigits) > 65535
                  /\ Fail

-----------------------------------------------------------------------------
(* A method returns to the one that called it.                             *)
Returning(method) == /\ at = "return" /\ callers # <<>>
                     /\ callers[Len(callers)].method = method

Popped == SubSeq(callers, 1, Len(callers) - 1)

ReturnToNot == /\ Returning("not_expr")
               /\ Goto("return", pos, Popped, Not(result))

(* The loops of _and_expr and _or_expr: what was parsed joins the node to  *)
(* its left; another operator calls the operand's method again.            *)
Loop(method, word, Join(_, _), operand) ==
    LET node == callers[Len(callers)].node
        joined == IF node = Nil THEN result ELSE Join(node, result)
    IN  /\ Returning(method)
        /\ IF WordAt(pos) = word
           THEN Goto(operand, pos + 1, Append(Popped, Caller(method, joined)), Nil)
           ELSE Goto("return", pos, Popped, joined)

ReturnToAnd == Loop("and_expr", "and", And, "not_expr")

ReturnToOr == Loop("or_expr", "or", Or, "and_expr")

ReturnToPrimary == /\ Returning("primary")
                   /\ IF KindAt(pos) = ")" THEN Goto("return", pos + 1, Popped, result)
                                           ELSE Fail

(* parse() takes whatever the first expression leaves.                     *)
ParseLeavesRest == at = "return" /\ callers = <<>> /\ Raise("parsed")

(* parse(): nothing may be left over.                                      *)
Parse == /\ at = "return" /\ callers = <<>>
         /\ IF pos = Len(tokens) + 1 THEN Raise("parsed") ELSE Fail

ParserInit == /\ source \in Texts /\ rest = source
              /\ tokens = <<>> /\ at = "lexing" /\ pos = 1
              /\ callers = <<>> /\ result = Nil

ParserNext == \/ LexIpv4 \/ LexNumber \/ LexWord \/ LexParen \/ LexSpace
              \/ LexFails \/ LexEnds
              \/ ParseTooDeep \/ OrExpr \/ AndExpr \/ NotExpr \/ Primary
              \/ PrimitiveProto \/ PrimitiveHost \/ PrimitivePort
              \/ PrimitivePortTooLong \/ PrimitiveFails
              \/ ReturnToNot \/ ReturnToAnd \/ ReturnToOr \/ ReturnToPrimary
              \/ Parse

Refused == at \in {"BPFCompileError", "RecursionError", "ValueError"}
-----------------------------------------------------------------------------
(* "A wrong filter makes a security tool lie": an accepted text is         *)
(* understood as it is written.  Every run of digits and dots in it that   *)
(* is not part of a word is one number or one address, although the lexer  *)
(* may cut such a run in two ("host 1.2.3.1234").                          *)
NoLiteralSplit ==
    at = "parsed" =>
        LET runs == {i \in DOMAIN source :
                        /\ source[i].c = "digits"
                        /\ i = 1 \/ source[i - 1].c \notin {"letters", "."}}
            literals == {n \in DOMAIN tokens : tokens[n].kind \in {"number", "ipv4"}}
        IN  Cardinality(runs) = Cardinality(literals)
=============================================================================
