---------------------------- MODULE MCBpfFilter ----------------------------
EXTENDS FilterReference, SequencesExt

tcp == Proto("tcp")
Dirs == {"any", "src", "dst"}
AddrA == 167772161                              \* 10.0.0.1
AddrB == 167772162

Primitives == {Proto(name) : name \in {"tcp", "udp", "icmp", "arp", "ip", "ip6"}}
                \cup {Host(AddrA, d) : d \in Dirs} \cup {Port(443, d) : d \in Dirs}

(* One more operator on top of expressions from a set.                     *)
Over(S) == S \cup {Not(e) : e \in S}
             \cup {And(l, r) : l \in S, r \in S} \cup {Or(l, r) : l \in S, r \in S}

(* "p or p or ... or p": n primitives; "not not ... not p": n times not.   *)
OrChain(n, p) == FoldLeft(LAMBDA e, q : Or(e, q), p, [i \in 1..(n - 1) |-> p])
Nots(n, p) == FoldLeft(LAMBDA e, i : Not(e), p, [i \in 1..n |-> i])

(* Every expression of one operator over all primitives, every one of two  *)
(* over tcp and src host, the chains around the jump limit, and one each   *)
(* that is too deep for the code generator and for the parser.             *)
Expressions == Over(Primitives) \cup Over(Over({tcp, Host(AddrA, "src")}))
                 \cup {OrChain(n, tcp) : n \in {21, 22, 32}} \cup {Nots(31, tcp)}

-----------------------------------------------------------------------------
(* Expressions as text, with no more parentheses than they need: level is  *)
(* 1 for or, 2 for and, 3 for the rest.                                    *)
Ip(a, b, c, d) == <<Digits(a), Char("."), Digits(b), Char("."), Digits(c),
                    Char("."), Digits(d)>>
Words(w) == FlattenSeq([i \in DOMAIN w |-> <<Letters(w[i]), Char(" ")>>])
Dir(d) == IF d = "any" THEN <<>> ELSE <<d>>
Level(e) == CASE e.op = "or" -> 1 [] e.op = "and" -> 2 [] OTHER -> 3

RECURSIVE Spell(_, _)
Spell(e, level) ==
    IF Level(e) < level
    THEN <<Char("(")>> \o Spell(e, 1) \o <<Char(")")>>
    ELSE CASE e.op = "proto" -> <<Char(" "), Letters(e.name)>>
           [] e.op = "host"  -> Words(Dir(e.dir) \o <<"host">>)
                                  \o Ip(<<1, 0>>, <<0>>, <<0>>, <<1>>)
           [] e.op = "port"  -> Words(Dir(e.dir) \o <<"port">>)
                                  \o <<Digits(<<4, 4, 3>>)>>
           [] e.op = "not"   -> Words(<<"not">>) \o Spell(e.operand, 3)
           [] e.op \in {"and", "or"} ->
                Spell(e.left, Level(e)) \o <<Char(" ")>> \o Words(<<e.op>>)
                  \o Spell(e.right, Level(e) + 1)

(* Every short sequence of tokens, grammatical or not.                     *)
Some == {Letters("tcp"), Letters("not"), Letters("and"), Letters("or"),
         Char("("), Char(")")}
More == {Letters("tcp"), Letters("not"), Letters("and"), Letters("src"), Letters("host"),
         Letters("port"), Letters("sctp"), Digits(<<8, 0>>), Char("?")}
Spaced(pieces) == FlattenSeq([i \in DOMAIN pieces |-> <<pieces[i], Char(" ")>>])
Tokens == {Spaced(t) : t \in SeqOf(Some, 5) \cup SeqOf(More, 4)}

(* Literals at their limits, cut in two by the lexer, or touching a word.  *)
Numbers == {<<0>>, <<2, 5, 5>>, <<2, 5, 6>>, <<1, 2, 3, 4>>}
Literals ==
    {Words(<<"host">>) \o Ip(a, <<1>>, c, d) \o tail :
        a \in Numbers \ {<<2, 5, 5>>}, c \in Numbers, d \in Numbers,
        tail \in {<<>>, <<Letters("and"), Char(" "), Letters("tcp")>>,
                  <<Char("."), Digits(<<5>>)>>}}
    \cup {Words(<<"host">>) \o Ip(<<1>>, <<2>>, <<3>>, <<1, 2, 3, 4>>)
             \o Tail(Ip(<<4>>, <<5>>, <<6>>, <<7>>))}
    \cup {Words(<<"port">>) \o <<Digits(d)>> \o tail :
        d \in {<<0>>, <<0, 0, 8, 0>>, <<6, 5, 5, 3, 5>>, <<6, 5, 5, 3, 6>>,
               <<0, 0, 0, 0, 0, 0, 0, 0, 8>>},
        tail \in {<<>>, <<Letters("or"), Char(" "), Letters("tcp")>>,
                  <<Char("("), Letters("tcp"), Char(")")>>}}
    \cup {<<Letters("port"), Digits(<<8, 0>>)>>, <<Letters("tcp"), Letters("udp")>>}

CannedNames == {<<Letters(name)>> : name \in {"tcp", "udp", "arp", "ip6"}}
SomeTexts == {Spell(e, 1) : e \in Expressions} \cup Tokens \cup Literals \cup CannedNames

(* Longer or deeper than Python's stack, or than int() converts.           *)
LargeTexts == {Spell(OrChain(12, tcp), 1), Spell(Nots(11, tcp), 1)}

(* "port 443", of which SomeFrames has a frame that only looks like IPv4.  *)
PortTexts == {Spell(Port(443, "any"), 1)}

(* test_bpf_compiler.py: 21 ORed primitives compile; 22 are the only       *)
(* expression here that is refused because a jump does not fit its byte.   *)
ChainLimit == /\ phase = "done" => expr # OrChain(22, tcp)
              /\ phase = "BPFCompileError" => expr = OrChain(22, tcp)

-----------------------------------------------------------------------------
Base == [eth |-> IPV4, proto |-> TCP, inner |-> 0, frag |-> 0, ihl |-> 5,
         src |-> AddrB, dst |-> AddrB, sport |-> 80, dport |-> 80, len |-> 60]

(* IPv4: protocols, flags and fragment offsets (don't fragment, the first  *)
(* fragment, a later one), header lengths, addresses and ports that differ *)
(* in their last byte only.                                                *)
V4 == {[Base EXCEPT !.proto = pr, !.src = a, !.dport = d, !.ihl = h] :
           pr \in {TCP, UDP, ICMP}, a \in {AddrA, AddrB}, d \in {443, 444},
           h \in {5, 6}}
      \cup {[Base EXCEPT !.frag = fr, !.sport = 443] :
               fr \in {16384, 8192, 8377, 185}}
      \cup {[Base EXCEPT !.dst = AddrA, !.proto = UDP, !.sport = 443]}
V6 == {[Base EXCEPT !.eth = IPV6, !.proto = pr, !.inner = inn, !.sport = s] :
           pr \in {TCP, UDP, 44, 58}, inn \in {TCP, 58}, s \in {443, 444}}
Cut == {[Base EXCEPT !.len = l, !.dport = 443, !.dst = AddrA] :
           l \in {12, 13, 22, 23, 24, 29, 33, 34, 35, 37, 38}}
       \cup {[Base EXCEPT !.eth = IPV6, !.proto = pr, !.inner = TCP, !.len = l,
                           !.dport = 443] :
                l \in {20, 21, 54, 55, 57}, pr \in {TCP, 44}}
(* Not IP: an ARP request, whose operation stands where IPv4 has its       *)
(* fragment offset, and a frame of a local experimental ethertype whose    *)
(* payload reads like IPv4.                                                *)
NotIp == {[Base EXCEPT !.eth = ARP, !.frag = 1],
          [Base EXCEPT !.eth = 34997, !.dport = 443, !.src = AddrA]}
SomeFrames == V4 \cup V6 \cup Cut \cup NotIp
=============================================================================
