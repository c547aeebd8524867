-------------------------- MODULE FilterReference --------------------------
(***************************************************************************)
(* What --filter promises, stated without the compiler: the grammar of     *)
(* bpf_compiler.py's docstring as a relation on tokens, and the meaning of *)
(* an expression on the fields of a frame, which knows nothing of offsets, *)
(* loads or jumps.                                                         *)
(***************************************************************************)
EXTENDS BpfFilter

(* What the grammar of bpf_compiler.py's docstring says an expression      *)
(* matches, on the fields of a frame.                                      *)
Carries(p, proto) == \/ p.proto = proto /\ p.eth \in {IPV4, IPV6}
                     \/ p.eth = IPV6 /\ p.proto = FRAGMENT_EXT_HEADER
                                     /\ p.inner = proto

EitherIs(src, dst, dir, value) == \/ dir # "dst" /\ src = value
                                  \/ dir # "src" /\ dst = value

MatchesProto(name, p) ==
    CASE name = "ip"   -> p.eth = IPV4
      [] name = "ip6"  -> p.eth = IPV6
      [] name = "arp"  -> p.eth = ARP
      [] name = "icmp" -> p.eth = IPV4 /\ p.proto = ICMP
      [] name = "tcp"  -> Carries(p, TCP)
      [] name = "udp"  -> Carries(p, UDP)

(* Ports are TCP's and UDP's, over IPv4 or directly behind IPv6's fixed    *)
(* header, and only the first fragment of an IPv4 datagram has them: what  *)
(* tcpdump's program for "port 80" in tests/test_bpf_compiler.py asks,     *)
(* SCTP set aside as the docstring does.                                   *)
CarriesPorts(p) == /\ p.proto \in {TCP, UDP}
                   /\ p.eth = IPV6 \/ (p.eth = IPV4 /\ p.frag % 8192 = 0)

Operands(e) == CASE e.op = "not" -> {e.operand}
                 [] e.op \in {"and", "or"} -> {e.left, e.right}
                 [] OTHER -> {}

(* Whether a node matches p, when below are the operands that do and ports *)
(* says whether p carries any.                                             *)
MatchesNode(e, p, below, ports) ==
    CASE e.op = "proto" -> MatchesProto(e.name, p)
      [] e.op = "host"  -> p.eth = IPV4 /\ EitherIs(p.src, p.dst, e.dir, e.addr)
      [] e.op = "port"  -> ports /\ EitherIs(p.sport, p.dport, e.dir, e.port)
      [] e.op = "not"   -> e.operand \notin below
      [] e.op = "and"   -> {e.left, e.right} \subseteq below
      [] e.op = "or"    -> {e.left, e.right} \cap below # {}

(* An expression's nodes, row by row, and those of each row that match.    *)
MatchesWith(e, p, ports) ==
    LET row[n \in Nat] == IF n = 0 THEN {e}
                          ELSE UNION {Operands(x) : x \in row[n - 1]}
        matching[n \in Nat] ==
            LET nodes == row[n]
            IN  IF nodes = {} THEN {}
                ELSE LET below == matching[n + 1]
                     IN  {x \in nodes : MatchesNode(x, p, below, ports)}
    IN  e \in matching[0]

Matches(e, p) == MatchesWith(e, p, CarriesPorts(p))

(* Whether p carries ports makes no difference to the expression.          *)
Indifferent(e, p) == MatchesWith(e, p, TRUE) <=> MatchesWith(e, p, FALSE)

-----------------------------------------------------------------------------
(* The grammar of bpf_compiler.py's docstring, as a relation.              *)
PrimitiveTrees(i, j) ==
    LET dir == IF WordAt(i) \in {"src", "dst"} THEN WordAt(i) ELSE "any"
        n == IF dir = "any" THEN i ELSE i + 1
        nums == tokens[n + 1].nums
    IN  CASE j = i + 1 /\ WordAt(i) \in Protocols -> {Proto(WordAt(i))}
          [] j = n + 2 /\ WordAt(n) = "host" /\ KindAt(n + 1) = "ipv4"
               /\ (\A k \in 1..4 : Int10(nums[k]) \in 0..255) ->
               {Host(Int10(nums[4]) + 256 * (Int10(nums[3]) + 256 *
                       (Int10(nums[2]) + 256 * Int10(nums[1]))), dir)}
          [] j = n + 2 /\ WordAt(n) = "port" /\ KindAt(n + 1) = "number"
               /\ Int10(nums[1]) \in 0..65535 -> {Port(Int10(nums[1]), dir)}
          [] OTHER -> {}

Joined(lefts, word, rights) ==
    IF rights = {} THEN {}
    ELSE {[op |-> word, left |-> l, right |-> r] : l \in lefts, r \in rights}

(* The trees that the tokens from i up to j (not included) derive, when d  *)
(* has those of other symbols and shorter spans.  or_expr and and_expr: an *)
(* operand, or a chain, the word, and one more operand;                    *)
ChainTrees(d, word, operand, i, j) ==
    d[<<operand, i, j>>] \cup
        UNION {Joined(d[<<word, i, n>>], word, d[<<operand, n + 1, j>>]) :
               n \in {m \in i..(j - 1) : WordAt(m) = word}}

(* not_expr and primary.                                                   *)
NotTrees(d, i, j) ==
    IF i >= j THEN {}
    ELSE IF WordAt(i) = "not" THEN {Not(t) : t \in d[<<"not", i + 1, j>>]}
    ELSE IF KindAt(i) = "(" /\ KindAt(j - 1) = ")" THEN d[<<"or", i + 1, j - 1>>]
    ELSE PrimitiveTrees(i, j)

Derived[x \in {"or", "and", "not"} \X Nat \X Nat] ==
    CASE x[1] = "or"  -> ChainTrees(Derived, "or", "and", x[2], x[3])
      [] x[1] = "and" -> ChainTrees(Derived, "and", "not", x[2], x[3])
      [] x[1] = "not" -> NotTrees(Derived, x[2], x[3])

(* "Anything outside this grammar is a compile error, never a best-effort  *)
(* guess": the parser accepts exactly the token sequences the grammar      *)
(* derives, and returns the one tree it gives them, precedence and         *)
(* association to the left included.                                       *)
ParseExact ==
    phase = "idle" /\ rest = <<>> =>
        /\ at = "parsed" => Derived[<<"or", 1, Len(tokens) + 1>>] = {result}
        /\ at = "BPFCompileError" => Derived[<<"or", 1, Len(tokens) + 1>>] = {}

(* Nothing the programs look at is missing: 58 bytes reach behind the      *)
(* ports of IPv6, and IPv4's stand behind its options.                     *)
Complete(p) == p.len >= 58 /\ p.len >= 18 + 4 * p.ihl

(* A filter never lies about a frame of IPv4 or IPv6: a complete one is    *)
(* kept if and only if it matches the expression; one cut short is kept    *)
(* only if it matches as far as it was looked at, whatever the missing     *)
(* bytes were, so that "not" never turns bytes that are not there into a   *)
(* match.  The same holds of any other frame as long as the answer does    *)
(* not hang on whether it has ports, which _compile_port takes for granted *)
(* (AgreesWithTcpdump).                                                    *)
VerdictCorrect ==
    verdict >= 0 /\ (frame.eth \in {IPV4, IPV6} \/ Indifferent(expr, frame)) =>
        /\ verdict > 0 => Matches(expr, frame)
        /\ Complete(frame) => (verdict > 0 <=> Matches(expr, frame))

-----------------------------------------------------------------------------
(* What the documentation says and the code does not keep.                 *)

(* "What must match is *behavior*: [...] asserting they always agree on    *)
(* accept/reject" (bpf_compiler.py's docstring, of tcpdump's programs and  *)
(* this compiler's): a complete frame is kept if and only if it matches.   *)
AgreesWithTcpdump ==
    verdict >= 0 /\ Complete(frame) => (verdict > 0 <=> Matches(expr, frame))
=============================================================================
