---------------------------- MODULE BpfCodegen ----------------------------
(***************************************************************************)
(* The code generator of rootwire/bpf_compiler.py: a parsed filter         *)
(* expression is compiled, against two continuation labels, to a stream of *)
(* labels and pseudo-instructions, which a second pass resolves to the     *)
(* relative jump offsets of classic BPF.                                   *)
(*                                                                         *)
(* The recursion of _compile is its explicit call stack: todo holds, in    *)
(* the order Python will reach them, the nodes still to be compiled and    *)
(* the labels and instructions to be placed between and after them.  Each  *)
(* action is one call of _compile, one place()/emit() of a caller that     *)
(* resumes, or the resolution pass.                                        *)
(***************************************************************************)
EXTENDS Integers, Sequences, FiniteSets, BpfAst

CONSTANTS
    Exprs,      \* the ASTs the parser may hand to the code generator
    MaxJump,    \* largest offset an 8-bit jt/jf holds (255 in the code)
    MaxInsns    \* BPF_MAXINSNS, the kernel's bound on a program (4096)

ASSUME BpfAssumption == MaxJump \in Nat /\ MaxInsns \in Nat

VARIABLES
    expr,       \* the AST being compiled
    todo,       \* the call stack of _compile, next thing first
    items,      \* _Emitter.items: what has been placed and emitted
    labels,     \* _Emitter._counter: labels 1..labels exist
    phase,      \* how far compile_expression has come
    program     \* the tuple of instructions it returns

vars == <<expr, todo, items, labels, phase, program>>

-----------------------------------------------------------------------------
(* Ethertypes, protocol numbers and the value that accepts a whole frame.  *)
IPV4 == 2048
IPV6 == 34525
ARP == 2054
TCP == 6
UDP == 17
ICMP == 1
FRAGMENT_EXT_HEADER == 44
FRAG_MASK == 8191
ACCEPT_LENGTH == 262144

-----------------------------------------------------------------------------
(* Labels and pseudo-instructions.  Label 0 stands for None: a label only  *)
(* matters by its identity, which is its number.                           *)
Codes == {"ldh", "ldb", "ldw", "ldhx", "ldxmsh", "jeq", "jset", "ret"}
Jumps == {"jeq", "jset"}
AccLoads == {"ldh", "ldb", "ldw", "ldhx"}

Label(l) == [code |-> "label", k |-> 0, jt |-> l, jf |-> l]
PInsn(code, k) == [code |-> code, k |-> k, jt |-> 0, jf |-> 0]
Jump(code, k, t, f) == [code |-> code, k |-> k, jt |-> t, jf |-> f]

Items == [code : Codes \cup {"label"}, k : Nat, jt : Nat, jf : Nat]

(* _test_at: load, then compare; the accumulator is never reused.          *)
TestAt(code, offset, value, t, f) ==
    <<PInsn(code, offset), Jump("jeq", value, t, f)>>

(* As tcpdump does: the next header stays in the accumulator.              *)
CompileTcpOrUdpReuses(proto, t, f, n) ==
       TestAt("ldh", 12, IPV6, n + 1, n + 2)
    \o <<Label(n + 1)>> \o TestAt("ldb", 20, proto, t, n + 3)
    \o <<Label(n + 3), Jump("jeq", FRAGMENT_EXT_HEADER, n + 4, f)>>
    \o <<Label(n + 4)>> \o TestAt("ldb", 54, proto, t, f)
    \o <<Label(n + 2)>> \o TestAt("ldh", 12, IPV4, n + 5, f)
    \o <<Label(n + 5)>> \o TestAt("ldb", 23, proto, t, f)

(* _compile_tcp_or_udp: the protocol field of IPv4, or IPv6's next header  *)
(* looking one hop past a Fragment header.                                 *)
CompileTcpOrUdp(proto, t, f, n) ==
    LET v6 == n + 1  v4 == n + 2  afterFrag == n + 3
        peek == n + 4  v4Proto == n + 5
    IN     TestAt("ldh", 12, IPV6, v6, v4)
        \o <<Label(v6)>> \o TestAt("ldb", 20, proto, t, afterFrag)
        \o <<Label(afterFrag)>>
        \o TestAt("ldb", 20, FRAGMENT_EXT_HEADER, peek, f)
        \o <<Label(peek)>> \o TestAt("ldb", 54, proto, t, f)
        \o <<Label(v4)>> \o TestAt("ldh", 12, IPV4, v4Proto, f)
        \o <<Label(v4Proto)>> \o TestAt("ldb", 23, proto, t, f)

CompileProto(name, t, f, n) ==
    CASE name = "ip"   -> TestAt("ldh", 12, IPV4, t, f)
      [] name = "arp"  -> TestAt("ldh", 12, ARP, t, f)
      [] name = "ip6"  -> TestAt("ldh", 12, IPV6, t, f)
      [] name = "icmp" -> TestAt("ldh", 12, IPV4, n + 1, f)
                            \o <<Label(n + 1)>> \o TestAt("ldb", 23, ICMP, t, f)
      [] name = "tcp"  -> CompileTcpOrUdp(TCP, t, f, n)
      [] name = "udp"  -> CompileTcpOrUdp(UDP, t, f, n)

(* Compare a source and/or a destination field: the tail of _compile_host  *)
(* and the whole of _compile_port_value.                                   *)
CompareFields(code, src, dst, dir, value, t, f, n) ==
    CASE dir = "src" -> TestAt(code, src, value, t, f)
      [] dir = "dst" -> TestAt(code, dst, value, t, f)
      [] dir = "any" -> TestAt(code, src, value, t, n + 1)
                            \o <<Label(n + 1)>>
                            \o TestAt(code, dst, value, t, f)

CompileHost(addr, dir, t, f, n) ==
    TestAt("ldh", 12, IPV4, n + 1, f) \o <<Label(n + 1)>>
        \o CompareFields("ldw", 26, 30, dir, addr, t, f, n + 1)

(* TCP or UDP in the protocol field at the offset, else on_false.          *)
TransportAt(offset, f, n) ==
    LET checkUdp == n + 1  matched == n + 2
    IN     TestAt("ldb", offset, TCP, matched, checkUdp) \o <<Label(checkUdp)>>
        \o TestAt("ldb", offset, UDP, matched, f) \o <<Label(matched)>>

CompilePortV6(port, dir, t, f, n) ==
    TransportAt(20, f, n) \o CompareFields("ldh", 54, 56, dir, port, t, f, n + 2)

CompilePortV4(port, dir, t, f, n) ==
    LET notFragment == n + 3
    IN     TransportAt(23, f, n)
        \o <<PInsn("ldh", 20), Jump("jset", FRAG_MASK, f, notFragment),
             Label(notFragment), PInsn("ldxmsh", 14)>>
        \o CompareFields("ldhx", 14, 16, dir, port, t, f, n + 3)

CompilePort(port, dir, t, f, n) ==
    LET v6 == n + 1  v4 == n + 2
    IN     TestAt("ldh", 12, IPV6, v6, v4)
        \o <<Label(v6)>> \o CompilePortV6(port, dir, t, f, n + 2)
        \o <<Label(v4)>> \o CompilePortV4(port, dir, t, f, n + 5)

(* The most labels one primitive takes: those of a port without direction. *)
(* Every primitive reserves as many, since labels differ only by identity. *)
LabelsPerBlock == 9

Block(e, t, f, n) ==
    CASE e.op = "proto" -> CompileProto(e.name, t, f, n)
      [] e.op = "host"  -> CompileHost(e.addr, e.dir, t, f, n)
      [] e.op = "port"  -> CompilePort(e.port, e.dir, t, f, n)

-----------------------------------------------------------------------------
(* An entry of the call stack: a call of _compile at a nesting depth, or   *)
(* an item that a caller places or emits when its callee has returned.     *)
Call(e, t, f, d) == [what |-> "call", node |-> e, t |-> t, f |-> f, depth |-> d]
Emit(item) == [what |-> "emit", item |-> item]

accept == 1
reject == 2

FrameRejectFirst(e) == <<Emit(Label(reject)), Emit(PInsn("ret", 0)),
                         Call(e, accept, reject, 1),
                         Emit(Label(accept)), Emit(PInsn("ret", ACCEPT_LENGTH))>>

(* compile_expression's frame around the expression.                       *)
Frame(e) == <<Call(e, accept, reject, 1),
              Emit(Label(accept)), Emit(PInsn("ret", ACCEPT_LENGTH)),
              Emit(Label(reject)), Emit(PInsn("ret", 0))>>

Init == /\ expr \in Exprs
        /\ todo = Frame(expr)
        /\ items = <<>>
        /\ labels = 2
        /\ phase = "compiling"
        /\ program = <<>>

CompileCall(ops) == /\ phase = "compiling"
                /\ todo # <<>>
                /\ todo[1].what = "call"
                /\ todo[1].depth <= RecLimit
                /\ todo[1].node.op \in ops

(* One more call on the stack than Python allows: RecursionError, which is *)
(* not a BPFCompileError.                                                  *)
CompileTooDeep == /\ phase = "compiling"
                  /\ todo # <<>>
                  /\ todo[1].what = "call"
                  /\ todo[1].depth > RecLimit
                  /\ phase' = "RecursionError"
                  /\ UNCHANGED <<expr, todo, items, labels, program>>

CompilePrimitive ==
    /\ CompileCall({"proto", "host", "port"})
    /\ items' = items \o Block(todo[1].node, todo[1].t, todo[1].f, labels)
    /\ labels' = labels + LabelsPerBlock
    /\ todo' = Tail(todo)
    /\ UNCHANGED <<expr, phase, program>>

CompileNotUnswapped ==
    /\ CompileCall({"not"})
    /\ LET c == todo[1] IN
       todo' = <<Call(c.node.operand, c.t, c.f, c.depth + 1)>> \o Tail(todo)
    /\ UNCHANGED <<expr, items, labels, phase, program>>

(* not: no code, the operand's labels are swapped.                         *)
CompileNot ==
    /\ CompileCall({"not"})
    /\ LET c == todo[1] IN
       todo' = <<Call(c.node.operand, c.f, c.t, c.depth + 1)>> \o Tail(todo)
    /\ UNCHANGED <<expr, items, labels, phase, program>>

(* and / or: the left operand, the label mid, the right operand; the       *)
(* left's true (false) continuation is mid.                                *)
Chain(leftTrue, leftFalse) ==
    LET c == todo[1] IN
    /\ labels' = labels + 1
    /\ todo' = <<Call(c.node.left, leftTrue, leftFalse, c.depth + 1),
                 Emit(Label(labels + 1)),
                 Call(c.node.right, c.t, c.f, c.depth + 1)>> \o Tail(todo)
    /\ UNCHANGED <<expr, items, phase, program>>

(* The counter is not advanced past the label of an and.                   *)
CompileAndUncounted ==
    /\ CompileCall({"and"})
    /\ LET c == todo[1] IN
       todo' = <<Call(c.node.left, labels + 1, c.f, c.depth + 1),
                 Emit(Label(labels + 1)),
                 Call(c.node.right, c.t, c.f, c.depth + 1)>> \o Tail(todo)
    /\ UNCHANGED <<expr, items, labels, phase, program>>

CompileAnd == /\ CompileCall({"and"})
              /\ Chain(labels + 1, todo[1].f)

(* The label of an or is not fresh: it is the last one handed out.         *)
CompileOrStaleLabel ==
    /\ CompileCall({"or"})
    /\ LET c == todo[1] IN
       todo' = <<Call(c.node.left, c.t, labels, c.depth + 1),
                 Emit(Label(labels)),
                 Call(c.node.right, c.t, c.f, c.depth + 1)>> \o Tail(todo)
    /\ UNCHANGED <<expr, items, labels, phase, program>>

CompileOr == /\ CompileCall({"or"})
             /\ Chain(todo[1].t, labels + 1)

(* place() or emit() by a caller that resumes; the last one is followed by *)
(* the resolution pass.                                                    *)
EmitItem ==
    /\ phase = "compiling"
    /\ todo # <<>>
    /\ todo[1].what = "emit"
    /\ items' = Append(items, todo[1].item)
    /\ todo' = Tail(todo)
    /\ phase' = IF Len(todo) = 1 THEN "resolving" ELSE "compiling"
    /\ UNCHANGED <<expr, labels, program>>

-----------------------------------------------------------------------------
(* _resolve.  How many instructions stand in front of the item at i: the   *)
(* index of an instruction, and the position of a label, from 0.           *)
InsnsBefore(i) == Cardinality({j \in 1..(i - 1) : items[j].code # "label"})

PlacesOf(l) == {i \in DOMAIN items : items[i] = Label(l)}

(* positions is a dictionary: the last place of a label is the one kept.   *)
Position(l) == InsnsBefore(CHOOSE i \in PlacesOf(l) :
                               \A j \in PlacesOf(l) : j <= i)

JumpsAt == {i \in DOMAIN items : items[i].code \in Jumps}

TargetsOf(i) == {items[i].jt, items[i].jf}

(* offset_to: from the instruction behind the jump at i to the label.      *)
OffsetTo(l, i) == Position(l) - (InsnsBefore(i) + 1)

(* The offset treated as a signed byte.                                    *)
InRangeSigned(i) ==
    \A l \in TargetsOf(i) : OffsetTo(l, i) \in 0..(MaxJump \div 2)

InRange(i) == \A l \in TargetsOf(i) : OffsetTo(l, i) \in 0..MaxJump

(* The instruction made of the item at i: offsets take the place of labels. *)
InsnOf(i) == IF i \in JumpsAt
             THEN [items[i] EXCEPT !.jt = OffsetTo(@, i), !.jf = OffsetTo(@, i)]
             ELSE items[i]

(* Where the items that are instructions stand.                            *)
InsnsAt == {i \in DOMAIN items : items[i].code # "label"}

(* The items that are instructions, in order: the n-th is the one with     *)
(* n - 1 others in front of it.                                            *)
Resolved == LET before == [i \in InsnsAt |-> InsnsBefore(i)]
            IN  [n \in 1..Cardinality(InsnsAt) |->
                    InsnOf(CHOOSE i \in InsnsAt : before[i] = n - 1)]

(* The resolution pass without its upper bound.                            *)
ResolveUnchecked == /\ phase = "resolving"
                    /\ program' = Resolved
                    /\ phase' = "done"
                    /\ items' = <<>> /\ labels' = 0
                    /\ UNCHANGED <<expr, todo>>

(* The program is returned and the emitter goes out of scope.              *)
Resolve == /\ phase = "resolving"
           /\ \A i \in JumpsAt : InRange(i)
           /\ program' = Resolved
           /\ phase' = "done"
           /\ items' = <<>> /\ labels' = 0
           /\ UNCHANGED <<expr, todo>>

ResolveFails == /\ phase = "resolving"
                /\ \E i \in JumpsAt : ~InRange(i)
                /\ phase' = "BPFCompileError"
                /\ UNCHANGED <<expr, todo, items, labels, program>>

Halted == phase \in {"done", "BPFCompileError", "RecursionError"}

(* compile_expression has returned or raised.                              *)
Returned == Halted /\ UNCHANGED vars

Next == \/ CompileTooDeep
        \/ CompilePrimitive
        \/ CompileNot
        \/ CompileAnd
        \/ CompileOr
        \/ EmitItem
        \/ Resolve
        \/ ResolveFails
        \/ Returned

Spec == Init /\ [][Next]_vars
-----------------------------------------------------------------------------
(* An entry of the call stack uses only labels that were handed out.       *)
Entry(x) == \/ /\ x.what = "call"
               /\ {x.t, x.f} \subseteq 1..labels
               /\ x.depth \in Nat
            \/ /\ x.what = "emit"
               /\ x.item \in Items
               /\ x.item.jt \in 0..labels

(* Every piece of the generator's state keeps its shape: in particular no  *)
(* call or item refers to a label that new_label has not handed out.       *)
TypeOK == /\ \A n \in DOMAIN todo : Entry(todo[n])
          /\ items \in Seq(Items)
          /\ labels \in Nat
          /\ \A i \in DOMAIN items : TargetsOf(i) \subseteq 0..labels
          /\ phase \in {"idle", "compiling", "resolving", "done",
                        "BPFCompileError", "RecursionError"}
          /\ program \in Seq(Items)

(* The labels that callers have yet to place.                              *)
Promised(l) == \E n \in DOMAIN todo : todo[n] = Emit(Label(l))

(* Every jump points forward: each of its labels stands behind it in the   *)
(* stream, or a caller on the stack will still place it there.  This is    *)
(* what _resolve relies on for its lower bound, and what makes every       *)
(* lookup of a label's position succeed.                                   *)
JumpsForward ==
    \A i \in JumpsAt : \A l \in TargetsOf(i) :
        Promised(l) \/ \E j \in PlacesOf(l) : j > i

(* No label is placed twice, neither in the stream nor by the callers that *)
(* will resume: _resolve's dictionary would silently keep the last place.  *)
LabelsPlacedOnce ==
    \A l \in 1..labels :
        LET promises == {n \in DOMAIN todo : todo[n] = Emit(Label(l))}
        IN  Cardinality(PlacesOf(l)) + Cardinality(promises) <= 1

(* The program is one the kernel's checker lets through: it is not empty,  *)
(* every jump lands inside it, and control cannot run off its end.         *)
ProgramSound ==
    phase = "done" =>
        LET len == Len(program) IN
        /\ len > 0
        /\ program[len].code = "ret"
        /\ \A i \in 1..len : program[i].code \in Jumps =>
               \A o \in {program[i].jt, program[i].jf} :
                   o \in 0..MaxJump /\ i + 1 + o <= len

(* No comparison relies on what an earlier one left in the accumulator: a  *)
(* jump is preceded by the load of its own value and is nobody's target.   *)
OwnLoads ==
    \A i \in DOMAIN program : program[i].code \in Jumps =>
        /\ i > 1 /\ program[i - 1].code \in AccLoads
        /\ \A o \in {program[i].jt, program[i].jf} :
               program[i + 1 + o].code \notin Jumps

(* compile_expression: the result is "ready for FilterProgram", which is   *)
(* "ready to attach".  The kernel attaches at most MaxInsns instructions.  *)
ReadyToAttach == Len(program) <= MaxInsns
=============================================================================
