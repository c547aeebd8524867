----------------------------- MODULE BpfFilter -----------------------------
(***************************************************************************)
(* --filter from the command line to a verdict on a frame.                 *)
(*                                                                         *)
(* _resolve_filter_program takes the canned program of bpf.py when the     *)
(* text is one of its names, and otherwise compiles the expression: lexer  *)
(* and parser (BpfParser), then the code generator (BpfCodegen).  The      *)
(* program is then run on frames by the kernel's classic BPF machine,      *)
(* which is not part of the repository: it is modelled from the            *)
(* instructions the two sources emit and from the test suite's             *)
(* interpreter, tests/bpf_vm.py.                                           *)
(*                                                                         *)
(* Frames are laid out byte by byte where a program looks at them.         *)
(***************************************************************************)
EXTENDS BpfParser, BpfCodegen

CONSTANTS
    Frames      \* the frames the kernel hands to the program

(* The longest jump of bpf.py's canned programs fits its field.            *)
ASSUME CannedFit == MaxJump >= 6

VARIABLES
    frame,      \* the frame being filtered
    pc,         \* the next instruction, counted from 1
    acc,        \* register A
    idx,        \* register X
    running,    \* whether the program is running
    verdict     \* bytes to keep of the last frame filtered; -1 before one is

vm == <<frame, pc, acc, idx, running, verdict>>

compiler == <<parserVars, vars>>

-----------------------------------------------------------------------------
(* The golden programs of bpf.py.                                          *)
Insn(code, jt, jf, k) == [code |-> code, k |-> k, jt |-> jt, jf |-> jf]

Ret == <<Insn("ret", 0, 0, ACCEPT_LENGTH), Insn("ret", 0, 0, 0)>>

(* The Fragment test jumps one instruction too far, past the final ret.    *)
TransportOverrun(proto) ==
    << Insn("ldh", 0, 0, 12), Insn("jeq", 0, 5, IPV6),
       Insn("ldb", 0, 0, 20), Insn("jeq", 6, 0, proto),
       Insn("jeq", 0, 7, FRAGMENT_EXT_HEADER),
       Insn("ldb", 0, 0, 54), Insn("jeq", 3, 4, proto),
       Insn("jeq", 0, 3, IPV4),
       Insn("ldb", 0, 0, 23), Insn("jeq", 0, 1, proto) >> \o Ret

(* _TCP and _UDP.                                                          *)
Transport(proto) ==
    << Insn("ldh", 0, 0, 12), Insn("jeq", 0, 5, IPV6),
       Insn("ldb", 0, 0, 20), Insn("jeq", 6, 0, proto),
       Insn("jeq", 0, 6, FRAGMENT_EXT_HEADER),
       Insn("ldb", 0, 0, 54), Insn("jeq", 3, 4, proto),
       Insn("jeq", 0, 3, IPV4),
       Insn("ldb", 0, 0, 23), Insn("jeq", 0, 1, proto) >> \o Ret

(* _ARP and _IP6.                                                          *)
EtherType(type) == << Insn("ldh", 0, 0, 12), Insn("jeq", 0, 1, type) >> \o Ret

CANNED_FILTERS == [tcp |-> Transport(TCP), udp |-> Transport(UDP),
                   arp |-> EtherType(ARP), ip6 |-> EtherType(IPV6)]

-----------------------------------------------------------------------------
(* A frame is given by its fields; len cuts it short.  proto is IPv4's     *)
(* protocol or IPv6's next header, inner the next header behind a Fragment *)
(* header, frag IPv4's flags and fragment offset.  A frame that carries    *)
(* something else than IPv6 has bytes where IPv4's fields would stand, and *)
(* the fields are those bytes: the programs do not always ask first        *)
(* whether it is IPv4.                                                     *)
Byte == 0..255
Half == 0..65535
Word == {n \in Nat : n \div 16777216 \in Byte}

FrameFields == [eth : Half, proto : Byte, inner : Byte, frag : Half, ihl : 5..15,
                src : Word, dst : Word, sport : Half, dport : Half, len : Nat]

ASSUME FramesAssumption == Frames \subseteq FrameFields

(* The byte number n (from the least significant) of a field's value.      *)
Weight == <<1, 256, 65536, 16777216>>
ByteOf(value, n) == (value \div Weight[n + 1]) % 256

(* Byte at offset o: the transport header starts behind IPv4's options, or *)
(* behind IPv6's fixed header when that names no extension header.         *)
PortByte(p, n) == IF n < 2 THEN ByteOf(p.sport, 1 - n) ELSE ByteOf(p.dport, 3 - n)

ByteAt(p, o) ==
    CASE o \in 12..13 -> ByteOf(p.eth, 13 - o)
      [] p.eth # IPV6 /\ o = 14 -> 64 + p.ihl
      [] p.eth # IPV6 /\ o \in 20..21 -> ByteOf(p.frag, 21 - o)
      [] p.eth # IPV6 /\ o = 23 -> p.proto
      [] p.eth # IPV6 /\ o \in 26..29 -> ByteOf(p.src, 29 - o)
      [] p.eth # IPV6 /\ o \in 30..33 -> ByteOf(p.dst, 33 - o)
      [] p.eth # IPV6 /\ o - (14 + 4 * p.ihl) \in 0..3 ->
            PortByte(p, o - (14 + 4 * p.ihl))
      [] p.eth = IPV6 /\ o = 20 -> p.proto
      [] p.eth = IPV6 /\ p.proto = FRAGMENT_EXT_HEADER /\ o = 54 -> p.inner
      [] p.eth = IPV6 /\ p.proto # FRAGMENT_EXT_HEADER /\ o - 54 \in 0..3 ->
            PortByte(p, o - 54)
      [] OTHER -> 0

(* A big-endian load of n bytes.                                           *)
Load(p, o, n) == LET b(i) == ByteAt(p, o + i) IN
    CASE n = 1 -> b(0)
      [] n = 2 -> 256 * b(0) + b(1)
      [] n = 4 -> 16777216 * b(0) + 65536 * b(1) + 256 * b(2) + b(3)

-----------------------------------------------------------------------------
(* _resolve_filter_program: a canned name gives its program at once.       *)
FilterInit ==
    /\ ParserInit
    /\ expr = Nil /\ todo = <<>> /\ items = <<>> /\ labels = 0
    /\ phase = "idle" /\ program = <<>>
    /\ frame = <<>> /\ pc = 1 /\ acc = 0 /\ idx = 0
    /\ running = FALSE /\ verdict = -1

IsCanned == Len(source) = 1 /\ source[1].t \in DOMAIN CANNED_FILTERS

UseCanned == /\ phase = "idle" /\ IsCanned
             /\ expr' = Proto(source[1].t) /\ phase' = "done"
             /\ program' = CANNED_FILTERS[source[1].t]
             /\ UNCHANGED <<todo, items, labels>> /\ UNCHANGED parserVars

(* Otherwise compile_expression: lex and parse,                            *)
ParseText == /\ ~IsCanned
             /\ ParserNext
             /\ UNCHANGED vars

(* then generate code for the AST the parser returned.                     *)
CompileParsed == /\ phase = "idle" /\ at = "parsed"
                 /\ expr' = result /\ todo' = Frame(result)
                 /\ labels' = 2 /\ phase' = "compiling"
                 /\ UNCHANGED <<items, program>> /\ UNCHANGED parserVars

(* --filter has been refused, and nothing is captured.                     *)
Rejected == Refused /\ UNCHANGED compiler

(* The kernel runs the attached program on a frame, registers cleared.     *)
Deliver(p) == /\ phase = "done"
              /\ ~running
              /\ frame' = p
              /\ pc' = 1 /\ acc' = 0 /\ idx' = 0
              /\ running' = TRUE
              /\ verdict' = -1
              /\ UNCHANGED compiler

(* The instruction at pc, when it is one of the codes.                     *)
At(codes) == /\ running
             /\ program[pc].code \in codes

SizeOf(code) == CASE code \in {"ldb", "ldxmsh"} -> 1
                  [] code \in {"ldh", "ldhx"} -> 2
                  [] code = "ldw" -> 4

Loads == AccLoads \cup {"ldxmsh"}

OffsetOf(i) == i.k + (IF i.code = "ldhx" THEN idx ELSE 0)

(* A load inside the frame, into X (4 times the header length nibble) or A.*)
StepLoad == LET i == program[pc]  value == Load(frame, OffsetOf(i), SizeOf(i.code)) IN
    /\ At(Loads)
    /\ OffsetOf(i) + SizeOf(i.code) <= frame.len
    /\ IF i.code = "ldxmsh" THEN idx' = 4 * (value % 16) /\ UNCHANGED acc
                            ELSE acc' = value /\ UNCHANGED idx
    /\ pc' = pc + 1
    /\ UNCHANGED <<frame, running, verdict>> /\ UNCHANGED compiler

(* A load beyond the end of the frame rejects it.                          *)
StepLoadOutside == LET i == program[pc] IN
    /\ At(Loads)
    /\ OffsetOf(i) + SizeOf(i.code) > frame.len
    /\ running' = FALSE /\ verdict' = 0
    /\ UNCHANGED <<frame, pc, acc, idx>> /\ UNCHANGED compiler

(* Whether a jump compares true with a in the accumulator.  The one mask   *)
(* jset is used with is of low bits: FRAG_MASK = 2^13 - 1.                 *)
Taken(i, a) == IF i.code = "jeq" THEN a = i.k ELSE a % (i.k + 1) # 0

StepJump == LET i == program[pc] IN
    /\ At(Jumps)
    /\ pc' = pc + 1 + (IF Taken(i, acc) THEN i.jt ELSE i.jf)
    /\ UNCHANGED <<frame, acc, idx, running, verdict>> /\ UNCHANGED compiler

StepRet == /\ At({"ret"})
           /\ running' = FALSE /\ verdict' = program[pc].k
           /\ UNCHANGED <<frame, pc, acc, idx>> /\ UNCHANGED compiler

FilterNext == \/ (UseCanned \/ ParseText \/ CompileParsed \/ Rejected) /\ UNCHANGED vm
              \/ Next /\ UNCHANGED parserVars /\ UNCHANGED vm
              \/ \E p \in Frames : Deliver(p)
              \/ StepLoad
              \/ StepLoadOutside
              \/ StepJump
              \/ StepRet

FilterSpec == FilterInit /\ [][FilterNext]_<<compiler, vm>>
-----------------------------------------------------------------------------
(* The machine executes only instructions of the program: no jump leaves   *)
(* it and no path runs off its end (tests/bpf_vm.py: "ran off the end      *)
(* without a RET").                                                        *)
StaysInProgram == running => pc \in DOMAIN program

(* In a compiled program no comparison relies on what an earlier one left  *)
(* in the accumulator (_test_at), as the canned ones of bpf.py do.         *)
FreshLoads == ~IsCanned => OwnLoads

(* Docstring of bpf_compiler.py: an expression that is too large raises    *)
(* BPFCompileError "the same as any other rejection".                      *)
TooLargeIsCompileError == {at, phase} \cap {"RecursionError", "ValueError"} = {}
=============================================================================
