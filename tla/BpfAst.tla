------------------------------- MODULE BpfAst -------------------------------
(***************************************************************************)
(* The nodes a filter expression is parsed to (bpf_compiler.py): what the  *)
(* parser hands to the code generator.  A missing direction is "any".      *)
(***************************************************************************)
EXTENDS Naturals

CONSTANT RecLimit   \* nested calls, of the parser or of _compile, before
                    \* Python's RecursionError

ASSUME RecLimitAssumption == RecLimit \in Nat \ {0}

Proto(name) == [op |-> "proto", name |-> name]
Host(addr, dir) == [op |-> "host", addr |-> addr, dir |-> dir]
Port(port, dir) == [op |-> "port", port |-> port, dir |-> dir]
Not(e) == [op |-> "not", operand |-> e]
And(l, r) == [op |-> "and", left |-> l, right |-> r]
Or(l, r) == [op |-> "or", left |-> l, right |-> r]
=============================================================================
