------------------------------- MODULE Sm213 -------------------------------
(***************************************************************************)
(* The four simulators of the SM213 computer: a8/sm.c (a switch), a8/sm-jt.c *)
(* (the same machine with jump tables), a6/CPU.java and a2/A2code/CPU.java *)
(* (the first instructions only).  They are given the same program and run *)
(* side by side, one instruction of each at a time; what differs from one  *)
(* simulator to the next is its dispatch, the instructions it has, the way *)
(* it computes the address of an indexed load and of an indirect jump, and *)
(* that main memory of the Java ones refuses some addresses.               *)
(* Left out: the system calls of f1-- (input and output).                  *)
(***************************************************************************)
EXTENDS Assembler

CONSTANT Programs      \* as Prog of Sm213Programs makes them, by name
VARIABLES program, cpu
vars == <<program, cpu>>

C == {"sm", "sm-jt"}
Java == {"a6", "a2"}
MemSize == 40000

-----------------------------------------------------------------------------
\* The dispatch of each simulator: opcodes 0 to 15, and functions of opcode 6.
ALU == "alu"
SmSwitch == <<"ld$", "ld", "ldx", "st", "stx", "illegal", ALU, "sh",
              "br", "beq", "bgt", "j", "jr", "illegal", "illegal", "halt">>
SmAluSwitch == <<"mov", "add", "and", "inc", "inca", "dec", "deca", "not",
                 "illegal", "illegal", "illegal", "illegal", "illegal", "illegal", "illegal", "gpc">>

jumpTable == <<"ld$", "ld", "ldx", "st", "stx", "DEFAULT", ALU, "sh",
               "br", "beq", "bgt", "j", "jr", "DEFAULT", "DEFAULT", "halt">>
\* Variant: two entries in the wrong order.
jumpTable2Swapped == <<"mov", "add", "and", "inc", "inca", "deca", "dec", "not",
                       "DEFAULT", "DEFAULT", "DEFAULT", "DEFAULT", "DEFAULT", "DEFAULT", "DEFAULT", "gpc">>
jumpTable2 == <<"mov", "add", "and", "inc", "inca", "dec", "deca", "not",
                "DEFAULT", "DEFAULT", "DEFAULT", "DEFAULT", "DEFAULT", "DEFAULT", "DEFAULT", "gpc">>

A6Switch == <<"ld$", "ld", "ldx", "st", "stx", "throw", ALU, "sh",
              "br", "beq", "bgt", "j", "jr", "throw", "throw", "halt">>
A6AluSwitch == <<"mov", "add", "and", "inc", "inca", "dec", "deca", "not",
                 "throw", "throw", "throw", "throw", "throw", "throw", "throw", "gpc">>

A2Switch == <<"ld$", "ld", "ldx", "st", "stx", "throw", ALU, "sh",
              "throw", "throw", "throw", "throw", "throw", "throw", "throw", "halt">>
A2AluSwitch == <<"mov", "add", "and", "inc", "inca", "dec", "deca", "not",
                 "throw", "throw", "throw", "throw", "throw", "throw", "throw", "throw">>

Dispatch(sim, op, op0) ==
    LET top == CASE sim = "sm" -> SmSwitch [] sim = "sm-jt" -> jumpTable
                 [] sim = "a6" -> A6Switch [] sim = "a2" -> A2Switch
        alu == CASE sim = "sm" -> SmAluSwitch [] sim = "sm-jt" -> jumpTable2
                 [] sim = "a6" -> A6AluSwitch [] sim = "a2" -> A2AluSwitch
    IN IF top[op + 1] = ALU THEN alu[op0 + 1] ELSE top[op + 1]

-----------------------------------------------------------------------------
\* Main memory: bytes that the program did not fill are zero.
Byte(m, a) == IF a \in DOMAIN m THEN m[a] ELSE 0
Bytes(m, a, n) == [k \in 1..n |-> Byte(m, a + k - 1)]

isAccessAligned(a, length) == a % length = 0

\* get and set of MainMemory refuse these; to the C programs they are
\* undefined, and the model stops there too.
Valid(a, length) == a >= 0 /\ a + length - 1 < MemSize

Accessible(sim, a) == Valid(a, 4) /\ (sim \in Java => isAccessAligned(a, 4))

\* x << n and x >> n.
Shl32(x, n) == FoldLeft(LAMBDA v, k : AddW(v, v), x, [k \in 1..n |-> k])
Shr32(x, n) == IF n > 30 THEN (IF x < 0 THEN -1 ELSE 0) ELSE x \div 2^n

Signed(b) == IF b >= 128 THEN b - 256 ELSE b

\* The opcodes with four bytes more.
Extended == {0, 11}

\* fetch: the fields of the instruction at the pc, which moves on.
fetch(s) ==
    LET b == Bytes(s.mem, s.pc, 6)
        long == b[1] \div 16 \in Extended
    IN [op |-> b[1] \div 16, op0 |-> b[1] % 16, op1 |-> b[2] \div 16, op2 |-> b[2] % 16,
        imm |-> Signed(b[2]), unsigned |-> b[2],
        ext |-> IF long THEN bytesToInteger(SubSeq(b, 3, 6)) ELSE 0,
        next |-> s.pc + (IF long THEN 6 ELSE 2)]
-----------------------------------------------------------------------------
\* What an instruction i does to the state s of a simulator.
Stop(s, how) == [s EXCEPT !.run = how]
SetReg(s, r, v) == [s EXCEPT !.reg[r] = v]
Goto(s, a) == [s EXCEPT !.pc = a]

Load32(sim, s, a, r) ==
    IF Accessible(sim, a) THEN SetReg(s, r, bytesToInteger(Bytes(s.mem, a, 4))) ELSE Stop(s, "fault")
Store32(sim, s, a, v) ==
    IF Accessible(sim, a)
    THEN LET b == integerToBytes(v) IN
         [s EXCEPT !.mem = [x \in a..(a + 3) |-> b[x - a + 1]] @@ @]
    ELSE Stop(s, "fault")

\* ld (rs, ri, 4): a2 reads a register of four times the number of ri, and
\* there is none but for r0 and r1.
IndexedLoad(sim, s, i) ==
    IF sim = "a2"
    THEN IF 4 * i.op1 > 7 THEN Stop(s, "fault")
         ELSE Load32(sim, s, AddW(s.reg[i.op0], s.reg[4 * i.op1]), i.op2)
    ELSE Load32(sim, s, AddW(s.reg[i.op0], Shl32(s.reg[i.op1], 2)), i.op2)

\* The opcode-6 functions: a new value for register op2.
AluResult(f, s, i) ==
    CASE f = "mov"  -> s.reg[i.op1]
      [] f = "add"  -> AddW(s.reg[i.op1], s.reg[i.op2])
      [] f = "and"  -> AndW(s.reg[i.op1], s.reg[i.op2])
      [] f = "inc"  -> AddW(s.reg[i.op2], 1)
      [] f = "inca" -> AddW(s.reg[i.op2], 4)
      [] f = "dec"  -> AddW(s.reg[i.op2], -1)
      [] f = "deca" -> AddW(s.reg[i.op2], -4)
      [] f = "not"  -> -1 - s.reg[i.op2]
      [] f = "gpc"  -> AddW(s.pc, 2 * i.op1)

\* 7dii: to the left when ii is positive, else to the right.
Shift(s, i) == IF i.imm > 0 THEN Shl32(s.reg[i.op0], i.imm) ELSE Shr32(s.reg[i.op0], -i.imm)

\* croo: the offset is unsigned; the C simulators widen it after its sign.
IndirectTarget(sim, s, i) ==
    AddW(s.reg[i.op0], 2 * (IF sim \in C THEN i.imm % 65536 ELSE i.unsigned))

\* Variant: the offset counts from the branch and not from what follows it.
BranchFromHere(s, i) == Goto(s, s.pc - 2 + 2 * i.imm)
Branch(s, i) == Goto(s, s.pc + 2 * i.imm)

\* One instruction, by the name the dispatch gave it.
Execute(sim, name, s, i) ==
    CASE name = "ld$"  -> SetReg(s, i.op0, i.ext)
      [] name = "ld"   -> Load32(sim, s, AddW(s.reg[i.op1], 4 * i.op0), i.op2)
      [] name = "ldx"  -> IndexedLoad(sim, s, i)
      [] name = "st"   -> Store32(sim, s, AddW(s.reg[i.op2], 4 * i.op1), s.reg[i.op0])
      [] name = "stx"  -> Store32(sim, s, AddW(s.reg[i.op1], Shl32(s.reg[i.op2], 2)), s.reg[i.op0])
      [] name = "sh"   -> SetReg(s, i.op0, Shift(s, i))
      [] name = "br"   -> Branch(s, i)
      [] name = "beq"  -> IF s.reg[i.op0] = 0 THEN Branch(s, i) ELSE s
      [] name = "bgt"  -> IF s.reg[i.op0] > 0 THEN Branch(s, i) ELSE s
      [] name = "j"    -> Goto(s, i.ext)
      [] name = "jr"   -> Goto(s, IndirectTarget(sim, s, i))
      [] name = "halt" -> IF i.op0 = 0 THEN Stop(s, "halt") ELSE s
      [] name = "throw" -> Stop(s, "fault")
      [] name \in {"illegal", "DEFAULT"} -> s       \* printed, and passed over
      [] OTHER         -> SetReg(s, i.op2, AluResult(name, s, i))

\* One turn of compute: fetch, then exec.
Cycle(sim, s) ==
    IF s.run # "run" THEN s
    ELSE IF ~Valid(s.pc, 2) THEN Stop(s, "fault")
    ELSE LET i == fetch(s) IN Execute(sim, Dispatch(sim, i.op, i.op0), Goto(s, i.next), i)

Powered(prog) == LET m == Load(prog.code) IN
    [sim \in prog.on |-> [reg |-> [r \in 0..7 |-> 0], pc |-> Labels(prog.code)[prog.entry], mem |-> m, run |-> "run"]]

Init == \E p \in DOMAIN Programs : program = p /\ cpu = Powered(Programs[p])

Running == \E sim \in DOMAIN cpu : cpu[sim].run = "run"

Next == /\ Running
        /\ cpu' = [sim \in DOMAIN cpu |-> Cycle(sim, cpu[sim])]
        /\ UNCHANGED program

Spec == Init /\ [][Next]_vars

-----------------------------------------------------------------------------
\* The simulators of a program are in the same state after every instruction:
\* registers, pc, memory, and whether they go on.
SimulatorsAgree == \A x, y \in DOMAIN cpu : cpu[x] = cpu[y]

\* A simulator has stopped the way it is to, with the registers that the program
\* is to leave.
Ended(sim) ==
    /\ cpu[sim].run = Programs[program].ends
    /\ \A r \in DOMAIN Programs[program].regs : cpu[sim].reg[r] = Programs[program].regs[r]

\* Its memory holds what the C program computes.
HoldsComputed(sim) ==
    LET at == Labels(Programs[program].code)
        computes == Programs[program].computes
    IN  \A l \in DOMAIN computes : \A k \in DOMAIN computes[l] :
           bytesToInteger(Bytes(cpu[sim].mem, at[l] + 4 * (k - 1), 4)) = computes[l][k]

\* Every program halts on every simulator, none of its accesses is refused but the
\* one that a2 gets wrong, and it leaves what its C program computes.  The programs
\* that are known not to do that, for their inputs, do not.
AssemblyMatchesC ==
    ~Running => \A sim \in DOMAIN cpu :
        /\ Ended(sim)
        /\ HoldsComputed(sim) <=> Programs[program].matches
=============================================================================
