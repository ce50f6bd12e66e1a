--------------------------- MODULE Sm213Programs ---------------------------
(***************************************************************************)
(* Assembly programs of the repository, each with what the C program it    *)
(* was written from computes or, where there is none that compiles (max.s, *)
(* calc.s, a6/code/q3.s), what its comments say.  The assembly does not    *)
(* always do that (matches).  A program is a function of the words in its  *)
(* .data that its author, its C main or its test may set to anything.      *)
(***************************************************************************)
EXTENDS Assembler, FiniteSets

\* The simulators that run a program; where it starts and how it ends; the words at
\* labels that its C program leaves, and whether the assembly leaves them too; and
\* registers.
Prog(code, computes) ==
    [on |-> {"sm", "sm-jt", "a6"}, entry |-> code[1][1], code |-> code, ends |-> "halt",
     computes |-> computes, matches |-> TRUE, regs |-> <<>>]
OnA2(prog) == [prog EXCEPT !.on = @ \cup {"a2"}]
Differs(prog) == [prog EXCEPT !.matches = FALSE]

Total(s) == FoldLeft(+, 0, s)

\* x / n in C, towards zero.
Quotient(x, n) == IF x >= 0 THEN x \div n ELSE -((-x) \div n)

-----------------------------------------------------------------------------
\* a6/code: loops and a conditional.
\* S5-loop.c: the sum of a.
LoopSum(a) == "s" :> <<Total(a)>>
S5loop(a) == Prog(<<
    <<"start", 256, <<Ldi(0, 0), Lda("a", 1), Ldi(0, 2), Ldi(-10, 4)>>>>,
    <<"loop", Follows, <<Mov(0, 5), Add(4, 5), Beq(5, "end_loop"), Ldx(1, 0, 3), Add(3, 2), Inc(0), Br("loop")>>>>,
    <<"end_loop", Follows, <<Lda("s", 1), St(2, 0, 1), St(0, 4, 1), Halt>>>>,
    <<"s", 4096, <<Long(0)>>>>, <<"i", Follows, <<Long(0)>>>>, <<"a", Follows, Longs(a)>> >>,
    LoopSum(a) @@ "i" :> <<10>>)

S5aLoopUnrolled(a) == Prog(<<
    <<"start", 256, <<Ldi(0, 0), Lda("a", 1), Ldi(0, 2)>>
                    \o FoldLeft(\o, <<>>, [k \in 1..10 |-> <<Ldx(1, 0, 3), Add(3, 2), Inc(0)>>])
                    \o <<Lda("s", 0), St(2, 0, 0), Halt>> >>,
    <<"s", 4096, <<Long(0)>>>>, <<"a", 4104, Longs(a)>> >>, LoopSum(a))

\* S6-if.c: the larger of a and b.
Larger(a, b) == "max" :> <<IF a > b THEN a ELSE b>>
S6if(a, b) == Prog(<<
    <<"start", 256, <<Lda("a", 0), Ld(0, 0, 0), Lda("b", 1), Ld(0, 1, 1),
                      Mov(1, 2), Invert(2), Inc(2), Add(0, 2), Bgt(2, "then")>>>>,
    <<"else", Follows, <<Mov(1, 3), Br("end_if")>>>>,
    <<"then", Follows, <<Mov(0, 3)>>>>,
    <<"end_if", Follows, <<Lda("max", 0), St(3, 0, 0), Halt>>>>,
    <<"a", 4096, <<Long(a)>>>>, <<"b", 8192, <<Long(b)>>>>, <<"max", 12288, <<Long(0)>>>> >>, Larger(a, b))

\* a8/max.s: the largest of the ten elements.
maxOf(a) == Prog(<<
    <<"start", 4096, <<Ldi(0, 0), Ldi(-10, 1), Lda("max", 2), Ld(0, 2, 3), Lda("a", 4)>>>>,
    <<"loop", Follows, <<Mov(0, 5), Add(1, 5), Beq(5, "done"), Ldx(4, 0, 5), Mov(5, 7), Invert(7), Inc(7),
                         Add(3, 7), Bgt(7, "cont"), Mov(5, 3)>>>>,
    <<"cont", Follows, <<Inc(0), Br("loop")>>>>,
    <<"done", Follows, <<St(3, 0, 2), Lda("i", 1), St(0, 0, 1), Halt>>>>,
    <<"max", 8192, <<Long(-1)>>>>, <<"i", Follows, <<Long(0)>>>>, <<"a", Follows, Longs(a)>> >>,
    "max" :> <<Max(Range(a) \cup {-1})>> @@ "i" :> <<10>>)

\* a6/code/q3.s: the average of each student (an id and four grades), the
\* students in the order of their averages, and the id of the middle one.  So
\* its comments; q3.c swaps a struct through an int, and has s[0] for s[i].
Student(id, g) == <<id>> \o g
Average(s) == Quotient(Total(Tail(s)), 4)
Swap(o) == <<Ld(o, 4, 6), Ld(o, 5, 7), St(6, o, 5), St(7, o, 4)>>
Element(i, t, d) == <<Mov(i, d), Mov(i, t), Shl(4, d), Shl(3, t), Add(t, d), Add(0, d)>>
Globals == <<Lda("s", 0), Ld(0, 0, 0), Lda("n", 1), Ld(0, 1, 1)>>
Negated == <<Invert(1), Inc(1)>>

Median(students) ==
    LET in_order == SortSeq([k \in DOMAIN students |-> students[k] \o <<Average(students[k])>>], LAMBDA x, y : x[6] < y[6])
    IN  "m" :> <<in_order[Len(students) \div 2 + 1][1]>> @@ "base" :> FoldLeft(\o, <<>>, in_order)

q3a6(students) == Prog(<<
    <<"code", 4096, Globals \o Negated \o <<Ldi(0, 2)>> >>,
    <<"L0", Follows, <<Mov(2, 3), Add(1, 3), Beq(3, "L2"), Br("L1")>> >>,
    <<"L1", Follows, <<Mov(2, 3), Mov(2, 4), Shl(4, 3), Shl(3, 4), Add(4, 3), Add(0, 3),
                       Ld(4, 3, 4), Ld(8, 3, 5), Add(5, 4), Ld(12, 3, 5), Add(5, 4), Ld(16, 3, 5), Add(5, 4),
                       Shr(2, 4), St(4, 20, 3), Inc(2), Br("L0")>> >>,
    <<"L2", Follows, Globals \o Negated \o <<Ldi(0, 2)>> >>,
    <<"L3", Follows, <<Mov(2, 3), Add(1, 3), Beq(3, "L7"), Mov(2, 3), Inc(3)>> >>,
    <<"L4", Follows, <<Mov(3, 4), Add(1, 4), Beq(4, "L6")>> \o Element(2, 5, 4) \o Element(3, 6, 5)
                     \o <<Ld(20, 4, 6), Ld(20, 5, 7), Invert(6), Inc(6), Add(7, 6), Bgt(6, "L5"), Beq(6, "L5")>>
                     \o Swap(0) \o Swap(4) \o Swap(8) \o Swap(12) \o Swap(16) \o Swap(20)>>,
    <<"L5", Follows, <<Inc(3), Br("L4")>> >>,
    <<"L6", Follows, <<Inc(2), Br("L3")>> >>,
    <<"L7", Follows, Globals \o <<Shr(1, 1)>> \o <<Mov(1, 2), Mov(1, 3), Shl(4, 2), Shl(3, 3), Add(3, 2), Add(0, 2)>>
                     \o <<Ld(0, 2, 3), Lda("m", 4), St(3, 0, 4), Halt>> >>,
    <<"n", 8192, <<Long(Len(students))>> >>, <<"m", Follows, <<Long(0)>> >>, <<"s", Follows, <<LongA("base")>> >>,
    <<"base", 12288, FoldLeft(\o, <<>>, [k \in DOMAIN students |-> Longs(students[k] \o <<0>>)])>> >>,
    Median(students))

-----------------------------------------------------------------------------
\* a6: calls.  q4a.c: bar(3, 4) and bar(1, 2).
bar(a, c, d) == [a EXCEPT ![d + 1] = @ + c]
q4a(a) == Prog(<<
    <<"start", 0, <<Lda("sb", 5), Inca(5), Gpc(6, 6), Jmp("foo"), Halt>>>>,
    <<"a", 256, <<LongA("array")>>>>,
    <<"bar", 512, <<Ld(0, 5, 0), Ld(4, 5, 1), Lda("a", 2), Ld(0, 2, 2), Ldx(2, 1, 3), Add(3, 0), Stx(0, 2, 1), Jr(0, 6)>>>>,
    <<"foo", 768, <<Ldi(-12, 0), Add(0, 5), St(6, 8, 5), Ldi(1, 0), St(0, 0, 5), Ldi(2, 0), St(0, 4, 5),
                    Ldi(-8, 0), Add(0, 5), Ldi(3, 0), St(0, 0, 5), Ldi(4, 0), St(0, 4, 5), Gpc(6, 6), Jmp("bar"),
                    Ldi(8, 0), Add(0, 5), Ld(0, 5, 1), Ld(4, 5, 2), Ldi(-8, 0), Add(0, 5), St(1, 0, 5), St(2, 4, 5),
                    Gpc(6, 6), Jmp("bar"), Ldi(8, 0), Add(0, 5), Ld(8, 5, 6), Ldi(12, 0), Add(0, 5), Jr(0, 6)>>>>,
    <<"array", 4096, Longs(a)>>, <<"stack", 32768, Zeros(23)>>, <<"sb", Follows, <<Long(0)>>>> >>,
    "array" :> bar(bar(a, 3, 4), 1, 2))

\* q4b.c: y[i] is the number of ones in x[i].
Ones(z) == Cardinality({k \in 0..31 : (integerToBytes(z)[4 - k \div 8] \div 2^(k % 8)) % 2 = 1})
q4b(x) == Prog(<<
    <<"start", 256, <<Lda("sb", 5), Inca(5), Gpc(6, 6), Jmp("main"), Halt>>>>,
    <<"f", Follows, <<Deca(5), Ldi(0, 0), Ld(4, 5, 1), Ldi(MinInt, 2)>>>>,
    <<"f_loop", Follows, <<Beq(1, "f_end"), Mov(1, 3), AndR(2, 3), Beq(3, "f_if1"), Inc(0)>>>>,
    <<"f_if1", Follows, <<Shl(1, 1), Br("f_loop")>>>>,
    <<"f_end", Follows, <<Inca(5), Jr(0, 6)>>>>,
    <<"main", Follows, <<Deca(5), Deca(5), St(6, 4, 5), Ldi(Len(x), 4)>>>>,
    <<"main_loop", Follows, <<Beq(4, "main_end"), Dec(4), Lda("x", 0), Ldx(0, 4, 0), Deca(5), St(0, 0, 5),
                              Gpc(6, 6), Jmp("f"), Inca(5), Lda("y", 1), Stx(0, 1, 4), Br("main_loop")>>>>,
    <<"main_end", Follows, <<Ld(4, 5, 6), Inca(5), Inca(5), Jr(0, 6)>>>>,
    <<"x", 8192, Longs(x)>>, <<"y", Follows, [k \in DOMAIN x |-> Long(0)]>>,
    <<"stack", 32768, Zeros(23)>>, <<"sb", Follows, <<Long(0)>>>> >>,
    "y" :> [k \in DOMAIN x |-> Ones(x[k])] @@ "x" :> x)

\* S7-static-call: ping returns to foo.
S7staticCallReg == Prog(<<
    <<"foo", 256, <<Gpc(6, 6), Jmp("ping"), Halt>>>>, <<"ping", 1280, <<Jr(0, 6)>>>> >>, <<>>)
S7staticCallStack == Prog(<<
    <<"foo", 256, <<Ldi(4136, 5), Gpc(6, 6), Jmp("ping"), Halt>>>>,
    <<"ping", 1280, <<Deca(5), St(6, 0, 5), Ld(0, 5, 6), Inca(5), Jr(0, 6)>>>>,
    <<"stack", 4096, Zeros(10)>> >>, <<>>)

-----------------------------------------------------------------------------
\* a8/q2/SB-switch.c: j as foo sets it, for an i.
FromTable(i) ==
    IF i < 20 \/ i > 23 THEN 14 ELSE <<10, 11, 14, 13>>[i - 19]
Switched(i) == CASE i = 20 -> 10 [] i = 21 -> 11 [] i = 23 -> 13 [] OTHER -> 14
SBswitch(i) == Prog(<<
    <<"foo", 256, <<Lda("i", 0), Ld(0, 0, 0), Ldi(-19, 1), Add(0, 1), Bgt(1, "l0"), Br("default")>>>>,
    <<"l0", Follows, <<Ldi(-23, 1), Add(0, 1), Bgt(1, "default"), Ldi(-20, 1), Add(1, 0),
                       Lda("jmptable", 1), Ldx(1, 0, 1), Jr(0, 1)>>>>,
    <<"cont", Follows, <<Halt>>>>,
    <<"case20", 320, <<Ldi(10, 1), Br("done")>>>>, <<"case21", Follows, <<Ldi(11, 1), Br("done")>>>>,
    <<"case23", Follows, <<Ldi(13, 1), Br("done")>>>>, <<"default", Follows, <<Ldi(14, 1), Br("done")>>>>,
    <<"done", Follows, <<Lda("j", 0), St(1, 0, 0), Jmp("cont")>>>>,
    <<"jmptable", 2048, <<LongA("case20"), LongA("case21"), LongA("default"), LongA("case23")>>>>,
    <<"i", 4096, <<Long(i)>>>>, <<"j", Follows, <<Long(0)>>>> >>, "j" :> <<Switched(i)>>)

\* foo and foo_using_jumptable of SB-switch.c do the same.
ASSUME SwitchByTable == \A i \in 0..40 : FromTable(i) = Switched(i)

\* a8/a2-test.s and a2/A2code/test.s: one block of instructions per label, run
\* from its label, and what its comments say it leaves.
InstructionTests == <<
    <<"li", <<Lda("data", 1), Ldi(0, 2), Ldi(1, 3), Ldx(1, 2, 4), Ldx(1, 3, 5), Halt>>, 4 :> 1 @@ 5 :> 2>>,
    <<"si", <<Lda("data", 1), Ldi(0, 2), Ldi(3, 3), Ldi(1, 4), Stx(3, 1, 2), Stx(4, 1, 4), Halt>>, <<>> >>,
    <<"rmov", <<Ldi(1, 1), Mov(1, 2), Halt>>, 2 :> 1>>,
    <<"add", <<Ldi(1, 1), Ldi(2, 2), Add(1, 2), Halt>>, 2 :> 3>>,
    <<"and", <<Ldi(10, 1), Ldi(6, 2), AndR(1, 2), Halt>>, 2 :> 2>>,
    <<"inc", <<Ldi(1, 1), Inc(1), Halt>>, 1 :> 2>>,
    <<"inca", <<Ldi(1, 1), Inca(1), Halt>>, 1 :> 5>>,
    <<"dec", <<Ldi(2, 1), Dec(1), Halt>>, 1 :> 1>>,
    <<"deca", <<Ldi(5, 1), Deca(1), Halt>>, 1 :> 1>>,
    <<"not", <<Ldi(-65536, 1), Invert(1), Halt>>, 1 :> 65535>>,
    <<"shl", <<Ldi(305419896, 1), Shl(17, 1), Halt>>, 1 :> -1393557504>> >>

TestBlocks(step) ==
    [k \in DOMAIN InstructionTests |->
        <<InstructionTests[k][1], IF step = 0 /\ k > 1 THEN Follows ELSE 4096 + step * (k - 1), InstructionTests[k][2]>>]
TestData == << <<"data", 8192, Longs(<<1, 2>>)>> >>
LeavesOf(k) == IF InstructionTests[k][1] = "si" THEN "data" :> <<3, 1>> ELSE <<>>

a2test(k) == [Prog(TestBlocks(256) \o TestData, LeavesOf(k))
              EXCEPT !.entry = InstructionTests[k][1], !.regs = InstructionTests[k][3]]
testA2(k) == LET prog == [a2test(k) EXCEPT !.code = TestBlocks(0) \o TestData]
             IN  IF InstructionTests[k][1] = "li" THEN prog ELSE OnA2(prog)

\* The block of a2/A2code/test.s that loads with an index other than r0 or r1: a2
\* takes a register of four times the number it is given, and there is none.
testA2Load == [testA2(1) EXCEPT !.on = {"a2"}, !.ends = "fault", !.regs = <<>>]

\* a8/test.s: one of every instruction; and the program of simple-test.s.
everyInstruction == Prog(<<
    <<"start", 0, <<Lda("L4", 2), Ld(0, 0, 1), Ldx(0, 0, 1), St(1, 0, 0), Stx(1, 0, 0), Mov(0, 1), Add(0, 1),
                    AndR(0, 1), Inc(1), Inca(1), Dec(1), Deca(1), Invert(1), Gpc(0, 1), Shr(0, 1), Br("L0")>>>>,
    <<"L0", Follows, <<Beq(0, "L1")>>>>, <<"L1", Follows, <<Bgt(0, "L2")>>>>, <<"L2", Follows, <<Jmp("L3")>>>>,
    <<"L3", Follows, <<Jr(0, 2)>>>>, <<"L4", Follows, <<Halt>>>> >>, <<>>)
simpleTest == [OnA2(Prog(<< <<"start", 0, <<Ldi(100, 0), Add(0, 0)>>>>, <<"L0", Follows, <<Halt>>>> >>, <<>>))
               EXCEPT !.regs = 0 :> 200]

-----------------------------------------------------------------------------
\* a2/A2code.  math.c, which divides where math.s shifts; swap.c; and calc.s as
\* its comments say.
MathLeaves(b) == "a" :> <<4 * AndW(Quotient(b + 1 + 4, 2), b)>>
math(b) == OnA2(Prog(<<
    <<"start", 256, <<Lda("a", 0), Lda("b", 1), Ld(0, 1, 2), Ldi(1, 3), Add(2, 3), Ldi(4, 4), Add(4, 3),
                      Shr(1, 3), AndR(2, 3), Shl(2, 3), St(3, 0, 0), Halt>>>>,
    <<"a", 4096, <<Long(18)>>>>, <<"b", 8192, <<Long(b)>>>> >>, MathLeaves(b)))
SwapLeaves(x, y) == "array" :> <<y, x>> @@ "t" :> <<x>>
swap(x, y) == Prog(<<
    <<"start", 256, <<Lda("array", 0), Lda("t", 1), Ld(0, 0, 2), St(2, 0, 1), Ldi(1, 3), Ldx(0, 3, 4),
                      St(4, 0, 0), Ld(0, 1, 5), Stx(5, 0, 3), Halt>>>>,
    <<"t", 4096, <<Long(-1)>>>>, <<"array", 8192, Longs(<<x, y>>)>> >>, SwapLeaves(x, y))
calc(i, data) == Prog(<<
    <<"start", 256, <<Lda("i", 0), Lda("x", 1), Lda("y", 2), Lda("data", 3), Ld(0, 0, 4), Ldx(3, 4, 5), Ldi(1, 6),
                      Add(4, 6), Ldx(3, 6, 6), Add(5, 6), St(6, 0, 2), Ldi(255, 7), AndR(7, 6), St(6, 0, 1), Halt>>>>,
    <<"i", 4096, <<Long(i)>>>>, <<"x", 4100, <<Long(18)>>>>, <<"y", 4104, <<Long(18)>>>>, <<"data", 8192, Longs(data)>> >>,
    LET y == data[i + 1] + data[i + 2] IN "y" :> <<y>> @@ "x" :> <<y % 256>>)

\* S1-global-static.c and S2-global-dyn-array.c: a = 0; b[a] = a.
Ten(v) == [k \in 1..10 |-> v]
FirstCleared == <<0>> \o [k \in 1..9 |-> -1]
S1globalStatic == OnA2(Prog(<<
    <<"start", 256, <<Ldi(0, 0), Lda("a", 1), St(0, 0, 1), Lda("b", 0), Lda("a", 1), Ld(0, 1, 2), Stx(2, 0, 2), Halt>>>>,
    <<"a", 4096, <<Long(-1)>>>>, <<"b", 8192, Longs(Ten(-1))>> >>, "a" :> <<0>> @@ "b" :> FirstCleared))
S2globalDynArray == OnA2(Prog(<<
    <<"start", 256, <<Ldi(0, 0), Lda("a", 1), St(0, 0, 1), Lda("b", 0), Ld(0, 0, 0), Lda("a", 1), Ld(0, 1, 2), Stx(2, 0, 2), Halt>>>>,
    <<"a", 4096, <<Long(-1)>>>>, <<"b", 8192, <<Long(12288)>>>>, <<"b_data", 12288, Longs(Ten(-1))>> >>,
    "a" :> <<0>> @@ "b_data" :> FirstCleared))
-----------------------------------------------------------------------------
\* a3/code: array elements and arithmetic, as in q1.c and e1.c to e4.c.  Of the
\* six statements of q1.c q1.s has the first two, and does not store the second.
q1Computes(a) == "i" :> <<a[a[4] + 1]>> @@ "j" :> <<4>> @@ "a" :> [a EXCEPT ![a[3] + 1] = @ + a[5]]
a3q1(a) == [Prog(<<
    <<"start", 256, <<Lda("a", 0), Lda("i", 1), Ldi(3, 2), Ldx(0, 2, 3), St(3, 0, 1), Ld(0, 1, 2), Ldx(0, 2, 1), Halt>>>>,
    <<"i", 512, <<Long(1)>>>>, <<"j", Follows, <<Long(2)>>>>, <<"a", Follows, Longs(a)>> >>, q1Computes(a))
    EXCEPT !.regs = 1 :> a[a[4] + 1]]

e1Leaves(a, c) == "b" :> <<a + 5>> @@ "c" :> [c EXCEPT ![1] = -(a + c[a + 6]) - 1]
e1(a, c) == Prog(<<
    <<"start", 256, <<Lda("a", 0), Ld(0, 0, 0), Ldi(5, 1), Add(1, 0), Lda("b", 1), St(0, 0, 1),
                      Lda("a", 0), Ld(0, 0, 0), Lda("c", 1), Lda("b", 2), Ld(0, 2, 2), Ldx(1, 2, 2), Add(2, 0),
                      Invert(0), St(0, 0, 1), Halt>>>>,
    <<"a", 512, <<Long(a)>>>>, <<"b", Follows, <<Long(0)>>>>, <<"c", Follows, Longs(c)>> >>, e1Leaves(a, c))

e2Leaves(a, b, c, d) == "c" :> <<b[1] + AndW(d[(a % 8) + 1] + b[(c % 4) + 1], 42) + 1>>
e2(a, b, c, d) == Prog(<<
    <<"start", 256, <<Lda("a", 0), Ld(0, 0, 0), Ldi(7, 1), AndR(1, 0), Lda("d", 1), Ldx(1, 0, 0),
                      Lda("c", 1), Ld(0, 1, 1), Ldi(3, 2), AndR(2, 1), Lda("b", 2), Ldx(2, 1, 1),
                      Add(1, 0), Ldi(42, 1), AndR(1, 0), Ld(0, 2, 1), Add(1, 0), Inc(0), Lda("c", 1), St(0, 0, 1), Halt>>>>,
    <<"a", 512, <<Long(a)>>>>, <<"b", Follows, Longs(b)>>, <<"c", Follows, <<Long(c)>>>>, <<"d", Follows, Longs(d)>> >>, e2Leaves(a, b, c, d))

e3Leaves(a, b, c, d) ==
    LET d2 == d + AndW(a[(d % 4) + 1], b[((d + 1) % 4) + 1]) - c[((d + 2) % 4) + 1] - 1
        a2 == [a EXCEPT ![1] = b[2] \div 4]
    IN  "d" :> <<d2>> @@ "a" :> a2 @@ "b" :> [b EXCEPT ![2] = 4 * c[3]] @@ "c" :> [c EXCEPT ![(d2 % 4) + 1] = a2[((d2 + 1) % 4) + 1]]
e3(a, b, c, d) == Prog(<<
    <<"start", 256, <<Lda("d", 0), Ld(0, 0, 0), Mov(0, 1), Mov(1, 2), Inc(2), Mov(2, 3), Inc(3),
                      Ldi(3, 4), AndR(4, 1), AndR(4, 2), AndR(4, 3),
                      Lda("a", 4), Ldx(4, 1, 1), Lda("b", 4), Ldx(4, 2, 2), AndR(2, 1),
                      Lda("c", 4), Ldx(4, 3, 3), Invert(3), Add(3, 1), Add(1, 0), Lda("d", 1), St(0, 0, 1),
                      Lda("b", 0), Ld(4, 0, 0), Shr(2, 0), Lda("a", 1), St(0, 0, 1),
                      Lda("c", 0), Ld(8, 0, 0), Shl(2, 0), Lda("b", 1), St(0, 4, 1),
                      Lda("d", 0), Ld(0, 0, 0), Mov(0, 1), Inc(1), Ldi(3, 2), AndR(2, 0), AndR(2, 1),
                      Lda("a", 2), Lda("c", 3), Ldx(2, 1, 2), Stx(2, 3, 0), Halt>>>>,
    <<"a", 512, Longs(a)>>, <<"b", Follows, Longs(b)>>, <<"c", Follows, Longs(c)>>, <<"d", Follows, <<Long(d)>>>> >>, e3Leaves(a, b, c, d))

e4Leaves(a, b, c) ==
    LET c2 == [c EXCEPT ![b + 1] = ((c[a + 1] + 1) \div 2^15) - 1]
    IN  "b" :> <<b + 4>> @@ "c" :> [c2 EXCEPT ![b + 5] = c2[a + 1] - 4]
e4(a, b, c) == Prog(<<
    <<"start", 256, <<Lda("c", 0), Lda("a", 1), Ld(0, 1, 1), Ldx(0, 1, 1), Inc(1), Shr(15, 1), Dec(1), Lda("b", 2),
                      Ld(0, 2, 2), Stx(1, 0, 2), Lda("b", 0), Ld(0, 0, 1), Inca(1), St(1, 0, 0),
                      Lda("d", 0), Ld(0, 0, 0), Lda("a", 1), Ld(0, 1, 1), Ldx(0, 1, 1), Deca(1), Lda("b", 2),
                      Ld(0, 2, 2), Stx(1, 0, 2), Halt>>>>,
    <<"a", 512, <<Long(a)>>>>, <<"b", Follows, <<Long(b)>>>>, <<"c", Follows, Longs(c)>>, <<"d", Follows, <<LongA("c")>>>> >>, e4Leaves(a, b, c))

-----------------------------------------------------------------------------
\* a4 and a5: structs and pointers.  S4-instance-var.c: e = f, in both.
S4Leaves(f0, f1) == "d0" :> <<f0, f0>> @@ "d1_data" :> <<f1, f1>>
S4instanceVar(f0, f1) == OnA2(Prog(<<
    <<"start", 256, <<Lda("d0", 0), Ld(4, 0, 1), St(1, 0, 0), Lda("d1", 0), Ld(0, 0, 0), Ld(4, 0, 1), St(1, 0, 0), Halt>>>>,
    <<"d0", 8192, Longs(<<1, f0>>)>>, <<"d1", 12288, <<Long(16384)>>>>, <<"d1_data", 16384, Longs(<<3, f1>>)>> >>, S4Leaves(f0, f1)))

\* a4/4.8/code/q3.s: v0 = s.x[i]; v1 = s.y[i]; v2 = s.z->x[i]; v3 = s.z->z->y[i].
a4q3(i) == Prog(<<
    <<"code", 4096, <<Lda("v0", 0), Lda("i", 1), Ld(0, 1, 1), Lda("s", 2), Ldx(2, 1, 3), St(3, 0, 0),
                      Lda("v1", 0), Ld(8, 2, 3), Ldx(3, 1, 3), St(3, 0, 0), Lda("v2", 0), Ld(12, 2, 3), Ldx(3, 1, 3),
                      St(3, 0, 0), Lda("v3", 0), Ld(12, 2, 3), Ld(12, 3, 3), Ld(8, 3, 3), Ldx(3, 1, 3), St(3, 0, 0), Halt>>>>,
    <<"i", 8192, <<Long(i)>>>>, <<"v0", Follows, <<Long(0)>>>>, <<"v1", Follows, <<Long(0)>>>>, <<"v2", Follows, <<Long(0)>>>>,
    <<"v3", Follows, <<Long(0)>>>>, <<"s", Follows, <<Long(2), Long(3), LongA("s_y"), LongA("s_z")>>>>,
    <<"s_y", 12288, Longs(<<4, 5>>)>>, <<"s_z", Follows, <<Long(6), Long(7), Long(8), LongA("s_z_z")>>>>,
    <<"s_z_z", Follows, <<Long(9), Long(10), LongA("s_z_z_y"), Long(11)>>>>, <<"s_z_z_y", Follows, Longs(<<12, 13>>)>> >>,
    "v0" :> <<2 + i>> @@ "v1" :> <<4 + i>> @@ "v2" :> <<6 + i>> @@ "v3" :> <<12 + i>>)

\* a5/q1.c: the last statement reads through the pointer the fourth one set.
IndexGlobal == <<Lda("i", 0), Ld(0, 0, 0), Lda("a", 1), Ld(0, 1, 1)>>
q1Leaves(i) == "v0" :> <<10 + i>> @@ "v1" :> <<20 + i>> @@ "v2" :> <<30 + i>> @@ "v3" :> <<20 + i>>
a5q1(i) == Prog(<<
    <<"S1", 4096, IndexGlobal \o <<Ld(0, 1, 1), Ldx(1, 0, 2), Lda("v0", 3), St(2, 0, 3)>> >>,
    <<"S2", Follows, IndexGlobal \o <<Inca(1), Ldx(1, 0, 2), Lda("v1", 3), St(2, 0, 3)>> >>,
    <<"S3", Follows, IndexGlobal \o <<Ld(20, 1, 1), Ld(0, 1, 1), Ldx(1, 0, 2), Lda("v2", 3), St(2, 0, 3)>> >>,
    <<"S4", Follows, <<Lda("a", 1), Ld(0, 1, 1), St(1, 20, 1)>> >>,
    <<"S5", Follows, IndexGlobal \o <<Ld(20, 1, 1), Inca(1), Ldx(1, 0, 2), Lda("v3", 3), St(2, 0, 3), Halt>> >>,
    <<"i", 8192, <<Long(i)>> >>, <<"v0", Follows, <<Long(0)>> >>, <<"v1", Follows, <<Long(0)>> >>, <<"v2", Follows, <<Long(0)>> >>,
    <<"v3", Follows, <<Long(0)>> >>, <<"a", Follows, <<LongA("d0")>> >>,
    <<"d0", 12288, <<LongA("d1")>> \o Longs(<<20, 21, 22, 23>>) \o <<LongA("d2")>> >>,
    <<"d2", Follows, <<LongA("d3")>> \o Longs(<<40, 41, 42, 43, 0>>)>>,
    <<"d1", Follows, Longs(<<10, 11, 12, 13>>)>>, <<"d3", Follows, Longs(<<30, 31, 32, 33>>)>> >>, q1Leaves(i))

-----------------------------------------------------------------------------
\* a7/SA-dynamic-call.s: virtual calls through class tables.  new_A, new_B and
\* new_C reserve a word less than a struct A, B and C have, so that each object
\* lies over the last field of the one before.
SAComputes == "heap" :> <<8704, 10, 8716, 20, 8732, 30, 100>>
Call(l) == <<Gpc(6, 6), Jmp(l)>>
Method(o) == <<Ld(4, 5, 0), Ld(0, 0, 1), Deca(5), St(0, 0, 5), Ld(o, 1, 1), Gpc(2, 6), Jr(0, 1), Inca(5)>>
Return == <<Ld(0, 5, 6), Inca(5), Jr(0, 6)>>
PassTo(l) == <<Deca(5), St(0, 0, 5)>> \o Call(l) \o <<Inca(5)>>
NewObject(size, class, fields) ==
    <<Deca(5), St(6, 0, 5), Ldi(size, 0)>> \o Call("malloc") \o <<Lda(class, 1), St(1, 0, 0)>> \o fields \o Return
FieldI == <<Ld(4, 5, 7), St(7, 4, 0)>>

SAdynamicCall == [Prog(<<
    <<"start", 256, <<Lda("sb", 5), Inca(5)>> \o Call("bar") \o <<Halt>>>>,
    <<"bar", 512, <<Deca(5), Deca(5), St(6, 4, 5)>> >>,
    <<"foo_a", Follows, <<Deca(5), Ldi(10, 0), St(0, 0, 5)>> \o Call("new_A") \o <<Inca(5)>> \o PassTo("foo")>>,
    <<"foo_b", Follows, <<Deca(5), Ldi(20, 0), St(0, 0, 5)>> \o Call("new_B") \o <<Inca(5)>> \o PassTo("foo")>>,
    <<"foo_c", Follows, <<Deca(5), Deca(5), Ldi(30, 0), St(0, 0, 5), Ldi(100, 0), St(0, 4, 5)>> \o Call("new_C")
                        \o <<Inca(5), Inca(5)>> \o PassTo("foo")>>,
    <<"done", Follows, <<Ld(4, 5, 6), Inca(5), Inca(5), Jr(0, 6)>> >>,
    <<"foo", 768, <<Deca(5), St(6, 0, 5)>> \o Method(4) \o Method(8) \o Return>>,
    <<"new_A", 1024, NewObject(4, "A_class", FieldI)>>,
    <<"new_B", 1280, NewObject(4, "B_class", FieldI)>>,
    <<"new_C", 1536, NewObject(8, "C_class", FieldI \o <<Ld(8, 5, 7), St(7, 8, 0)>>)>>,
    <<"malloc", 1792, <<Mov(0, 2), Lda("heapFr", 1), Ld(0, 1, 0), Add(0, 2), St(2, 0, 1), Jr(0, 6)>> >>,
    <<"A_ping", 8192, <<Jr(0, 6)>> >>, <<"A_pong", Follows, <<Jr(0, 6)>> >>,
    <<"B_ping", Follows, <<Jr(0, 6)>> >>, <<"B_wiff", Follows, <<Jr(0, 6)>> >>,
    <<"C_ping", Follows, <<Deca(5), St(6, 0, 5), Ld(4, 5, 0), Ld(0, 0, 1), Ld(0, 1, 1), Deca(5), St(0, 0, 5), Ld(4, 1, 1),
                           Gpc(2, 6), Jr(0, 1), Inca(5)>> \o Return>>,
    <<"A_class", 8704, <<Long(0), LongA("A_ping"), LongA("A_pong")>> >>,
    <<"B_class", Follows, <<LongA("A_class"), LongA("B_ping"), LongA("A_pong"), LongA("B_wiff")>> >>,
    <<"C_class", Follows, <<LongA("B_class"), LongA("C_ping"), LongA("A_pong"), LongA("B_wiff")>> >>,
    <<"heapFr", 12288, <<LongA("heap")>> >>, <<"heap", 16384, Zeros(9)>>, <<"stack", 20480, Zeros(8)>>, <<"sb", Follows, <<Long(0)>> >> >>,
    SAComputes) EXCEPT !.regs = 5 :> 20480 + 36]

-----------------------------------------------------------------------------
(* The inputs that the programs are run with: those of the files, and others *)
(* that take the other branches.                                           *)

\* The bytes of a8/test.s.machine are those of a8/test.s.
ASSUME EncodesLikeTheAssembler ==
    Load(everyInstruction.code) =
        [a \in 0..49 |-> <<2,0, 0,0,0,48, 16,1, 32,1, 49,0, 65,0, 96,1, 97,1, 98,1, 99,1, 100,1, 101,1, 102,1, 103,1,
                           111,1, 113,0, 128,0, 144,0, 160,0, 176,0, 0,0,0,46, 194,0, 240,0>>[a + 1]]

Evens == <<2, 4, 6, 8, 10, 12, 14, 16, 18, 20>>
Students == << <<1110, 90, 96, 88, 90>>, <<1111, 90, 86, 65, 70>>, <<1112, 90, 97, 97, 97>>,
               <<1113, 42, 42, 36, 64>>, <<1114, 60, 50, 80, 60>> >>
BitPatterns == <<1, 2, 3, -1, -2, 0, 184, 340057058>>
Small == <<3, 9, 5, 0, 12, 6, 7, 1>>
Quad == <<5, -3, 7, 2>>
Threes == [k \in 1..11 |-> k + 2]

\* What a comparison by subtraction and a division by shifting are wrong for.
Overflowing == {<<MinInt, 1>>, <<MaxInt, -1>>}
RoundedDown == {-6, -10}

Files ==
    <<"S5-loop">> :> S5loop(Evens) @@ <<"S5a-loop-unrolled">> :> S5aLoopUnrolled(Evens)
    @@ <<"max">> :> maxOf(<<2, 40, 6, 80, 10, 120, 14, 16, 18, 20>>) @@ <<"q3">> :> q3a6(Students)
    @@ <<"max overflows">> :> Differs(maxOf(<<2, MinInt, 6, 80, 10, 120, 14, 16, 18, 20>>))
    @@ <<"q3 rounds down">> :> Differs(q3a6([Students EXCEPT ![1] = <<1110, -1, 0, 0, -2>>]))
    @@ <<"q4a">> :> q4a(Evens) @@ <<"q4b">> :> q4b(BitPatterns)
    @@ <<"S7-reg">> :> S7staticCallReg @@ <<"S7-stack">> :> S7staticCallStack
    @@ <<"test">> :> everyInstruction @@ <<"simple-test">> :> simpleTest
    @@ <<"swap">> :> swap(49, 21) @@ <<"S1">> :> S1globalStatic @@ <<"S2">> :> S2globalDynArray
    @@ <<"a3 q1">> :> Differs(a3q1(Threes))
    @@ <<"S4">> :> S4instanceVar(2, 4) @@ <<"SA">> :> Differs(SAdynamicCall)
    @@ <<"test on a2">> :> testA2Load @@ <<"e2">> :> e2(5, <<1, 20, -3, 11>>, 6, Small)

ByInput ==
    [x \in {"S6-if"} \X (-2..2) \X (-2..2) |-> S6if(x[2], x[3])]
    @@ [x \in {"S6-if"} \X {MinInt, MaxInt} \X {-1, 0, 1} |->
           IF Tail(x) \in Overflowing THEN Differs(S6if(x[2], x[3])) ELSE S6if(x[2], x[3])]
    @@ [x \in {"SB-switch"} \X ((19..24) \cup {MinInt, MinInt + 18, MinInt + 19, MaxInt}) |-> SBswitch(x[2])]
    @@ [x \in {"math"} \X {5, 0, 8, -5, -7, -8, 100} |-> math(x[2])]
    @@ [x \in {"math"} \X RoundedDown |-> Differs(math(x[2]))]
    @@ [x \in {"calc"} \X (0..2) |-> calc(x[2], <<5, 4, 300, 2>>)]
    @@ [x \in {"a2-test"} \X DOMAIN InstructionTests |-> a2test(x[2])]
    @@ [x \in {"test"} \X DOMAIN InstructionTests |-> testA2(x[2])]
    @@ [x \in {"e1"} \X (-5..-2) |-> e1(x[2], Quad)]
    @@ [x \in {"e3"} \X (0..3) |-> e3(Quad, <<6, -9, 4, 15>>, <<8, 1, -2, 3>>, x[2])]
    @@ [x \in {"e4"} \X (0..7) \X (0..3) |-> e4(x[2], x[3], <<65536, -70000, 3, 32767, 5, -1, 7, 8>>)]
    @@ [x \in {"a4 q3"} \X (0..1) |-> a4q3(x[2])] @@ [x \in {"a5 q1"} \X (0..3) |-> a5q1(x[2])]

\* Every function of opcodes 6 and 7 on the ends of the range of a word.
Boundary == {MinInt, -2, -1, 0, 1, 255, MaxInt}
Instructions == {Add(0, 1), AndR(0, 1), Inc(1), Inca(1), Dec(1), Deca(1), Invert(1), Mov(0, 1), Shl(1, 1), Shl(31, 1), Shr(1, 1), Shr(31, 1)}
Snippets == [x \in {"one instruction"} \X Instructions \X Boundary \X Boundary |->
    OnA2(Prog(<< <<"start", 0, <<Ldi(x[3], 0), Ldi(x[4], 1), x[2], Halt>> >> >>, <<>>))]

AllPrograms == Files @@ ByInput @@ Snippets
=============================================================================
