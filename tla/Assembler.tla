----------------------------- MODULE Assembler -----------------------------
(***************************************************************************)
(* The words of the SM213 computer and its assembly language, as far as    *)
(* the .s files of the repository use it.  The assembler itself is not     *)
(* part of the repository: Encode is the instruction format the simulators *)
(* decode.  A program is a sequence of blocks: a label, an address (or     *)
(* Follows, for the one after the block before), and its instructions and  *)
(* words.                                                                  *)
(***************************************************************************)
EXTENDS Integers, Sequences, SequencesExt, Functions, TLC

MaxInt == 2147483647
MinInt == -2147483647 - 1
Int32 == MinInt..MaxInt

\* x + y in 32 bits.
AddW(x, y) ==
    CASE y > 0 /\ x > MaxInt - y -> (x + MinInt) + (y + MinInt)
      [] y < 0 /\ x < MinInt - y -> ((x + MaxInt) + 1) + ((y + MaxInt) + 1)
      [] OTHER -> x + y

\* The bytes of a word, big endian, and back.
integerToBytes(v) == <<(v \div 16777216) % 256, (v \div 65536) % 256, (v \div 256) % 256, v % 256>>
bytesToInteger(b) == (IF b[1] >= 128 THEN b[1] - 256 ELSE b[1]) * 16777216 + b[2] * 65536 + b[3] * 256 + b[4]

\* x & y.
AndW(x, y) ==
    LET a == integerToBytes(x) b == integerToBytes(y)
        ones(k) == {n \in 0..7 : (a[k] \div 2^n) % 2 = 1 /\ (b[k] \div 2^n) % 2 = 1}
    IN  bytesToInteger([k \in 1..4 |-> FoldSet(LAMBDA n, v : v + 2^n, 0, ones(k))])

-----------------------------------------------------------------------------
\* What a block is made of.  Registers are numbers; l is a label.
Ldi(v, d) == <<"ld$", v, d>>          Lda(l, d) == <<"lda", l, d>>
Ld(o, s, d) == <<"ld", o, s, d>>      Ldx(s, i, d) == <<"ldx", s, i, d>>
St(s, o, d) == <<"st", s, o, d>>      Stx(s, d, i) == <<"stx", s, d, i>>
Mov(s, d) == <<"alu", 0, s, d>>       Add(s, d) == <<"alu", 1, s, d>>
AndR(s, d) == <<"alu", 2, s, d>>      Inc(d) == <<"alu", 3, 0, d>>
Inca(d) == <<"alu", 4, 0, d>>         Dec(d) == <<"alu", 5, 0, d>>
Deca(d) == <<"alu", 6, 0, d>>        Invert(d) == <<"alu", 7, 0, d>>
Gpc(o, d) == <<"alu", 15, o \div 2, d>>
Shl(n, d) == <<"sh", d, n>>           Shr(n, d) == <<"sh", d, 256 - n>>
Br(l) == <<"br", 8, 0, l>>            Beq(r, l) == <<"br", 9, r, l>>
Bgt(r, l) == <<"br", 10, r, l>>       Jmp(l) == <<"j", l>>
Jr(o, r) == <<"jr", r, o \div 2>>     Halt == <<"op", 240, 0>>
Long(v) == <<"long", v>>              LongA(l) == <<"longa", l>>
Zeros(n) == [k \in 1..n |-> Long(0)]
Longs(s) == [k \in DOMAIN s |-> Long(s[k])]

Follows == -1

Size(item) == CASE item[1] \in {"ld$", "lda", "j"} -> 6 [] item[1] \in {"long", "longa"} -> 4 [] OTHER -> 2

\* The bytes of an item at address a, with the addresses at of the labels.
Encode(item, a, at) ==
    LET x == item[2] y == item[3] z == item[4] IN
    CASE item[1] = "ld$" -> <<y, 0>> \o integerToBytes(x)
      [] item[1] = "lda" -> <<y, 0>> \o integerToBytes(at[x])
      [] item[1] = "ld"  -> <<16 + x \div 4, y * 16 + z>>
      [] item[1] = "ldx" -> <<32 + x, y * 16 + z>>
      [] item[1] = "st"  -> <<48 + x, (y \div 4) * 16 + z>>
      [] item[1] = "stx" -> <<64 + x, y * 16 + z>>
      [] item[1] = "alu" -> <<96 + x, y * 16 + z>>
      [] item[1] = "sh"  -> <<112 + x, y % 256>>
      [] item[1] = "br"  -> <<x * 16 + y, ((at[z] - (a + 2)) \div 2) % 256>>
      [] item[1] = "j"   -> <<176, 0>> \o integerToBytes(at[x])
      [] item[1] = "jr"  -> <<192 + x, y>>
      [] item[1] = "op"  -> <<x, y>>
      [] item[1] = "long" -> integerToBytes(x)
      [] item[1] = "longa" -> integerToBytes(at[x])

\* The bytes of the items before the k-th of a block.
Before(items, k) == FoldLeft(LAMBDA n, i : n + Size(i), 0, SubSeq(items, 1, k - 1))

\* Where each block of a program starts, and the addresses of the labels.
Starts(prog) ==
    FoldLeft(LAMBDA at, block :
               Append(at, IF block[2] # Follows THEN block[2]
                          ELSE at[Len(at)] + Before(prog[Len(at)][3], Len(prog[Len(at)][3]) + 1)),
             <<>>, prog)
Labels(prog) == LET at == Starts(prog) IN [l \in {b[1] : b \in Range(prog)} |->
                                            at[CHOOSE k \in DOMAIN prog : prog[k][1] = l]]

\* The memory with the program in it: a function on the addresses it fills.
Load(prog) ==
    LET start == Starts(prog)
        labels == Labels(prog)
        items == UNION {{[at |-> start[b] + Before(prog[b][3], k), item |-> prog[b][3][k]] : k \in DOMAIN prog[b][3]} :
                        b \in DOMAIN prog}
        itemAt == [a \in {i.at : i \in items} |-> (CHOOSE i \in items : i.at = a).item]
        code == [a \in DOMAIN itemAt |-> Encode(itemAt[a], a, labels)]
        from(a) == CHOOSE s \in {a - k : k \in 0..5} \cap DOMAIN code : a < s + Len(code[s])
    IN  [a \in UNION {s..(s + Len(code[s]) - 1) : s \in DOMAIN code} |-> code[from(a)][a - from(a) + 1]]
=============================================================================
