---------------------------- MODULE Instructions -----------------------------
(***************************************************************************)
(* Instruction::disassemble (mos6502/src/instructions.rs): which opcode,   *)
(* address mode and base cycle count each of the 256 opcode bytes stands   *)
(* for.  The source lists the bytes one by one; the tables below use that  *)
(* the bytes of a family are a base plus an offset per address mode.       *)
(***************************************************************************)
EXTENDS Integers

Row(byte, op, mode, cycles) ==
  [byte |-> byte, op |-> op, mode |-> mode, cycles |-> cycles]

(* The rows of op, one for each <<offset, mode, cycles>>.                  *)
Family(op, base, modes) ==
  {Row(base + m[1], op, m[2], m[3]) : m \in modes}

(* The same for a function from opcodes to their bases.                    *)
Families(bases, modes) ==
  UNION {Family(op, bases[op], modes) : op \in DOMAIN bases}

Implied(bytes, cycles) ==
  {Row(bytes[op], op, "Impl", cycles) : op \in DOMAIN bytes}

JamBytes == {\h02, \h12, \h22, \h32, \h42, \h52, \h62, \h72, \h92, \hb2, \hd2,
             \hf2}

FlagRows ==
  {Row(b, "JAM", "Impl", 0) : b \in JamBytes}
  \union Implied([BRK |-> \h00], 7) \union Implied([RTI |-> \h40], 6)
  \union Implied([SEC |-> \h38, SED |-> \hf8, SEI |-> \h78, CLC |-> \h18,
                  CLD |-> \hd8, CLI |-> \h58, CLV |-> \hb8, TAX |-> \haa,
                  TAY |-> \ha8, TSX |-> \hba, TXA |-> \h8a, TXS |-> \h9a,
                  TYA |-> \h98], 2)
  \union Family("BIT", \h24, {<<0, "Zero", 3>>, <<8, "Abs", 4>>})

AccumulatorModes ==
  {<<\h09, "Imm", 2>>, <<\h05, "Zero", 3>>, <<\h15, "ZeroX", 4>>,
   <<\h0d, "Abs", 4>>, <<\h1d, "AbsX", 4>>, <<\h19, "AbsY", 4>>,
   <<\h01, "IndX", 6>>, <<\h11, "IndY", 5>>}

AccumulatorRows ==
  Families([ORA |-> \h00, AND |-> \h20, EOR |-> \h40, ADC |-> \h60,
            LDA |-> \ha0, SBC |-> \he0], AccumulatorModes)
  \union Family("LDX", \ha2, {<<0, "Imm", 2>>, <<4, "Zero", 3>>,
           <<\h14, "ZeroY", 4>>, <<\h0c, "Abs", 4>>, <<\h1c, "AbsY", 4>>})
  \union Family("LDY", \ha0, {<<0, "Imm", 2>>, <<4, "Zero", 3>>,
           <<\h14, "ZeroX", 4>>, <<\h0c, "Abs", 4>>, <<\h1c, "AbsX", 4>>})

StoreModes(index) ==
  {<<0, "Zero", 3>>, <<\h10, index, 4>>, <<8, "Abs", 4>>}

StoreAndJumpRows ==
  Family("STA", \h85, StoreModes("ZeroX") \union
           {<<\h18, "AbsX", 5>>, <<\h14, "AbsY", 5>>, <<-4, "IndX", 6>>,
            <<\h0c, "IndY", 6>>})
  \union Family("STX", \h86, StoreModes("ZeroY"))
  \union Family("STY", \h84, StoreModes("ZeroX"))
  \union {Row(\h4c, "JMP", "Abs", 3), Row(\h6c, "JMP", "Ind", 5),
          Row(\h20, "JSR", "Abs", 6), Row(\h60, "RTS", "Impl", 6)}
  \union Families([BPL |-> \h10, BMI |-> \h30, BVC |-> \h50, BVS |-> \h70,
                   BCC |-> \h90, BCS |-> \hb0, BNE |-> \hd0, BEQ |-> \hf0],
                  {<<0, "Rel", 2>>})
  \union Implied([DEX |-> \hca, DEY |-> \h88, INX |-> \he8, INY |-> \hc8], 2)

MemoryModes ==
  {<<\h06, "Zero", 5>>, <<\h16, "ZeroX", 6>>, <<\h0e, "Abs", 6>>,
   <<\h1e, "AbsX", 7>>}

NopRows ==
  Families([DEC |-> \hc0, INC |-> \he0], MemoryModes)
  \union {Row(b, "NOP", "Impl", 2) : b \in {\hea, \h1a, \h3a}}
  \union {Row(b, "NOP", "Nop", 2) : b \in {\h80, \h82, \h89, \hc2, \he2}}
  \union {Row(b, "NOP", "Nop", 3) : b \in {\h04, \h44, \h64}}
  \union {Row(b, "NOP", "Nop", 4) :
            b \in {\h14, \h34, \h54, \h74, \hd4, \hf4, \h0c}}
  \union {Row(b, "NOP", "AbsX", 4) :
            b \in {\h1c, \h3c, \h5c, \h7c, \hdc, \hfc}}

CompareAndShiftRows ==
  Families([CPY |-> \hc0, CPX |-> \he0],
           {<<0, "Imm", 2>>, <<4, "Zero", 3>>, <<\h0c, "Abs", 4>>})
  \union Family("CMP", \hc0, AccumulatorModes)
  \union Families([ASL |-> \h00, ROL |-> \h20, LSR |-> \h40, ROR |-> \h60],
                  MemoryModes \union {<<\h0a, "Impl", 2>>})
  \union Implied([PHA |-> \h48, PHP |-> \h08], 3)
  \union Implied([PLA |-> \h68, PLP |-> \h28], 4)

(* The undocumented opcodes. *)
CombinedModes ==
  {<<\h07, "Zero", 5>>, <<\h17, "ZeroX", 6>>, <<\h0f, "Abs", 6>>,
   <<\h1f, "AbsX", 7>>, <<\h1b, "AbsY", 7>>, <<\h03, "IndX", 8>>}

IllegalRows ==
  Family("LAX", \ha0, {<<7, "Zero", 3>>, <<\h17, "ZeroY", 4>>,
           <<\h0f, "Abs", 4>>, <<\h1f, "AbsY", 4>>, <<3, "IndX", 6>>,
           <<\h13, "IndY", 5>>})
  \union Family("SAX", \h80, {<<7, "Zero", 3>>, <<\h17, "ZeroY", 4>>,
           <<\h0f, "Abs", 4>>, <<3, "IndX", 6>>})
  \union Families([SLO |-> \h00, RLA |-> \h20, SRE |-> \h40, RRA |-> \h60,
                   DCP |-> \hc0, ISC |-> \he0], CombinedModes)
  \union Families([SLO |-> \h00, RLA |-> \h20, SRE |-> \h40, RRA |-> \h60,
                   DCP |-> \hc0], {<<\h13, "IndY", 8>>})
  \union {Row(\hf3, "ISC", "IndY", 4), Row(\heb, "USBC", "Imm", 2),
          Row(\h0b, "ANC", "Imm", 2), Row(\h2b, "ANC2", "Imm", 2),
          Row(\h4b, "ALR", "Imm", 2)}
  \union {Row(b, "NOP", "Impl", 2) : b \in {\hda, \h5a, \hfa, \h7a}}

Rows == FlagRows \union AccumulatorRows \union StoreAndJumpRows
        \union NopRows \union CompareAndShiftRows \union IllegalRows

Known == {row.byte : row \in Rows} \* any other byte panics

RowOf == [byte \in Known |-> CHOOSE row \in Rows : row.byte = byte]

(* Instruction::imp, two and thr. *)
SizeOf(row) ==
  CASE row.mode = "Impl" -> 1
    [] row.mode \in {"Abs", "AbsX", "AbsY", "Ind"} -> 3
    [] row.byte = \h0c -> 3
    [] OTHER -> 2

disassemble(opbyte, operand1, operand2) ==
  [op |-> RowOf[opbyte].op, mode |-> RowOf[opbyte].mode,
   cycles |-> RowOf[opbyte].cycles, size |-> SizeOf(RowOf[opbyte]),
   operands |-> <<operand1, operand2>>]

(* The cycles that crossing a page adds. *)
num_extra_cycles(inst) ==
  CASE inst.op \in {"DCP", "STA", "SLO", "RLA", "SRE", "RRA"} -> 0
    [] inst.op = "ISC" -> IF inst.mode = "IndY" THEN 4 ELSE 0
    [] OTHER -> 1
=============================================================================
