------------------------------ MODULE Debugger -------------------------------
(***************************************************************************)
(* The CPU with its debugger (mos6502/src/debugger.rs), which a build with *)
(* the feature "debugger" consults before it executes an instruction       *)
(* (Mos6502::tick).  It remembers the last instructions, stops at a        *)
(* breakpoint and then takes keys from the terminal; the tick goes on when *)
(* the key is one of step, continue and mute.  The keys that only print    *)
(* and ask again change nothing.  Watches are left out.                    *)
(***************************************************************************)
EXTENDS Mos6502

CONSTANTS
  Debugged, \* the machines of a build with the debugger
  Breakpoints, \* sets of breakpoints to start with
  BACKTRACE_LIMIT, \* 11 in the code
  MaxTrace \* bound: how far back the history goes

ASSUME LimitAssumption == BACKTRACE_LIMIT \in Nat \ {0} /\ MaxTrace \in Nat
ASSUME DebuggedAssumption == \A c \in Debugged : IsCpu(c)

VARIABLES
  debugging, \* the feature is on
  breakpoints, \* what to stop at
  suspended, \* the user steps through the program
  backtrace, \* the opcodes of the last instructions, the latest last
  asked, \* history: the user was asked before the last instruction
  trace \* history: the same as backtrace, but longer

debuggerVars == <<debugging, breakpoints, suspended, backtrace, asked, trace>>

DebuggerInit ==
  /\ suspended = FALSE /\ asked = FALSE
  /\ backtrace = <<>> /\ trace = <<>>
  /\ \/ /\ Init
        /\ debugging = FALSE /\ breakpoints = {}
     \/ /\ cpu \in Debugged /\ main = cpu
        /\ bounds = [e \in {"nmi", "irq", "reset"} |-> 0]
        /\ jammed = FALSE /\ frames = <<>>
        /\ debugging = TRUE /\ breakpoints \in Breakpoints

Latest(s, n) == SubSeq(s, Max({1, Len(s) - n + 1}), Len(s))

(* Mutant: the oldest entry is never dropped.                              *)
RememberAll(op) == Append(backtrace, op)

(* Mutant: at the limit the backtrace starts over.                         *)
RememberAnew(op) ==
  IF Len(backtrace) + 1 = BACKTRACE_LIMIT THEN <<op>> ELSE Append(backtrace, op)

(* The backtrace with an instruction pushed, which never gets to the limit. *)
Remember(op) ==
  LET longer == Append(backtrace, op)
  IN IF Len(longer) = BACKTRACE_LIMIT THEN Tail(longer) ELSE longer

(* Breakpoint::Address, Opcode and OpcodeSequence.                         *)
Hits(breakpoint, pc, history) ==
  CASE breakpoint.at = "address" -> breakpoint.address = pc
    [] breakpoint.at = "opcode" -> breakpoint.opcode = Last(history)
    [] breakpoint.at = "sequence" ->
         Latest(history, Len(breakpoint.opcodes)) = breakpoint.opcodes

is_breakpoint(pc, history) == \E b \in breakpoints : Hits(b, pc, history)

(* The user is asked, and answers with a key that lets the tick go on.     *)
user_input ==
  \/ suspended' = TRUE /\ UNCHANGED breakpoints \* space
  \/ suspended' = FALSE /\ UNCHANGED breakpoints \* c
  \/ suspended' = FALSE /\ breakpoints' = {} \* m

on_tick ==
  LET op == fetch_next_instruction(cpu).op
  IN /\ backtrace' = Remember(op)
     /\ trace' = Latest(Append(trace, op), MaxTrace)
     /\ asked' = (suspended \/ is_breakpoint(cpu.pc, backtrace'))
     /\ IF asked' THEN user_input ELSE UNCHANGED <<suspended, breakpoints>>
     /\ UNCHANGED debugging

DebuggerTick ==
  /\ debugging
  /\ tick
  /\ on_tick

WithoutDebugger ==
  /\ ~debugging
  /\ Next
  /\ UNCHANGED debuggerVars

DebuggerNext == DebuggerTick \/ WithoutDebugger

DebuggerSpec == DebuggerInit /\ [][DebuggerNext]_<<vars, debuggerVars>>

-----------------------------------------------------------------------------
(* Properties *)

DebuggerTypeOK ==
  /\ TypeOK
  /\ debugging \in BOOLEAN /\ suspended \in BOOLEAN /\ asked \in BOOLEAN
  /\ Len(backtrace) < BACKTRACE_LIMIT /\ Len(trace) <= MaxTrace

(* No instruction at a breakpoint runs before the user is asked, also when *)
(* the breakpoint is a sequence of opcodes that a jump or a loop put       *)
(* together, and however much the backtrace forgot.                        *)
StopsAtBreakpoints ==
  [][DebuggerTick => \/ asked'
                     \/ \A b \in breakpoints : ~Hits(b, cpu.pc, trace')
    ]_<<vars, debuggerVars>>
=============================================================================
