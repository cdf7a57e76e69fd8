SPECIFICATION DebuggerSpec
CONSTANTS
  Sign = 128
  Machines <- MCMachines
  Debugged <- MCDebugged
  Breakpoints <- MCBreakpoints
  BACKTRACE_LIMIT = 4
  MaxTrace = 5
  HandlerMemory <- MCHandlerMemory
  MaxNestedNmis = 1
INVARIANTS
  DebuggerTypeOK
  InterruptsAreTransparent
  HandlersAreNotInterruptedByIrq
PROPERTIES
  StopsAtBreakpoints
  ArithmeticIsExact
CHECK_DEADLOCK FALSE
