SPECIFICATION DebuggerSpec
CONSTANTS
  Sign = 128
  Machines <- MCOverrun
  Debugged = {}
  Breakpoints <- MCBreakpoints
  BACKTRACE_LIMIT = 4
  MaxTrace = 5
  HandlerMemory <- MCHandlerMemory
  MaxNestedNmis = 2
INVARIANT
  InterruptsAreTransparent
CHECK_DEADLOCK FALSE
