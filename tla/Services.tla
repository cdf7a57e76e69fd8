------------------------------ MODULE Services -------------------------------
(***************************************************************************)
(* The three small services beside the emulator, each a program of its own:*)
(* a session of hacky-halls, a page of tcl-tac-toe with its server, and    *)
(* the accounts of thunderstruck.  One of them runs; the variables of the  *)
(* others stay as they were at the start.                                  *)
(***************************************************************************)
EXTENDS HackyHalls, Thunderstruck

CONSTANTS OtherMarks, MaxAstray, MaxDialogs \* those of TclTacToe

VARIABLES
  service, \* which program runs
  client, gameBoard, signature, requests, dialogs, astray \* those of TclTacToe

tttVars == <<client, gameBoard, signature, requests, dialogs, astray>>
serviceVars == <<service, hallsVars, thunderVars, tttVars>>

Page == INSTANCE TclTacToe

Start ==
  /\ service \in {"hacky-halls", "tcl-tac-toe", "thunderstruck"}
  /\ HallsInit /\ ThunderInit /\ Page!TttInit
  /\ service # "tcl-tac-toe" => client = "page"

Run ==
  /\ UNCHANGED service
  /\ \/ service = "hacky-halls" /\ HallsNext /\ UNCHANGED <<thunderVars, tttVars>>
     \/ service = "tcl-tac-toe" /\ Page!TttNext /\ UNCHANGED <<hallsVars, thunderVars>>
     \/ service = "thunderstruck" /\ ThunderNext /\ UNCHANGED <<hallsVars, tttVars>>

(* The fairness is that of HallsSpec.                                      *)
RunningSecond ==
  service = "hacky-halls" /\ Second /\ UNCHANGED <<service, thunderVars, tttVars>>

ServiceSpec == Start /\ [][Run]_serviceVars /\ WF_serviceVars(RunningSecond)

-----------------------------------------------------------------------------
(* Properties: those of the services *)

(* The variables of all services hold values of the code's types.          *)
ServiceTypeOK == HallsTypeOK /\ ThunderTypeOK /\ Page!TttTypeOK

(* The computer of tcl-tac-toe is not the first to lose a game on its page.*)
ComputerNeverLoses == Page!ComputerNeverLoses

(* A player of tcl-tac-toe who waits for the answers is never refused.     *)
RefusedOnlyWithCause == Page!RefusedOnlyWithCause
=============================================================================
