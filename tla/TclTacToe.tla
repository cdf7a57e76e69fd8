------------------------------ MODULE TclTacToe ------------------------------
(***************************************************************************)
(* A player's page (tcl-tac-toe/app/static/index.js) and the server that   *)
(* answers its moves (app.tcl).  The server keeps no state: each request   *)
(* brings the board before the move with the server's signature of it.     *)
(* Requests are asynchronous, so that a player who clicks again before the *)
(* answer has two of them on the way, and their answers come in any order. *)
(* A signature is the board that was signed: signing is deterministic.     *)
(* A request need not come from the page: a script like tests/e.py posts   *)
(* any mark in any cell, with the board and the signature that the last    *)
(* answer brought; it waits for its answers.  Answers to other players     *)
(* have nothing in common with these.                                      *)
(***************************************************************************)
EXTENDS Integers, SequencesExt

CONSTANTS
  OtherMarks, \* what a script may put in a cell, beside X, O and -
  MaxAstray, \* bound: requests of a game that overlap another, or fail
  MaxDialogs \* bound: messages that wait to be shown

VARIABLES
  client, \* who plays: the page, or a script
  gameBoard, signature, \* the page's globals
  requests, \* XMLHttpRequests without an answer
  dialogs, \* messages whose timer of 250 ms runs
  astray \* since the page was loaded: the clicks that did not wait for an
         \* answer, and the requests that got none

tttVars == <<client, gameBoard, signature, requests, dialogs, astray>>

Cells == 1 .. 9
Marks == {"X", "O", "-"} \union OtherMarks
Empty == [cell \in Cells |-> "-"]
win == <<{1, 2, 3}, {4, 5, 6}, {7, 8, 9}, {1, 4, 7}, {2, 5, 8}, {3, 6, 9},
         {1, 5, 9}, {3, 5, 7}>>

Full(board) == \A cell \in Cells : board[cell] # "-"

(* The winner is the owner of the first combination that is complete.      *)
check_win(board) ==
  LET complete == {k \in DOMAIN win : \E player \in {"X", "O"} :
                     \A cell \in win[k] : board[cell] = player}
  IN IF complete # {} THEN board[Min(win[Min(complete)])]
     ELSE IF Full(board) THEN "tie" ELSE "-"

(* The empty cell of a combination whose other two cells are the player's. *)
Missing(board, player, combo) ==
  {cell \in combo : /\ board[cell] = "-"
                    /\ \A other \in combo \ {cell} : board[other] = player}

(* The cells of the first combination that the computer can complete.      *)
Winning(board) ==
  LET lines == {k \in DOMAIN win : Missing(board, "O", win[k]) # {}}
  IN IF lines = {} THEN {} ELSE Missing(board, "O", win[Min(lines)])

(* Mutant: only the first of the human's threats is blocked.               *)
ThreatsFirst(board) ==
  LET lines == {k \in DOMAIN win : Missing(board, "X", win[k]) # {}}
  IN IF lines = {} THEN {} ELSE Missing(board, "X", win[Min(lines)])

(* The loop that blocks goes on after it has placed an O.                  *)
Threats(board) == UNION {Missing(board, "X", win[k]) : k \in DOMAIN win}

FirstFree(board) == {Min({cell \in Cells : board[cell] = "-"})}

computer_make_move(board) ==
  LET played == CASE Winning(board) # {} -> Winning(board)
                  [] Winning(board) = {} /\ Threats(board) # {} -> Threats(board)
                  [] OTHER -> FirstFree(board)
  IN [cell \in Cells |-> IF cell \in played THEN "O" ELSE board[cell]]

(* A cell whose mark is neither player's counts as empty.                  *)
valid_move(old, new) ==
  LET changed == {cell \in Cells : old[cell] # new[cell]}
  IN Cardinality(changed) = 1 /\ \A cell \in changed : old[cell] \notin {"X", "O"}

Reply(board, signed, message) ==
  [board |-> board, signature |-> signed, message |-> message]

NoMessage == ""

Message(winner) ==
  CASE winner = "X" -> "Impossible" [] winner = "O" -> "Haha"
    [] winner = "tie" -> "Cat's game" [] OTHER -> NoMessage

(* Mutant: the board that was played is signed, not the answer to it.      *)
AcceptedEarly(board) ==
  LET answered == IF check_win(board) = "-" THEN computer_make_move(board) ELSE board
  IN Reply(answered, board, Message(check_win(answered)))

(* A valid move, and the computer's answer to it.                          *)
Accepted(board) ==
  LET answered == IF check_win(board) = "-" THEN computer_make_move(board) ELSE board
  IN Reply(answered, answered, Message(check_win(answered)))

update_board(r) ==
  CASE r.signature = r.prev /\ valid_move(r.prev, r.new) -> Accepted(r.new)
    [] r.signature = r.prev /\ ~valid_move(r.prev, r.new) ->
         Reply(r.prev, r.signature, "Invalid move")
    [] OTHER -> Reply(r.prev, r.signature, "No hacking allowed")

-----------------------------------------------------------------------------
(* wapp-page-index.js: the globals of a page that was just loaded.         *)
Load ==
  /\ gameBoard' = Empty /\ signature' = Empty
  /\ requests' = {} /\ dialogs' = <<>>
  /\ astray' = 0
  /\ UNCHANGED client

TttInit ==
  /\ gameBoard = Empty /\ signature = Empty
  /\ requests = {} /\ dialogs = <<>>
  /\ astray = 0
  /\ client \in {"page", "script"}

(* A request to put a mark in a cell of the board.                         *)
Post(cell, mark) ==
  /\ gameBoard' = [gameBoard EXCEPT ![cell] = mark]
  /\ requests' = requests \union
       {[prev |-> gameBoard, new |-> gameBoard', signature |-> signature]}
  /\ astray' = (IF requests = {} THEN astray ELSE astray + 1) /\ astray' <= MaxAstray
  /\ UNCHANGED <<client, signature, dialogs>>

(* The page posts an X, in an empty cell.                                  *)
Click(cell) ==
  /\ client = "page" /\ gameBoard[cell] = "-"
  /\ Post(cell, "X")

PostByScript(cell, mark) == client = "script" /\ requests = {} /\ Post(cell, mark)

Final(message) == message \in {"Impossible", "Haha", "Cat's game"}

(* The server's answer to a request, and the callback.                     *)
Answered(request) ==
  /\ Len(dialogs) < MaxDialogs
  /\ LET reply == update_board(request)
     IN /\ gameBoard' = reply.board /\ signature' = reply.signature
        /\ dialogs' = IF reply.message = NoMessage THEN dialogs ELSE Append(dialogs, reply.message)
  /\ requests' = requests \ {request}
  /\ UNCHANGED <<client, astray>>

(* No answer, or one with a status other than 200: the callback is not     *)
(* called, and the page keeps its X.  (A script ends.)                     *)
Failed(request) ==
  /\ client = "page"
  /\ astray < MaxAstray /\ astray' = astray + 1
  /\ requests' = requests \ {request}
  /\ UNCHANGED <<client, gameBoard, signature, dialogs>>

(* alert, and after a final message a reload, which drops all requests.    *)
Alert ==
  /\ dialogs # <<>>
  /\ \/ Final(Head(dialogs)) /\ Load
     \/ /\ ~Final(Head(dialogs))
        /\ dialogs' = Tail(dialogs)
        /\ UNCHANGED <<client, gameBoard, signature, requests, astray>>

TttNext ==
  \/ \E cell \in Cells : Click(cell)
  \/ \E cell \in Cells, mark \in Marks : PostByScript(cell, mark)
  \/ \E request \in requests : Answered(request) \/ Failed(request)
  \/ Alert

TttSpec == TttInit /\ [][TttNext]_tttVars

-----------------------------------------------------------------------------
(* Properties *)

TttTypeOK ==
  /\ {gameBoard, signature} \subseteq [Cells -> Marks]
  /\ client \in {"page", "script"}
  /\ dialogs \in Seq({"Impossible", "Haha", "Cat's game", "Invalid move", "No hacking allowed"})
  /\ astray \in Nat

(* The human has not won a game that was not over.                         *)
Unbeaten ==
  \A k \in DOMAIN dialogs :
    dialogs[k] = "Impossible" => \E j \in 1 .. k - 1 : Final(dialogs[j])

(* "The unbeatable AI": however the human plays on the page, also with     *)
(* clicks that do not wait and requests that fail, the first game to end   *)
(* is the computer's win or a tie.  (A human who goes on clicking until    *)
(* the page reloads may then complete three X beside the computer's three  *)
(* O, and is told of a win after the loss.)  The computer needs for this   *)
(* that it answers a fork with two marks at once.                          *)
ComputerNeverLoses == client = "page" => Unbeaten

(* A player who waits for the answers, and gets them, is never told that a *)
(* move is refused: the page's board is then the one that its signature    *)
(* signs, from move to move and from game to game.                         *)
RefusedOnlyWithCause ==
  (client = "page" /\ astray = 0) =>
    /\ \A k \in DOMAIN dialogs : Final(dialogs[k])
    /\ requests = {} => gameBoard = signature
=============================================================================
