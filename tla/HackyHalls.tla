------------------------------ MODULE HackyHalls ------------------------------
(***************************************************************************)
(* One session of the 3-d maze server (hacky-halls/src): the child process *)
(* that main.c forks for a connection, which runs run_server (server.c)    *)
(* with a maze of its own (maze_generate.c), and the alarm that ends it.   *)
(* A session shares nothing with the others.  Messages arrive in pieces, a *)
(* header and, for some types, a body; their texts, and the encryption of  *)
(* the answers, are left out.                                              *)
(***************************************************************************)
EXTENDS Integers, SequencesExt

CONSTANTS
  Length, Height, Width, \* MAZE_LENGTH, MAZE_HEIGHT, MAZE_WIDTH: 10 in the code
  Coordinates, \* what a player asks a description of, in the maze or not
  Timeout, \* the option -t, 30 by default
  MaxPieces \* bound: pieces of messages that the player sends

ASSUME MazeAssumption == /\ Coordinates \subseteq Int \X Int \X Int
                         /\ {Length, Height, Width} \subseteq Nat \ {0}
                         /\ Timeout \in Nat \ {0} /\ MaxPieces \in Nat

VARIABLES
  process, \* what the child does
  shaken, \* the handshake is done
  type, \* s.msg_type
  alarm, \* seconds until SIGALRM, 0: none
  answer, \* what was answered last: a maze, the description of a room, or
          \* memory that is none
  walls, \* pairs of a room and a direction in which it has a wall
  path, \* the rooms whose create_maze has not returned
  visited, \* the rooms that are marked
  wire, \* pieces on the way to the server
  pieces, \* bound: how many were sent
  open, reading \* the player is connected, and takes what is sent

session == <<process, shaken, type, alarm, answer>>
maze == <<walls, path, visited>>
player == <<wire, pieces, open, reading>>
hallsVars == <<session, maze, player>>

-----------------------------------------------------------------------------
(* The maze *)

Rooms == (0 .. Length - 1) \X (0 .. Height - 1) \X (0 .. Width - 1)

(* directions.h *)
Offset == [NORTH |-> <<0, 0, 1>>, EAST |-> <<1, 0, 0>>, SOUTH |-> <<0, 0, -1>>,
           WEST |-> <<-1, 0, 0>>, UP |-> <<0, 1, 0>>, DOWN |-> <<0, -1, 0>>]
Opposite == [NORTH |-> "SOUTH", EAST |-> "WEST", SOUTH |-> "NORTH",
             WEST |-> "EAST", UP |-> "DOWN", DOWN |-> "UP"]
Directions == DOMAIN Offset

Beyond(room, d) == [k \in 1 .. 3 |-> room[k] + Offset[d][k]]
is_valid_move(room) == room \in Rooms

AllWalls == Rooms \X Directions
OuterWalls == {wall \in AllWalls : ~is_valid_move(Beyond(wall[1], wall[2]))}

(* The directions in which create_maze still has a room to visit: it tries *)
(* all six in a random order, and skips those that lead nowhere new.       *)
Unvisited(room) ==
  {d \in Directions : /\ is_valid_move(Beyond(room, d))
                      /\ Beyond(room, d) \notin visited}

(* Where the array of the rooms has a room, or would have it.              *)
Place(coords) == (coords[1] * Height + coords[2]) * Width + coords[3]

(* Mutant: the texts are counted from one (see HallsInit on mutants).      *)
WarmthFromOne(room) ==
  LET Square(p) == (p[1] * p[1]) + (p[2] * p[2]) + (p[3] * p[3])
  IN 10 - Cardinality({k \in 1 .. 10 :
            k * k * Square(<<Length, Height, Width>>) <= 100 * Square(room)})

(* The index of the text for a room: how near it is to the first, in       *)
(* tenths of the diagonal, rounded up.                                     *)
Warmth(room) ==
  LET Square(p) == (p[1] * p[1]) + (p[2] * p[2]) + (p[3] * p[3])
  IN 9 - Cardinality({k \in 1 .. 10 :
           k * k * Square(<<Length, Height, Width>>) <= 100 * Square(room)})

-----------------------------------------------------------------------------
(* Definitions marked "Mutant", here and in the modules below, are variants *)
(* a bug in the code would make: no specification uses them, each of them  *)
(* breaks a property of the runs.                                          *)

HallsInit ==
  /\ process = "none" /\ shaken = FALSE /\ type = "none" /\ alarm = 0
  /\ answer = <<>>
  /\ walls = {} /\ path = <<>> /\ visited = {}
  /\ wire = <<>> /\ pieces = 0 /\ open = TRUE /\ reading = TRUE

(* accept and fork, up to the first receive_message.                       *)
Accepted ==
  /\ process = "none"
  /\ process' = "header" /\ alarm' = Timeout
  /\ UNCHANGED <<shaken, type, answer, maze, player>>

(* Mutant: the alarm is cancelled by a message, and not set again.         *)
ReceiveNextUntimed == process' = "header" /\ alarm' = 0

(* The head of the loop: alarm, then recv.                                 *)
ReceiveNext == process' = "header" /\ alarm' = Timeout

End == process' = "ended" /\ alarm' = 0

(* Memory is overwritten: the model follows the process no further.        *)
Undefined == End \/ (process' = "lost" /\ alarm' = 0)

(* The header has a type and a length, of which one is no promise of the   *)
(* other; a negative length is not refused.                                *)
ReceiveHeader ==
  /\ process = "header" /\ wire # <<>>
  /\ type' = Head(wire) /\ wire' = Tail(wire)
  /\ Undefined \/ (process' \in {"body", "bare"} /\ UNCHANGED alarm)
  /\ UNCHANGED <<shaken, answer, maze, pieces, open, reading>>

(* recv returns 0, in place of a header.  (A connection that was reset is  *)
(* taken for one that was closed.)                                         *)
ReceiveEnd ==
  /\ process = "header" /\ wire = <<>> /\ ~open
  /\ End
  /\ UNCHANGED <<shaken, type, answer, maze, player>>

(* Mutant: the rooms stay marked from the maze before.                     *)
GenerateAgain ==
  /\ walls' = AllWalls
  /\ path' = <<<<0, 0, 0>>>> /\ visited' = visited \union {<<0, 0, 0>>}

(* generate_maze, up to the call of create_maze and the mark it sets.      *)
Generate ==
  /\ walls' = AllWalls
  /\ path' = <<<<0, 0, 0>>>> /\ visited' = {<<0, 0, 0>>}

(* The description at some coordinates: they are not checked, so that some *)
(* outside of the maze are another room's, and others reach beyond the     *)
(* rooms.  Rooms that no maze was made for have an empty description.      *)
Describe(coords) ==
  LET here == {room \in Rooms : Place(room) = Place(coords)}
  IN \/ /\ process' = "sending" /\ UNCHANGED alarm
        /\ IF here = {} THEN answer' = <<"memory">>
           ELSE \E room \in here :
             answer' = <<"description", IF visited = {} THEN -1 ELSE Warmth(room)>>
     \/ here = {} /\ End /\ UNCHANGED answer

(* What run_server does with a message; it answers only some.  The text of *)
(* a description message may have more than three numbers, which are       *)
(* written past the coordinates.                                           *)
Handle ==
  \/ /\ ~shaken /\ type = "handshake"
     /\ shaken' = TRUE /\ answer' = <<"hello">> /\ process' = "sending"
     /\ UNCHANGED <<alarm, maze>>
  \/ /\ type = "disconnect" \/ (~shaken /\ type # "handshake")
     /\ End
     /\ UNCHANGED <<shaken, answer, maze>>
  \/ /\ shaken /\ type = "maze"
     /\ Generate /\ process' = "generating"
     /\ UNCHANGED <<shaken, alarm, answer>>
  \/ /\ shaken /\ type = "description"
     /\ \/ \E coords \in Coordinates : Describe(coords)
        \/ Undefined /\ UNCHANGED answer
     /\ UNCHANGED <<shaken, maze>>
  \/ /\ shaken /\ type \notin {"maze", "description", "disconnect"}
     /\ ReceiveNext
     /\ UNCHANGED <<shaken, answer, maze>>

(* The message's body is there, or has no length; or the player left in    *)
(* the middle of a message, and its text is whatever the buffer held.      *)
ReceiveBody ==
  /\ \/ process = "bare" /\ UNCHANGED wire
     \/ process = "body" /\ wire # <<>> /\ wire' = Tail(wire)
     \/ process = "body" /\ wire = <<>> /\ ~open /\ UNCHANGED wire
  /\ Handle
  /\ UNCHANGED <<type, pieces, open, reading>>

(* create_maze, at the room that is the last of the path.                  *)
Carve(d) ==
  /\ process = "generating" /\ path # <<>>
  /\ d \in Unvisited(Last(path))
  /\ LET next == Beyond(Last(path), d)
     IN /\ walls' = walls \ {<<Last(path), d>>, <<next, Opposite[d]>>}
        /\ visited' = visited \union {next}
        /\ path' = Append(path, next)
  /\ UNCHANGED <<session, player>>

Backtrack ==
  /\ process = "generating" /\ path # <<>>
  /\ Unvisited(Last(path)) = {}
  /\ path' = Front(path)
  /\ UNCHANGED <<walls, visited, session, player>>

(* The end of generate_maze: descriptions and outer walls.                 *)
Finish ==
  /\ process = "generating" /\ path = <<>>
  /\ walls' = walls \union OuterWalls
  /\ answer' = <<"maze">> /\ process' = "sending"
  /\ UNCHANGED <<shaken, type, alarm, path, visited, player>>

(* send_message: a maze fills the socket's buffer, and a player who does   *)
(* not read blocks it; the peer may be gone.                               *)
Answer ==
  /\ process = "sending"
  /\ open => reading \/ answer # <<"maze">>
  /\ ReceiveNext \/ (~open /\ End)
  /\ UNCHANGED <<shaken, type, answer, maze, player>>

(* A second passes; handle_alarm ends the process wherever it is.          *)
Second ==
  /\ alarm > 0
  /\ IF alarm = 1 THEN End ELSE alarm' = alarm - 1 /\ UNCHANGED process
  /\ UNCHANGED <<shaken, type, answer, maze, player>>

-----------------------------------------------------------------------------
(* The player, who may stop at any time. *)

SendPiece(t) ==
  /\ process \notin {"ended", "lost"} /\ open /\ pieces < MaxPieces
  /\ wire' = Append(wire, t) /\ pieces' = pieces + 1
  /\ UNCHANGED <<session, maze, open, reading>>

StopReading ==
  /\ reading /\ process \notin {"ended", "lost"} /\ reading' = FALSE
  /\ UNCHANGED <<session, maze, wire, pieces, open>>

Leave ==
  /\ open /\ process \notin {"ended", "lost"} /\ open' = FALSE
  /\ UNCHANGED <<session, maze, wire, pieces, reading>>

HallsNext ==
  \/ Accepted \/ ReceiveHeader \/ ReceiveEnd \/ ReceiveBody
  \/ \E d \in Directions : Carve(d)
  \/ Backtrack \/ Finish \/ Answer \/ Second
  \/ \E t \in {"handshake", "maze", "description", "disconnect", "reset"} : SendPiece(t)
  \/ StopReading \/ Leave

(* The kernel's timers run; that the process does, or the player, is not   *)
(* assumed.                                                                *)
HallsSpec == HallsInit /\ [][HallsNext]_hallsVars /\ WF_hallsVars(Second)

-----------------------------------------------------------------------------
(* Properties *)

HallsTypeOK ==
  /\ process \in {"none", "header", "body", "bare", "generating", "sending", "ended", "lost"}
  /\ alarm \in 0 .. Timeout
  /\ answer \in {<<>>, <<"hello">>, <<"maze">>, <<"memory">>}
                \union ({"description"} \X (-1 .. 9))
  /\ walls \subseteq AllWalls /\ visited \subseteq Rooms /\ path \in Seq(Rooms)

Neighbours(gaps, rooms) ==
  {Beyond(gap[1], gap[2]) : gap \in {g \in gaps : g[1] \in rooms}}

(* The rooms that can be reached from the first are all rooms.             *)
Connected(gaps) ==
  \A rooms \in SUBSET Rooms :
    <<0, 0, 0>> \in rooms /\ Neighbours(gaps, rooms) \subseteq rooms => rooms = Rooms

Symmetric(gaps) ==
  \A gap \in gaps : <<Beyond(gap[1], gap[2]), Opposite[gap[2]]>> \in gaps

(* The maze that is sent, also when it is not the first of the session, is *)
(* perfect: a wall looks the same from both of its sides, nothing leads    *)
(* out, and between any two rooms there is exactly one way.                *)
MazeIsPerfect ==
  (process = "sending" /\ answer = <<"maze">>) =>
    LET gaps == AllWalls \ walls
    IN /\ Symmetric(gaps)
       /\ Connected(gaps)
       /\ Cardinality(gaps) = 2 * (Cardinality(Rooms) - 1)

(* "Close connection after a player has been inactive": a player who stops *)
(* sending loses the connection, be it before the handshake, in the middle *)
(* of a message, or while the server is blocked by a player who does not   *)
(* read.  Nothing is promised of a process whose memory was overwritten.   *)
IdlePlayerDropped == (process = "header") ~> (process \in {"ended", "lost"})
=============================================================================
