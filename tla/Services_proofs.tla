--------------------------- MODULE Services_proofs ---------------------------
(***************************************************************************)
(* Proofs about the three small services, each for any value of its        *)
(* constants: the accounts of thunderstruck, the page of tcl-tac-toe, the  *)
(* sessions of hacky-halls and their mazes.  A step of Services is a step  *)
(* of one of them, and leaves the variables of the others alone.           *)
(***************************************************************************)
EXTENDS Services, FiniteSetTheorems, SequenceTheorems, WellFoundedInduction, TLAPS

-----------------------------------------------------------------------------
(* thunderstruck: NamePromisedOnce for any number of registrations, names  *)
(* and failures.  The invariant is that a registration that got to the     *)
(* count has its view among the account's, and no view is ever taken away: *)
(* so the count is 1 for the only one, or for the first, and every later   *)
(* one finds two.                                                          *)

ViewsKept ==
  \A r \in Registrants :
    handler[r] \in {"forked", "registered"} => r \in Account(r).views

PromiseInv == ThunderTypeOK /\ ViewsKept /\ NamePromisedOnce

(* A set with one element, as the count says, has no two.                  *)
LEMMA CountedOne ==
  ASSUME NEW S, IsFiniteSet(S), Cardinality(S) = 1, NEW x \in S, NEW y \in S
  PROVE  x = y
  BY FS_Singleton

LEMMA PromiseInit == ThunderInit => PromiseInv
  <1> SUFFICES ASSUME ThunderInit PROVE PromiseInv
      OBVIOUS
  <1>1. ThunderTypeOK
      BY RegistrantsAssumption DEF ThunderInit, ThunderTypeOK
  <1>2. ViewsKept /\ NamePromisedOnce
      BY DEF ThunderInit, ViewsKept, NamePromisedOnce
  <1> QED
      BY <1>1, <1>2 DEF PromiseInv

(* Views are only added, whatever the step.                                *)
LEMMA ViewsGrow ==
  ASSUME PromiseInv, [ThunderNext]_thunderVars
  PROVE  /\ ThunderTypeOK'
         /\ \A r \in Registrants : Account(r).views \subseteq Account(r)'.views
  <1> USE DEF PromiseInv, ThunderTypeOK, Account, Names
  <1>1. CASE UNCHANGED thunderVars
      BY <1>1 DEF thunderVars
  <1>2. ASSUME NEW q \in Registrants,
               CheckName(q) \/ CountViews(q) \/ Login(q) \/ Logout(q)
        PROVE  /\ ThunderTypeOK'
               /\ \A r \in Registrants : Account(r).views \subseteq Account(r)'.views
      BY <1>2 DEF CheckName, CountViews, Login, Logout, At, Finished
  <1>3. ASSUME NEW q \in Registrants,
               AddCredentials(q) \/ ForkView(q) \/ CortexFails(q)
        PROVE  /\ ThunderTypeOK'
               /\ \A r \in Registrants : Account(r).views \subseteq Account(r)'.views
    <2>1. handler' \in [Registrants -> {"form", "free", "added", "forked",
                                        "registered", "refused", "failed"}]
        BY <1>3 DEF AddCredentials, ForkView, CortexFails, At
    <2>2. cookies' \subseteq Registrants /\ failures' \in 0 .. MaxFailures
        BY <1>3, RegistrantsAssumption DEF AddCredentials, ForkView, CortexFails
    <2>3. \/ UNCHANGED account
          \/ account' = [account EXCEPT ![NameOf[q]].password = q]
          \/ account' = [account EXCEPT ![NameOf[q]].views = @ \union {q}]
        BY <1>3 DEF AddCredentials, ForkView, CortexFails
    <2>4. account' \in [Names -> [password : Registrants \union {Nobody},
                                  views : SUBSET Registrants]]
        BY <2>3
    <2>5. \A r \in Registrants : Account(r).views \subseteq Account(r)'.views
        BY <2>3
    <2> QED
        BY <2>1, <2>2, <2>4, <2>5
  <1> QED
      BY <1>1, <1>2, <1>3 DEF ThunderNext

LEMMA PromiseStep == PromiseInv /\ [ThunderNext]_thunderVars => PromiseInv'
  <1> SUFFICES ASSUME PromiseInv, [ThunderNext]_thunderVars PROVE PromiseInv'
      OBVIOUS
  <1>1. ThunderTypeOK'
      BY ViewsGrow
  <1>2. ViewsKept'
    <2> SUFFICES ASSUME NEW r \in Registrants,
                        handler'[r] \in {"forked", "registered"}
                 PROVE  r \in Account(r)'.views
        BY DEF ViewsKept, Account
    <2>1. CASE handler[r] \in {"forked", "registered"}
        BY <2>1, ViewsGrow DEF PromiseInv, ViewsKept
    <2>2. CASE handler[r] \notin {"forked", "registered"}
      <3>1. ForkView(r)
          BY <2>2 DEF ThunderNext, thunderVars, CheckName, AddCredentials, ForkView,
             CountViews, CortexFails, Login, Logout, At, PromiseInv, ThunderTypeOK
      <3> QED
          BY <3>1 DEF ForkView, Account, Names, PromiseInv, ThunderTypeOK
    <2> QED
        BY <2>1, <2>2
  <1>3. NamePromisedOnce'
    (* Whoever becomes registered counted one view.                        *)
    <2>1. ASSUME NEW r \in Registrants, handler'[r] = "registered",
                 handler[r] # "registered"
          PROVE  /\ Cardinality(Account(r).views) = 1 /\ handler[r] = "forked"
                 /\ \A q \in Registrants \ {r} : handler'[q] = handler[q]
        BY <2>1 DEF ThunderNext, thunderVars, CheckName, AddCredentials, ForkView,
           CountViews, CortexFails, Login, Logout, At, PromiseInv, ThunderTypeOK
    <2>2. ASSUME NEW r \in Registrants, NEW q \in Registrants, r # q,
                 NameOf[r] = NameOf[q], handler'[r] = "registered",
                 handler[r] # "registered", handler'[q] = "registered"
          PROVE  FALSE
      <3>1. handler[r] = "forked" /\ handler[q] = "registered"
          BY <2>1, <2>2
      <3>2. r \in Account(r).views /\ q \in Account(r).views
          BY <2>2, <3>1 DEF PromiseInv, ViewsKept, Account
      <3>3. Account(r).views \subseteq Registrants
          BY DEF PromiseInv, ThunderTypeOK, Account, Names
      <3>4. IsFiniteSet(Account(r).views)
          BY <3>3, RegistrantsAssumption, FS_Subset
      <3> QED
          BY <2>1, <2>2, <3>2, <3>4, CountedOne
    <2> SUFFICES ASSUME NEW r \in Registrants, NEW q \in Registrants,
                        NameOf[r] = NameOf[q],
                        handler'[r] = "registered", handler'[q] = "registered"
                 PROVE  r = q
        BY DEF NamePromisedOnce
    <2>3. CASE handler[r] = "registered" /\ handler[q] = "registered"
        BY <2>3 DEF PromiseInv, NamePromisedOnce
    <2> QED
        BY <2>2, <2>3
  <1> QED
      BY <1>1, <1>2, <1>3 DEF PromiseInv

(* A name is promised once: of all registrations of one name at most one   *)
(* is told that it succeeded (register_user, the count of the views).      *)
THEOREM NamesPromisedOnce == ThunderSpec => []NamePromisedOnce
  <1>1. PromiseInv => NamePromisedOnce
      BY DEF PromiseInv
  <1> QED
      BY PromiseInit, PromiseStep, <1>1, PTL DEF ThunderSpec

-----------------------------------------------------------------------------
(* tcl-tac-toe.                                                            *)

Boards == [Page!Cells -> Page!Marks]
FinalMessages == {"Impossible", "Haha", "Cat's game"}
Messages == FinalMessages \union {"Invalid move", "No hacking allowed"}

(* A request made by a player who waited: one empty cell of the board that *)
(* the server signed last was taken.                                       *)
Signed(r) == r.prev = r.signature /\ Page!valid_move(r.prev, r.new)

(* The page's player, who has waited for every answer and got it.          *)
Patient == client = "page" /\ astray = 0

PageInv ==
  /\ Page!TttTypeOK
  /\ requests \subseteq [prev : Boards, new : Boards, signature : Boards]
  /\ Patient =>
       /\ \A k \in DOMAIN dialogs : Page!Final(dialogs[k])
       /\ requests = {} => gameBoard = signature
       /\ \A r \in requests : requests = {r} /\ Signed(r)

(* A page that was just loaded, the first time or after a game.            *)
LEMMA LoadedValues ==
  /\ Page!Empty \in Boards
  /\ <<>> \in Seq(Messages) /\ DOMAIN <<>> = {}
BY DEF Page!Empty, Boards, Page!Marks

LEMMA PageInit == Page!TttInit => PageInv
<1> SUFFICES ASSUME Page!TttInit PROVE PageInv
  OBVIOUS
<1>1. dialogs = <<>> /\ requests = {} /\ gameBoard = Page!Empty
      /\ signature = Page!Empty /\ astray = 0 /\ client \in {"page", "script"}
  BY DEF Page!TttInit
<1>2. Page!TttTypeOK
  BY <1>1, LoadedValues DEF Page!TttTypeOK, Boards, Page!Marks, Messages, FinalMessages
<1>3. QED
  BY <1>1, <1>2, LoadedValues DEF PageInv, Patient

LEMMA LoadKeeps == PageInv /\ Page!Load => PageInv'
<1> SUFFICES ASSUME PageInv, Page!Load PROVE PageInv'
  OBVIOUS
<1>1. dialogs' = <<>> /\ requests' = {} /\ gameBoard' = Page!Empty
      /\ signature' = Page!Empty /\ astray' = 0 /\ UNCHANGED client
  BY DEF Page!Load
<1>2. Page!TttTypeOK'
  BY <1>1, LoadedValues
     DEF PageInv, Page!TttTypeOK, Boards, Page!Marks, Messages, FinalMessages
<1>3. QED
  BY <1>1, <1>2, LoadedValues DEF PageInv, Patient

(* The fields of a refusal are the ones it is made of.                     *)
LEMMA Refusal ==
  ASSUME NEW reply, NEW a, NEW b, NEW m,
         reply = [board |-> a, signature |-> b, message |-> m]
  PROVE  reply.board = a /\ reply.signature = b /\ reply.message = m
OBVIOUS

(* What the server answers is a board, its signature another one, and a    *)
(* message it knows; to a signed valid move it answers with a board that   *)
(* it signs, and with no message but a final one.                          *)
LEMMA Replies ==
  ASSUME NEW r \in [prev : Boards, new : Boards, signature : Boards],
         NEW reply, reply = Page!update_board(r)
  PROVE  /\ reply.board \in Boards /\ reply.signature \in Boards
         /\ reply.message \in Messages \union {Page!NoMessage}
         /\ Signed(r) => /\ reply.board = reply.signature
                         /\ reply.message \in FinalMessages \union {Page!NoMessage}
<1> DEFINE answered == IF Page!check_win(r.new) = "-"
                       THEN Page!computer_make_move(r.new) ELSE r.new
           message == Page!Message(Page!check_win(answered))
<1>1. ASSUME NEW board \in Boards
      PROVE  Page!computer_make_move(board) \in Boards
  BY DEF Page!computer_make_move, Boards, Page!Marks
<1>2. r.prev \in Boards /\ r.new \in Boards /\ r.signature \in Boards
  OBVIOUS
<1>3. answered \in Boards
  BY <1>1, <1>2
<1>4. message \in FinalMessages \union {Page!NoMessage}
  BY DEF Page!Message, FinalMessages
<1>5. CASE Signed(r)
  <2>1. reply = [board |-> answered, signature |-> answered, message |-> message]
    BY <1>5 DEF Signed, Page!update_board, Page!Accepted, Page!Reply
  <2>2. message \in Messages \union {Page!NoMessage}
    BY <1>4 DEF Messages
  <2> HIDE DEF answered, message
  <2>3. QED
    BY <1>3, <1>4, <2>1, <2>2
<1>6. CASE ~Signed(r)
  <2>1. \/ reply = [board |-> r.prev, signature |-> r.signature,
                    message |-> "Invalid move"]
        \/ reply = [board |-> r.prev, signature |-> r.signature,
                    message |-> "No hacking allowed"]
    BY <1>6 DEF Signed, Page!update_board, Page!Reply
  <2>2. "Invalid move" \in Messages /\ "No hacking allowed" \in Messages
    BY DEF Messages
  <2>3. reply.board = r.prev /\ reply.signature = r.signature
        /\ reply.message \in Messages
    BY <2>1, <2>2, Refusal
  <2>4. QED
    BY <1>2, <1>6, <2>3
<1>7. QED
  BY <1>5, <1>6

(* FiniteSets as the page's module knows it.                               *)
LEMMA SameCardinality == \A S : Page!Cardinality(S) = Cardinality(S)
BY DEF Page!Cardinality, Page!IsFiniteSet, Cardinality, IsFiniteSet

LEMMA OneCellTaken ==
  ASSUME NEW old, NEW new, NEW cell, old[cell] = "-",
         {c \in Page!Cells : old[c] # new[c]} = {cell}
  PROVE  Page!valid_move(old, new)
<1> DEFINE changed == {c \in Page!Cells : old[c] # new[c]}
<1>1. changed = {cell}
  OBVIOUS
<1>2. Cardinality(changed) = 1
  <2> HIDE DEF changed
  <2>1. QED
    BY <1>1, FS_Singleton
<1>3. \A c \in changed : old[c] \notin {"X", "O"}
  <2> HIDE DEF changed
  <2>1. QED
    BY <1>1
<1>4. QED
  BY <1>2, <1>3, SameCardinality DEF Page!valid_move

(* The types in terms of boards and messages.                              *)
PageTypesOK ==
  /\ gameBoard \in Boards /\ signature \in Boards /\ client \in {"page", "script"}
  /\ dialogs \in Seq(Messages) /\ astray \in Nat

LEMMA PageTypes ==
  (Page!TttTypeOK <=> PageTypesOK) /\ (Page!TttTypeOK' <=> PageTypesOK')
<1>1. Messages = {"Impossible", "Haha", "Cat's game", "Invalid move", "No hacking allowed"}
  BY DEF Messages, FinalMessages
<1>2. QED
  BY <1>1 DEF Page!TttTypeOK, PageTypesOK, Boards

(* Whoever posts it, a request is of boards.                               *)
LEMMA PostTypes ==
  ASSUME PageInv, NEW cell \in Page!Cells, NEW mark \in Page!Marks, Page!Post(cell, mark)
  PROVE  /\ Page!TttTypeOK'
         /\ requests' \subseteq [prev : Boards, new : Boards, signature : Boards]
<1> DEFINE r == [prev |-> gameBoard, new |-> gameBoard', signature |-> signature]
<1>1. /\ gameBoard' = [gameBoard EXCEPT ![cell] = mark]
      /\ requests' = requests \union {r}
      /\ astray' = IF requests = {} THEN astray ELSE astray + 1
      /\ UNCHANGED <<client, signature, dialogs>>
  BY DEF Page!Post
<1>2. gameBoard \in Boards /\ signature \in Boards
  BY DEF PageInv, Page!TttTypeOK, Boards
<1>3. gameBoard' \in Boards
  BY <1>1, <1>2 DEF Boards
<1>4. requests' \subseteq [prev : Boards, new : Boards, signature : Boards]
  <2>1. r \in [prev : Boards, new : Boards, signature : Boards]
    BY <1>2, <1>3
  <2> HIDE DEF r
  <2>2. QED
    BY <1>1, <2>1 DEF PageInv
<1>5. Page!TttTypeOK'
  <2>1. client \in {"page", "script"} /\ dialogs \in Seq(Messages) /\ astray \in Nat
    BY PageTypes DEF PageInv, PageTypesOK
  <2>2. client' \in {"page", "script"} /\ dialogs' \in Seq(Messages) /\ astray' \in Nat
        /\ signature' \in Boards
    BY <1>1, <1>2, <2>1
  <2>3. QED
    BY <1>3, <2>2, PageTypes DEF PageTypesOK
<1>6. QED
  BY <1>4, <1>5

LEMMA ClickKeeps == ASSUME PageInv, NEW cell \in Page!Cells, Page!Click(cell)
                    PROVE  PageInv'
<1> DEFINE r == [prev |-> gameBoard, new |-> gameBoard', signature |-> signature]
<1>1. /\ gameBoard[cell] = "-" /\ gameBoard' = [gameBoard EXCEPT ![cell] = "X"]
      /\ requests' = requests \union {r}
      /\ astray' = IF requests = {} THEN astray ELSE astray + 1
      /\ UNCHANGED <<client, signature, dialogs>>
  BY DEF Page!Click, Page!Post
<1>2. gameBoard \in Boards /\ astray \in Nat
  BY DEF PageInv, Page!TttTypeOK, Boards
<1>3. /\ Page!TttTypeOK'
      /\ requests' \subseteq [prev : Boards, new : Boards, signature : Boards]
  <2>1. "X" \in Page!Marks /\ Page!Post(cell, "X")
    BY DEF Page!Click, Page!Marks
  <2>2. QED
    BY <2>1, PostTypes
<1>4. ASSUME Patient'
      PROVE  /\ \A k \in DOMAIN dialogs : Page!Final(dialogs[k])
             /\ requests' = {r} /\ Signed(r)
  <2>1. Patient /\ requests = {}
    BY <1>1, <1>2, <1>4 DEF Patient
  <2>2. gameBoard = signature
    BY <2>1 DEF PageInv
  <2>3. {c \in Page!Cells : r.prev[c] # r.new[c]} = {cell}
    BY <1>1, <1>2 DEF Boards
  <2>4. Page!valid_move(r.prev, r.new)
    <3>1. r.prev[cell] = "-"
      BY <1>1
    <3> HIDE DEF r
    <3>2. QED
      BY <2>3, <3>1, OneCellTaken
  <2>5. QED
    BY <1>1, <2>1, <2>2, <2>4 DEF Signed, PageInv
<1>5. QED
  BY <1>1, <1>3, <1>4 DEF PageInv, Page!Final

LEMMA ScriptKeeps ==
  ASSUME PageInv, NEW cell \in Page!Cells, NEW mark \in Page!Marks,
         Page!PostByScript(cell, mark)
  PROVE  PageInv'
BY PostTypes DEF Page!PostByScript, Page!Post, PageInv, Patient

(* A request without an answer takes the player's patience.                *)
LEMMA FailedKeeps ==
  ASSUME PageInv, NEW r \in requests, Page!Failed(r)
  PROVE  PageInv'
<1>1. /\ requests' = requests \ {r} /\ astray' = astray + 1 /\ astray \in Nat
      /\ UNCHANGED <<client, gameBoard, signature, dialogs>>
  BY DEF Page!Failed, PageInv, Page!TttTypeOK
<1>2. Page!TttTypeOK'
  <2>1. /\ gameBoard \in Boards /\ signature \in Boards
        /\ client \in {"page", "script"} /\ dialogs \in Seq(Messages)
    BY PageTypes DEF PageInv, PageTypesOK
  <2>2. /\ gameBoard' \in Boards /\ signature' \in Boards
        /\ client' \in {"page", "script"} /\ dialogs' \in Seq(Messages) /\ astray' \in Nat
    BY <1>1, <2>1
  <2>3. QED
    BY <2>2, PageTypes DEF PageTypesOK
<1>3. ~Patient'
  BY <1>1 DEF Patient
<1>4. QED
  BY <1>1, <1>2, <1>3 DEF PageInv

LEMMA AnsweredKeeps ==
  ASSUME PageInv, NEW r \in requests, Page!Answered(r)
  PROVE  PageInv'
<1> DEFINE reply == Page!update_board(r)
<1>1. /\ gameBoard' = reply.board /\ signature' = reply.signature
      /\ dialogs' = IF reply.message = Page!NoMessage THEN dialogs
                    ELSE Append(dialogs, reply.message)
      /\ requests' = requests \ {r} /\ UNCHANGED <<client, astray>>
  BY DEF Page!Answered
<1>2. r \in [prev : Boards, new : Boards, signature : Boards]
  BY DEF PageInv
<1>3. /\ reply.board \in Boards /\ reply.signature \in Boards
      /\ reply.message \in Messages \union {Page!NoMessage}
      /\ Signed(r) => /\ reply.board = reply.signature
                      /\ reply.message \in FinalMessages \union {Page!NoMessage}
  BY <1>2, Replies
<1> HIDE DEF reply
<1>4. dialogs \in Seq(Messages)
  BY DEF PageInv, Page!TttTypeOK, Messages, FinalMessages
<1>5. dialogs' \in Seq(Messages)
  <2>1. CASE reply.message = Page!NoMessage
    BY <1>1, <1>4, <2>1
  <2>2. CASE reply.message # Page!NoMessage
    <3>1. reply.message \in Messages
      BY <1>3, <2>2
    <3>2. QED
      BY <1>1, <1>4, <2>2, <3>1, AppendProperties
  <2>3. QED
    BY <2>1, <2>2
<1>7. Page!TttTypeOK'
  BY <1>1, <1>3, <1>5
     DEF PageInv, Page!TttTypeOK, Boards, Messages, FinalMessages
<1>8. ASSUME Patient'
      PROVE  /\ \A k \in DOMAIN dialogs' : Page!Final(dialogs'[k])
             /\ requests' = {} /\ gameBoard' = signature'
  <2>1. Patient
    BY <1>1, <1>8 DEF Patient
  <2>2. /\ \A k \in DOMAIN dialogs : Page!Final(dialogs[k])
        /\ requests = {r} /\ Signed(r)
    BY <2>1 DEF PageInv
  <2>3. reply.message = Page!NoMessage \/ Page!Final(reply.message)
    BY <1>3, <2>2 DEF FinalMessages, Page!Final
  <2>4. \A k \in DOMAIN dialogs' : Page!Final(dialogs'[k])
    <3>1. CASE reply.message = Page!NoMessage
      BY <1>1, <2>2, <3>1
    <3>2. CASE reply.message # Page!NoMessage
      <4>1. \A k \in DOMAIN dialogs' :
              dialogs'[k] = reply.message \/ (k \in DOMAIN dialogs /\ dialogs'[k] = dialogs[k])
        <5>1. reply.message \in Messages /\ dialogs' = Append(dialogs, reply.message)
          BY <1>1, <1>3, <3>2
        <5>2. /\ Len(dialogs') = Len(dialogs) + 1
              /\ \A k \in 1..Len(dialogs) : dialogs'[k] = dialogs[k]
              /\ dialogs'[Len(dialogs) + 1] = reply.message
          BY <1>4, <5>1, AppendProperties
        <5>3. DOMAIN dialogs = 1..Len(dialogs) /\ DOMAIN dialogs' = 1..Len(dialogs')
          BY <1>4, <1>5
        <5>4. Len(dialogs) \in Nat
          BY <1>4
        <5>5. QED
          BY <5>2, <5>3, <5>4
      <4>2. QED
        BY <2>2, <2>3, <3>2, <4>1
    <3>3. QED
      BY <3>1, <3>2
  <2>5. QED
    BY <1>1, <1>3, <2>2, <2>4
<1>9. QED
  BY <1>1, <1>7, <1>8 DEF PageInv

LEMMA AlertKeeps == PageInv /\ Page!Alert => PageInv'
<1> SUFFICES ASSUME PageInv, Page!Alert PROVE PageInv'
  OBVIOUS
<1>1. CASE Page!Load
  BY <1>1, LoadKeeps
<1>2. CASE /\ dialogs # <<>> /\ ~Page!Final(Head(dialogs))
           /\ dialogs' = Tail(dialogs)
           /\ UNCHANGED <<client, gameBoard, signature, requests, astray>>
  <2>1. dialogs \in Seq(Messages)
    BY DEF PageInv, Page!TttTypeOK, Messages, FinalMessages
  <2>2. dialogs' \in Seq(Messages)
    BY <1>2, <2>1
  <2>3. Page!TttTypeOK'
    BY <1>2, <2>2 DEF PageInv, Page!TttTypeOK, Page!Final, Messages, FinalMessages
  <2>4. ~Patient
    <3>1. 1 \in DOMAIN dialogs /\ Head(dialogs) = dialogs[1]
      BY <1>2, <2>1
    <3>2. QED
      BY <1>2, <3>1 DEF PageInv
  <2>5. QED
    BY <1>2, <2>3, <2>4 DEF PageInv, Patient
<1>3. QED
  BY <1>1, <1>2 DEF Page!Alert

LEMMA PageStep == PageInv /\ [Page!TttNext]_tttVars => PageInv'
<1>1. PageInv /\ UNCHANGED tttVars => PageInv'
  <2> SUFFICES ASSUME PageInv, UNCHANGED tttVars PROVE PageInv'
    OBVIOUS
  <2>1. UNCHANGED <<client, gameBoard, signature, requests, dialogs, astray>>
    BY DEF tttVars
  <2>2. Page!TttTypeOK'
    BY <2>1 DEF PageInv, Page!TttTypeOK
  <2>3. QED
    BY <2>1, <2>2, Zenon DEF PageInv, Patient
<1>2. QED
  BY <1>1, ClickKeeps, ScriptKeeps, AnsweredKeeps, FailedKeeps, AlertKeeps
     DEF Page!TttNext

-----------------------------------------------------------------------------
(* hacky-halls: MazeIsPerfect for a maze of any size.  While create_maze   *)
(* works, the rooms that are marked and the gaps between them are a tree   *)
(* around the first room: every gap is there from both of its sides, there *)
(* is one of them fewer than there are marked rooms, and all marked rooms  *)
(* can be reached.  A marked room that is no longer on the path has no     *)
(* unmarked neighbour left; so when the path is empty, all rooms are       *)
(* marked.                                                                 *)

Origin == <<0, 0, 0>>
Gaps == AllWalls \ walls
OnPath(room) == \E k \in 1 .. Len(path) : path[k] = room

Tree(gaps, rooms) ==
  /\ IsFiniteSet(gaps) /\ IsFiniteSet(rooms)
  /\ Origin \in rooms
  /\ Symmetric(gaps)
  /\ \A gap \in gaps : gap[1] \in rooms
  /\ Cardinality(gaps) = 2 * (Cardinality(rooms) - 1)
  /\ \A S \in SUBSET Rooms : Origin \in S /\ Neighbours(gaps, S) \subseteq S => rooms \subseteq S

MazeTypes == walls \subseteq AllWalls /\ visited \subseteq Rooms /\ path \in Seq(Rooms)

Growing ==
  /\ Tree(Gaps, visited)
  /\ \A k \in 1 .. Len(path) : path[k] \in visited
  /\ \A room \in visited : OnPath(room) \/ Unvisited(room) = {}

MazeInv ==
  /\ HallsTypeOK
  /\ process = "generating" => Growing
  /\ process = "sending" /\ answer = <<"maze">> => Tree(Gaps, Rooms)

(* The way back is the opposite direction.                                 *)
LEMMA WayBack ==
  ASSUME NEW room \in Rooms, NEW d \in Directions, Beyond(room, d) \in Rooms
  PROVE  /\ Opposite[d] \in Directions /\ Opposite[Opposite[d]] = d
         /\ Beyond(Beyond(room, d), Opposite[d]) = room
         /\ Beyond(room, d) # room
BY MazeAssumption DEF Rooms, Beyond, Offset, Opposite, Directions

LEMMA OriginIsARoom == Origin \in Rooms
BY MazeAssumption DEF Origin, Rooms

(* Each room but the first has a neighbour that is nearer to the first.    *)
LEMMA Nearer ==
  ASSUME NEW room \in Rooms, room # Origin
  PROVE  \E q \in Rooms, d \in Directions :
           /\ Beyond(q, d) = room
           /\ q[1] + q[2] + q[3] < room[1] + room[2] + room[3]
<1>1. room = <<room[1], room[2], room[3]>>
  BY DEF Rooms
<1>2. room[1] > 0 \/ room[2] > 0 \/ room[3] > 0
  BY <1>1 DEF Rooms, Origin
<1>3. CASE room[1] > 0
  <2> DEFINE q == <<room[1] - 1, room[2], room[3]>>
  <2>1. q \in Rooms /\ "EAST" \in Directions
    BY <1>3, MazeAssumption DEF Rooms, Directions, Offset
  <2>2. Beyond(q, "EAST") = room
    BY <1>1, MazeAssumption DEF Rooms, Beyond, Offset
  <2>3. q[1] + q[2] + q[3] < room[1] + room[2] + room[3]
    BY DEF Rooms
  <2>4. QED
    BY <2>1, <2>2, <2>3
<1>4. CASE room[2] > 0
  <2> DEFINE q == <<room[1], room[2] - 1, room[3]>>
  <2>1. q \in Rooms /\ "UP" \in Directions
    BY <1>4, MazeAssumption DEF Rooms, Directions, Offset
  <2>2. Beyond(q, "UP") = room
    BY <1>1, MazeAssumption DEF Rooms, Beyond, Offset
  <2>3. q[1] + q[2] + q[3] < room[1] + room[2] + room[3]
    BY DEF Rooms
  <2>4. QED
    BY <2>1, <2>2, <2>3
<1>5. CASE room[3] > 0
  <2> DEFINE q == <<room[1], room[2], room[3] - 1>>
  <2>1. q \in Rooms /\ "NORTH" \in Directions
    BY <1>5, MazeAssumption DEF Rooms, Directions, Offset
  <2>2. Beyond(q, "NORTH") = room
    BY <1>1, MazeAssumption DEF Rooms, Beyond, Offset
  <2>3. q[1] + q[2] + q[3] < room[1] + room[2] + room[3]
    BY DEF Rooms
  <2>4. QED
    BY <2>1, <2>2, <2>3
<1>6. QED
  BY <1>2, <1>3, <1>4, <1>5

(* The least of some natural numbers.                                      *)
LEMMA LessThanIsWellFounded == IsWellFoundedOn({ss \in Nat \X Nat : ss[1] < ss[2]}, Nat)
BY NatLessThanWellFounded, Zenon DEF OpToRel

LEMMA LeastNumber ==
  ASSUME NEW T, T \subseteq Nat, T # {}
  PROVE  \E n \in T : \A m \in T : n <= m
<1> DEFINE R == {ss \in Nat \X Nat : ss[1] < ss[2]}
<1>1. IsWellFoundedOn(R, Nat)
  BY LessThanIsWellFounded
<1>2. PICK n \in T : \A m \in T : ~(<<m, n>> \in R)
  <2> HIDE DEF R
  <2>1. QED
    BY <1>1, WFMin
<1>3. \A m \in T : m < n => <<m, n>> \in R
  <2>1. \A m \in T : <<m, n>> \in Nat \X Nat /\ <<m, n>>[1] = m /\ <<m, n>>[2] = n
    OBVIOUS
  <2>2. QED
    BY <2>1
<1>4. \A m \in T : ~(m < n)
  <2> HIDE DEF R
  <2>1. QED
    BY <1>2, <1>3
<1>5. QED
  BY <1>4

(* A set of rooms that has the first, and the neighbours of those it has,  *)
(* has all: one that it lacks, and that is nearest to the first, would be  *)
(* the neighbour of one it has.                                            *)
LEMMA AllRooms ==
  ASSUME NEW S \in SUBSET Rooms, Origin \in S,
         \A room \in S, d \in Directions : Beyond(room, d) \in Rooms => Beyond(room, d) \in S
  PROVE  S = Rooms
<1> DEFINE Distance(room) == room[1] + room[2] + room[3]
           missing == Rooms \ S
           distances == {Distance(room) : room \in missing}
<1> SUFFICES ASSUME missing # {} PROVE FALSE
  OBVIOUS
<1>1. \A room \in Rooms : Distance(room) \in Nat
  BY MazeAssumption DEF Rooms
<1>2. distances \subseteq Nat /\ distances # {}
  BY <1>1
<1>3. PICK n \in distances : \A m \in distances : n <= m
  <2> HIDE DEF distances
  <2>1. QED
    BY <1>2, LeastNumber
<1>4. PICK room \in missing : Distance(room) = n
  OBVIOUS
<1>5. PICK q \in Rooms, d \in Directions : Beyond(q, d) = room /\ Distance(q) < Distance(room)
  BY <1>4, Nearer
<1>6. q \in S
  <2> SUFFICES ASSUME q \in missing PROVE FALSE
    OBVIOUS
  <2>1. Distance(q) \in distances
    OBVIOUS
  <2>2. n <= Distance(q)
    BY <1>3, <2>1
  <2>3. QED
    BY <1>1, <1>4, <1>5, <2>2
<1>7. QED
  BY <1>5, <1>6

-----------------------------------------------------------------------------
(* The steps of a session.  Its types first: nothing of the maze but what  *)
(* Generate, Carve, Backtrack and Finish do to it.                         *)

Answers ==
  {<<>>, <<"hello">>, <<"maze">>, <<"memory">>} \union ({"description"} \X (-1 .. 9))
Stages == {"none", "header", "body", "bare", "generating", "sending", "ended", "lost"}

LEMMA WarmthInRange == ASSUME NEW room PROVE Warmth(room) \in -1 .. 9
<1> DEFINE Square(p) == (p[1] * p[1]) + (p[2] * p[2]) + (p[3] * p[3])
           passed == {k \in 1 .. 10 : k * k * Square(<<Length, Height, Width>>)
                                        <= 100 * Square(room)}
<1>1. Warmth(room) = 9 - Cardinality(passed)
  BY DEF Warmth
<1>2. passed \in SUBSET (1 .. 10)
  OBVIOUS
<1> HIDE DEF passed
<1>3. IsFiniteSet(1 .. 10) /\ Cardinality(1 .. 10) = 10
  <2>1. \A b \in Nat : IsFiniteSet(1 .. b) /\ Cardinality(1 .. b) = b
    BY FS_Interval
  <2>2. 10 \in Nat
    OBVIOUS
  <2>3. QED
    BY <2>1, <2>2
<1>4. IsFiniteSet(passed) /\ Cardinality(passed) <= 10
  BY <1>2, <1>3, FS_Subset
<1>5. Cardinality(passed) \in Nat
  BY <1>4, FS_CardinalityType
<1>6. QED
  BY <1>1, <1>4, <1>5

(* Whatever the coordinates, the answer is a description or memory.        *)
LEMMA DescribedTypes ==
  ASSUME NEW coords, Describe(coords)
  PROVE  \/ process' = "sending" /\ UNCHANGED alarm
            /\ (answer' = <<"memory">> \/ answer' \in {"description"} \X (-1 .. 9))
         \/ End /\ UNCHANGED answer
<1> DEFINE here == {room \in Rooms : Place(room) = Place(coords)}
<1>1. \A room \in here : (IF visited = {} THEN -1 ELSE Warmth(room)) \in -1 .. 9
  BY WarmthInRange
<1> HIDE DEF here
<1>2. CASE here = {} /\ End /\ UNCHANGED answer
  BY <1>2
<1>3. CASE here = {} /\ answer' = <<"memory">> /\ process' = "sending" /\ UNCHANGED alarm
  BY <1>3
<1>4. CASE /\ \E room \in here :
                answer' = <<"description", IF visited = {} THEN -1 ELSE Warmth(room)>>
           /\ process' = "sending" /\ UNCHANGED alarm
  BY <1>1, <1>4
<1>5. QED
  BY <1>2, <1>3, <1>4, Zenon DEF Describe, here

LEMMA HandleTypes ==
  ASSUME HallsTypeOK, Handle
  PROVE  /\ process' \in Stages /\ alarm' \in 0 .. Timeout /\ answer' \in Answers
         /\ \/ Generate /\ process' = "generating"
            \/ /\ UNCHANGED maze /\ process' # "generating"
               /\ process' = "sending" => answer' # <<"maze">>
<1>1. alarm \in 0 .. Timeout /\ Timeout \in Nat \ {0} /\ answer \in Answers
      /\ process \in Stages
  BY MazeAssumption, Zenon DEF HallsTypeOK, Answers, Stages
<1>2. CASE /\ process' = "generating" /\ Generate /\ UNCHANGED <<alarm, answer>>
  BY <1>1, <1>2 DEF Stages
<1>3. CASE /\ process' = "sending" /\ answer' = <<"hello">> /\ UNCHANGED <<alarm, maze>>
  BY <1>1, <1>3 DEF Stages, Answers
<1>4. CASE (End \/ ReceiveNext \/ Undefined) /\ UNCHANGED <<answer, maze>>
  BY <1>1, <1>4 DEF Stages, End, ReceiveNext, Undefined
<1>5. CASE (\E coords \in Coordinates : Describe(coords)) /\ UNCHANGED maze
  <2>1. \/ process' = "sending" /\ UNCHANGED alarm
            /\ (answer' = <<"memory">> \/ answer' \in {"description"} \X (-1 .. 9))
        \/ End /\ UNCHANGED answer
    BY <1>5, DescribedTypes
  <2>2. QED
    BY <1>1, <1>5, <2>1 DEF Stages, Answers, End
<1>6. QED
  BY <1>2, <1>3, <1>4, <1>5 DEF Handle

LEMMA SessionTypes ==
  ASSUME HallsTypeOK, HallsNext
  PROVE  process' \in Stages /\ alarm' \in 0 .. Timeout /\ answer' \in Answers
<1>1. alarm \in 0 .. Timeout /\ Timeout \in Nat \ {0} /\ answer \in Answers
      /\ process \in Stages
  BY MazeAssumption, Zenon DEF HallsTypeOK, Answers, Stages
<1>2. CASE ReceiveBody
  BY <1>2, HandleTypes DEF ReceiveBody
<1>3. CASE Finish
  BY <1>1, <1>3 DEF Finish, Answers, Stages
<1>4. CASE \/ Accepted \/ ReceiveHeader \/ ReceiveEnd \/ Answer \/ Second
  BY <1>1, <1>4 DEF Accepted, ReceiveHeader, ReceiveEnd, Answer, Second, End,
     ReceiveNext, Undefined, Stages
<1>5. CASE \/ \E d \in Directions : Carve(d)
           \/ Backtrack
           \/ \E t \in {"handshake", "maze", "description", "disconnect", "reset"} :
                SendPiece(t)
           \/ StopReading \/ Leave
  BY <1>1, <1>5 DEF Carve, Backtrack, SendPiece, StopReading, Leave, session
<1>6. QED
  BY <1>2, <1>3, <1>4, <1>5 DEF HallsNext

(* Generate starts a tree of one room.                                     *)
LEMMA FirstRoom == Tree({}, {Origin})
<1>1. IsFiniteSet({}) /\ Cardinality({}) = 0
  BY FS_EmptySet
<1>2. IsFiniteSet({Origin}) /\ Cardinality({Origin}) = 1
  BY FS_Singleton
<1>3. QED
  BY <1>1, <1>2 DEF Tree, Symmetric

(* Carve adds a leaf to it.                                                *)
LEMMA NewRoom ==
  ASSUME NEW gaps \in SUBSET AllWalls, NEW rooms \in SUBSET Rooms, Tree(gaps, rooms),
         NEW room \in rooms, NEW d \in Directions,
         Beyond(room, d) \in Rooms \ rooms
  PROVE  Tree(gaps \union {<<room, d>>, <<Beyond(room, d), Opposite[d]>>},
              rooms \union {Beyond(room, d)})
<1> DEFINE next == Beyond(room, d)
           there == <<room, d>>
           back == <<next, Opposite[d]>>
           gaps2 == gaps \union {there, back}
           rooms2 == rooms \union {next}
<1>1. /\ Opposite[d] \in Directions /\ Opposite[Opposite[d]] = d
      /\ Beyond(next, Opposite[d]) = room /\ next # room
  BY WayBack
<1>2. there # back /\ there \notin gaps /\ back \notin gaps
  <2>1. back \notin gaps
    BY DEF Tree
  <2>2. there \notin gaps
    BY <2>1 DEF Tree, Symmetric
  <2>3. QED
    BY <1>1, <2>1, <2>2
<1>3. IsFiniteSet(gaps2) /\ Cardinality(gaps2) = Cardinality(gaps) + 2
  <2> HIDE DEF there, back
  <2>1. IsFiniteSet(gaps \union {there})
        /\ Cardinality(gaps \union {there}) = Cardinality(gaps) + 1
    BY <1>2, FS_AddElement DEF Tree
  <2>2. gaps2 = (gaps \union {there}) \union {back} /\ back \notin gaps \union {there}
    BY <1>2
  <2>3. Cardinality(gaps) \in Nat
    BY FS_CardinalityType DEF Tree
  <2>4. QED
    BY <2>1, <2>2, <2>3, FS_AddElement
<1>4. IsFiniteSet(rooms2) /\ Cardinality(rooms2) = Cardinality(rooms) + 1
  BY FS_AddElement DEF Tree
<1>5. Cardinality(gaps2) = 2 * (Cardinality(rooms2) - 1)
  <2>1. Cardinality(gaps) = 2 * (Cardinality(rooms) - 1)
    BY DEF Tree
  <2>2. Cardinality(rooms) \in Nat
    BY FS_CardinalityType DEF Tree
  <2> HIDE DEF gaps2, rooms2
  <2>3. QED
    BY <1>3, <1>4, <2>1, <2>2
<1>6. Symmetric(gaps2)
  BY <1>1 DEF Tree, Symmetric
<1>7. \A gap \in gaps2 : gap[1] \in rooms2
  BY DEF Tree
<1>8. ASSUME NEW S \in SUBSET Rooms, Origin \in S, Neighbours(gaps2, S) \subseteq S
      PROVE  rooms2 \subseteq S
  <2>1. Neighbours(gaps, S) \subseteq Neighbours(gaps2, S)
    BY DEF Neighbours
  <2>2. rooms \subseteq S
    BY <1>8, <2>1 DEF Tree
  <2>3. next \in Neighbours(gaps2, S)
    <3>1. there \in gaps2 /\ there[1] \in S /\ Beyond(there[1], there[2]) = next
      BY <2>2
    <3>2. QED
      BY <3>1 DEF Neighbours
  <2>4. QED
    BY <1>8, <2>2, <2>3
<1>9. QED
  BY <1>3, <1>4, <1>5, <1>6, <1>7, <1>8 DEF Tree

(* No gap of a tree of rooms leads out: it would be there from outside.    *)
LEMMA NoOuterGap ==
  ASSUME NEW gaps \in SUBSET AllWalls, Symmetric(gaps)
  PROVE  gaps \intersect OuterWalls = {}
BY DEF Symmetric, OuterWalls, AllWalls, is_valid_move

(* A tree of all rooms is a perfect maze.                                  *)
LEMMA TreeIsPerfect ==
  ASSUME NEW gaps, Tree(gaps, Rooms)
  PROVE  Symmetric(gaps) /\ Connected(gaps) /\ Cardinality(gaps) = 2 * (Cardinality(Rooms) - 1)
BY DEF Tree, Connected, Origin

LEMMA GenerateStarts == Generate => MazeTypes' /\ Growing'
<1> SUFFICES ASSUME Generate PROVE MazeTypes' /\ Growing'
  OBVIOUS
<1>1. walls' = AllWalls /\ path' = <<Origin>> /\ visited' = {Origin}
  BY DEF Generate, Origin
<1>2. MazeTypes'
  BY <1>1, OriginIsARoom DEF MazeTypes
<1>3. Gaps' = {}
  BY <1>1 DEF Gaps
<1>4. Len(path') = 1 /\ path'[1] = Origin
  BY <1>1
<1>5. OnPath(Origin)'
  BY <1>4 DEF OnPath
<1>6. QED
  BY <1>1, <1>2, <1>3, <1>4, <1>5, FirstRoom DEF Growing

LEMMA CarveGrows ==
  ASSUME MazeTypes, Growing, NEW d \in Directions, Carve(d)
  PROVE  MazeTypes' /\ Growing'
<1> DEFINE room == path[Len(path)]
           next == Beyond(room, d)
<1>1. path \in Seq(Rooms) /\ path # <<>> /\ Len(path) \in Nat \ {0}
  BY EmptySeq DEF Carve, MazeTypes
<1>2. room \in visited /\ room \in Rooms /\ next \in Rooms \ visited
  BY <1>1 DEF Carve, Unvisited, is_valid_move, Last, Growing, MazeTypes
<1>3. /\ walls' = walls \ {<<room, d>>, <<next, Opposite[d]>>}
      /\ visited' = visited \union {next} /\ path' = Append(path, next)
  BY DEF Carve, Last
<1>4. <<room, d>> \in AllWalls /\ <<next, Opposite[d]>> \in AllWalls
  BY <1>2, WayBack DEF AllWalls
<1>5. Gaps' = Gaps \union {<<room, d>>, <<next, Opposite[d]>>}
  BY <1>3, <1>4 DEF Gaps, MazeTypes
<1> HIDE DEF room
<1>6. Tree(Gaps, visited)'
  <2>1. Gaps \in SUBSET AllWalls /\ visited \in SUBSET Rooms /\ Tree(Gaps, visited)
    BY DEF Gaps, MazeTypes, Growing
  <2>2. Tree(Gaps \union {<<room, d>>, <<next, Opposite[d]>>}, visited \union {next})
    BY <1>2, <2>1, NewRoom
  <2>3. QED
    BY <1>3, <1>5, <2>2 DEF Tree, Symmetric, Neighbours, Origin
<1>7. /\ path' \in Seq(Rooms) /\ Len(path') = Len(path) + 1
      /\ \A k \in 1 .. Len(path) : path'[k] = path[k]
      /\ path'[Len(path) + 1] = next
  BY <1>1, <1>2, <1>3, AppendProperties
<1>8. MazeTypes'
  BY <1>2, <1>3, <1>7 DEF MazeTypes
<1>9. \A k \in 1 .. Len(path') : path'[k] \in visited'
  BY <1>1, <1>3, <1>7 DEF Growing
<1>10. ASSUME NEW r \in visited' PROVE OnPath(r)' \/ Unvisited(r)' = {}
  <2>1. CASE r = next
    BY <1>1, <1>7, <2>1 DEF OnPath
  <2>2. CASE r \in visited /\ OnPath(r)
    BY <1>1, <1>7, <2>2 DEF OnPath
  <2>3. CASE r \in visited /\ Unvisited(r) = {}
    BY <1>3, <2>3 DEF Unvisited
  <2>4. QED
    BY <1>3, <1>10, <2>1, <2>2, <2>3 DEF Growing
<1>11. QED
  BY <1>6, <1>8, <1>9, <1>10 DEF Growing

LEMMA BacktrackKeeps ==
  ASSUME MazeTypes, Growing, Backtrack
  PROVE  MazeTypes' /\ Growing'
<1>1. /\ path \in Seq(Rooms) /\ Len(path) \in Nat \ {0}
      /\ Unvisited(path[Len(path)]) = {}
      /\ path' = SubSeq(path, 1, Len(path) - 1) /\ UNCHANGED <<walls, visited>>
  BY EmptySeq DEF Backtrack, MazeTypes, Last, Front
<1>2. /\ path' \in Seq(Rooms) /\ Len(path') = Len(path) - 1
      /\ \A k \in 1 .. Len(path) - 1 : path'[k] = path[k]
  <2> DEFINE n == Len(path) - 1
  <2>1. n \in Nat /\ \A k \in 1 .. n : path[k] \in Rooms
    BY <1>1, ElementOfSeq
  <2> HIDE DEF n
  <2>2. n - 1 + 1 = n /\ (~(1 <= n) => n = 0) /\ \A k \in 1 .. n : 1 + k - 1 = k
    BY <2>1
  <2>3. /\ SubSeq(path, 1, n) \in Seq(Rooms) /\ Len(SubSeq(path, 1, n)) = n
        /\ \A k \in 1 .. n : SubSeq(path, 1, n)[k] = path[k]
    BY <2>1, <2>2, SubSeqProperties
  <2>4. QED
    BY <1>1, <2>3 DEF n
<1>3. MazeTypes'
  BY <1>1, <1>2 DEF MazeTypes
<1>4. Tree(Gaps, visited)'
  BY <1>1 DEF Growing, Gaps, Tree, Symmetric, Neighbours, Origin
<1>5. \A k \in 1 .. Len(path') : path'[k] \in visited'
  BY <1>1, <1>2 DEF Growing
<1>6. ASSUME NEW r \in visited' PROVE OnPath(r)' \/ Unvisited(r)' = {}
  <2>1. Unvisited(r)' = Unvisited(r)
    BY <1>1 DEF Unvisited
  <2>2. CASE Unvisited(r) = {}
    BY <2>1, <2>2
  <2>3. CASE OnPath(r) /\ Unvisited(r) # {}
    <3>1. PICK k \in 1 .. Len(path) : path[k] = r
      BY <2>3 DEF OnPath
    <3>2. k # Len(path)
      <4>1. CASE k = Len(path)
        <5>1. Unvisited(r) = Unvisited(path[Len(path)])
          BY <3>1, <4>1
        <5>2. QED
          BY <1>1, <2>3, <5>1
      <4>2. QED
        BY <4>1
    <3>3. k \in 1 .. Len(path) - 1
      BY <1>1, <3>1, <3>2
    <3>4. QED
      BY <1>1, <1>2, <3>1, <3>3 DEF OnPath
  <2>4. QED
    BY <1>1, <1>6, <2>2, <2>3 DEF Growing
<1>7. QED
  BY <1>3, <1>4, <1>5, <1>6 DEF Growing

(* When create_maze has returned from the first room, all are marked.      *)
LEMMA FinishedIsAllRooms ==
  ASSUME MazeTypes, Growing, path = <<>>
  PROVE  visited = Rooms
<1>1. \A room \in visited : Unvisited(room) = {}
  BY EmptySeq DEF Growing, OnPath
<1>2. \A room \in visited, d \in Directions :
        Beyond(room, d) \in Rooms => Beyond(room, d) \in visited
  BY <1>1 DEF Unvisited, is_valid_move
<1>3. Origin \in visited /\ visited \in SUBSET Rooms
  BY DEF Growing, Tree, MazeTypes
<1>4. QED
  BY <1>2, <1>3, AllRooms

LEMMA FinishCompletes ==
  ASSUME MazeTypes, Growing, Finish
  PROVE  MazeTypes' /\ Tree(Gaps, Rooms)'
<1>1. walls' = walls \union OuterWalls /\ UNCHANGED <<path, visited>> /\ path = <<>>
  BY DEF Finish
<1>2. MazeTypes'
  BY <1>1 DEF MazeTypes, OuterWalls
<1>3. visited = Rooms
  BY <1>1, FinishedIsAllRooms
<1>4. Gaps \intersect OuterWalls = {}
  BY NoOuterGap DEF Growing, Tree, Gaps
<1>5. Gaps' = Gaps
  BY <1>1, <1>4 DEF Gaps
<1>6. QED
  BY <1>2, <1>3, <1>5 DEF Growing, Tree, Symmetric, Neighbours, Origin

LEMMA MazeInit == HallsInit => MazeInv
BY MazeAssumption, EmptySeq DEF HallsInit, MazeInv, HallsTypeOK

(* The steps that leave the maze alone start no generation, and send a     *)
(* maze only if one was sent.                                              *)
LEMMA MazeUntouched ==
  ASSUME MazeInv, HallsNext, UNCHANGED maze,
         process' = "generating" => process = "generating",
         process' = "sending" /\ answer' = <<"maze">> => process = "sending" /\ answer = <<"maze">>
  PROVE  MazeInv'
<1>1. walls' = walls /\ path' = path /\ visited' = visited
  BY DEF maze
<1>2. HallsTypeOK'
  BY <1>1, SessionTypes DEF MazeInv, HallsTypeOK, Answers, Stages
<1>3. /\ Growing => Growing'
      /\ Tree(Gaps, Rooms) => Tree(Gaps, Rooms)'
  BY <1>1 DEF Growing, Gaps, OnPath, Unvisited, Tree, Symmetric, Neighbours, Origin
<1>4. QED
  BY <1>2, <1>3 DEF MazeInv

LEMMA MazeStep == MazeInv /\ [HallsNext]_hallsVars => MazeInv'
<1>1. MazeInv => MazeTypes /\ HallsTypeOK
  BY DEF MazeInv, HallsTypeOK, MazeTypes
<1>2. ASSUME MazeInv, UNCHANGED hallsVars PROVE MazeInv'
  <2>1. /\ walls' = walls /\ path' = path /\ visited' = visited
        /\ process' = process /\ alarm' = alarm /\ answer' = answer
    BY <1>2 DEF hallsVars, session, maze
  <2>2. HallsTypeOK'
    BY <1>2, <2>1 DEF MazeInv, HallsTypeOK
  <2>3. /\ Growing => Growing'
        /\ Tree(Gaps, Rooms) => Tree(Gaps, Rooms)'
    BY <2>1 DEF Growing, Gaps, OnPath, Unvisited, Tree, Symmetric, Neighbours, Origin
  <2>4. QED
    BY <1>2, <2>1, <2>2, <2>3 DEF MazeInv
<1>3. ASSUME MazeInv, HallsNext PROVE MazeInv'
  <2>1. ASSUME MazeTypes'
        PROVE  HallsTypeOK'
    BY <1>1, <1>3, <2>1, SessionTypes DEF HallsTypeOK, Answers, Stages, MazeTypes
  <2>2. ASSUME ReceiveBody PROVE MazeInv'
    <3>1. CASE Generate /\ process' = "generating"
      BY <2>1, <3>1, GenerateStarts DEF MazeInv
    <3>2. CASE /\ UNCHANGED maze
               /\ process' = "sending" => answer' # <<"maze">>
               /\ process' # "generating"
      BY <1>3, <3>2, MazeUntouched
    <3>3. QED
      BY <1>1, <1>3, <2>2, <3>1, <3>2, HandleTypes DEF ReceiveBody
  <2>4. ASSUME NEW d \in Directions, Carve(d) PROVE MazeInv'
    <3>1. process = "generating" /\ process' = "generating"
      BY <2>4 DEF Carve, session
    <3>2. Growing
      BY <1>3, <3>1 DEF MazeInv
    <3>3. QED
      BY <1>1, <1>3, <2>1, <2>4, <3>1, <3>2, CarveGrows DEF MazeInv
  <2>5. ASSUME Backtrack PROVE MazeInv'
    <3>1. process = "generating" /\ process' = "generating"
      BY <2>5 DEF Backtrack, session
    <3>2. Growing
      BY <1>3, <3>1 DEF MazeInv
    <3>3. QED
      BY <1>1, <1>3, <2>1, <2>5, <3>1, <3>2, BacktrackKeeps DEF MazeInv
  <2>6. ASSUME Finish PROVE MazeInv'
    <3>1. process = "generating" /\ process' = "sending"
      BY <2>6 DEF Finish
    <3>2. Growing
      BY <1>3, <3>1 DEF MazeInv
    <3>3. QED
      BY <1>1, <1>3, <2>1, <2>6, <3>1, <3>2, FinishCompletes DEF MazeInv
  <2>7. ASSUME \/ Accepted \/ ReceiveHeader \/ ReceiveEnd \/ Answer \/ Second
               \/ \E t \in {"handshake", "maze", "description", "disconnect", "reset"} :
                    SendPiece(t)
               \/ StopReading \/ Leave
        PROVE  MazeInv'
    <3>1. /\ UNCHANGED <<maze, answer>>
          /\ process' \in {process, "header", "body", "bare", "ended", "lost"}
      BY <2>7 DEF Accepted, ReceiveHeader, ReceiveEnd, Answer, Second, SendPiece,
         StopReading, Leave, End, Undefined, ReceiveNext, session
    <3>2. QED
      BY <1>3, <3>1, MazeUntouched
  <2>8. QED
    BY <1>3, <2>2, <2>4, <2>5, <2>6, <2>7 DEF HallsNext
<1>4. QED
  BY <1>2, <1>3

-----------------------------------------------------------------------------
(* The three services as one specification *)

ServiceInv == MazeInv /\ PromiseInv /\ PageInv

LEMMA ServiceStart == Start => ServiceInv
BY MazeInit, PromiseInit, PageInit DEF Start, ServiceInv

(* A step is one of each service, or leaves its variables alone.           *)
LEMMA StepOfEach ==
  [Run]_serviceVars =>
    [HallsNext]_hallsVars /\ [ThunderNext]_thunderVars /\ [Page!TttNext]_tttVars
BY DEF Run, serviceVars

LEMMA ServiceStep == ServiceInv /\ [Run]_serviceVars => ServiceInv'
BY StepOfEach, MazeStep, PromiseStep, PageStep DEF ServiceInv

LEMMA ServiceInvariant == ServiceSpec => []ServiceInv
BY ServiceStart, ServiceStep, PTL DEF ServiceSpec

(* The variables of every service keep values of the code's types.         *)
THEOREM TypeCorrect == ServiceSpec => []ServiceTypeOK
<1>1. ServiceInv => ServiceTypeOK
  BY DEF ServiceInv, MazeInv, PromiseInv, PageInv, ServiceTypeOK
<1>2. QED
  BY <1>1, ServiceInvariant, PTL

(* A maze of any size, be it the first of its session or a later one, is   *)
(* sent only when generate_maze has made it perfect: its gaps are there    *)
(* from both sides, none leads out, all rooms can be reached, and no gap   *)
(* is too many.                                                            *)
THEOREM MazesArePerfect == ServiceSpec => []MazeIsPerfect
<1>1. ServiceInv => MazeIsPerfect
  BY TreeIsPerfect DEF ServiceInv, MazeInv, MazeIsPerfect, Gaps
<1>2. QED
  BY <1>1, ServiceInvariant, PTL

(* update_board refuses the move of no player of the page who waited for   *)
(* the answer to the one before, and got it: the dialogs that such a       *)
(* player sees are those of the game's end.                                *)
THEOREM WaitingPlayerIsNotRefused == ServiceSpec => []RefusedOnlyWithCause
<1>1. ServiceInv => RefusedOnlyWithCause
  BY DEF ServiceInv, PageInv, Patient, RefusedOnlyWithCause, Page!RefusedOnlyWithCause
<1>2. QED
  BY <1>1, ServiceInvariant, PTL
-----------------------------------------------------------------------------
(* The computer of tcl-tac-toe: as long as no game is over, no line of a   *)
(* board that it signed is complete, and the human threatens to complete   *)
(* none.  So no click of the page can win, and all the threats that it     *)
(* makes are answered at once.                                             *)
Lines == DOMAIN Page!win
Complete(board, mark) == \E k \in Lines : \A cell \in Page!win[k] : board[cell] = mark
Threatened(board) == \E k \in Lines : Page!Missing(board, "X", Page!win[k]) # {}
Guarded(board) == ~Complete(board, "X") /\ ~Complete(board, "O") /\ ~Threatened(board)

(* Every request is a click on the board that it brings.                   *)
Clicked(r) ==
  \E cell \in Page!Cells : r.prev[cell] = "-" /\ r.new = [r.prev EXCEPT ![cell] = "X"]

Ended == \E j \in DOMAIN dialogs : Page!Final(dialogs[j])

GameInv ==
  client = "page" =>
    /\ Page!Unbeaten
    /\ \A r \in requests : Clicked(r)
    /\ Ended \/ (Guarded(signature) /\ \A r \in requests : Guarded(r.signature))

LEMMA LinesHaveCells ==
  \A k \in Lines : /\ Page!win[k] \subseteq Page!Cells /\ Page!win[k] # {}
                   /\ \A x : \E other \in Page!win[k] : other # x
<1> DEFINE w == Page!win
<1>1. Lines = 1..8
  BY DEF Lines, Page!win
<1>2. /\ w[1] = {1, 2, 3} /\ w[2] = {4, 5, 6} /\ w[3] = {7, 8, 9} /\ w[4] = {1, 4, 7}
      /\ w[5] = {2, 5, 8} /\ w[6] = {3, 6, 9} /\ w[7] = {1, 5, 9} /\ w[8] = {3, 5, 7}
  BY DEF Page!win
<1> HIDE DEF w
<1>3. ASSUME NEW k \in 1..8 
      PROVE  w[k] \subseteq Page!Cells /\ w[k] # {} /\ \A x : \E other \in w[k] : other # x
  <2>1. k = 1 \/ k = 2 \/ k = 3 \/ k = 4 \/ k = 5 \/ k = 6 \/ k = 7 \/ k = 8
    OBVIOUS
  <2> QED BY <1>2, <2>1 DEF Page!Cells
<1> QED BY <1>1, <1>3 DEF w

LEMMA LeastOf == ASSUME NEW S, S \subseteq Nat, S # {} PROVE Page!Min(S) \in S
<1>1. PICK n \in S : \A m \in S : n <= m
  BY LeastNumber
<1> QED BY <1>1 DEF Page!Min

(* check_win names the owner of a complete line, if there is one.          *)
LEMMA WinIsKnown ==
  ASSUME NEW board, ~Complete(board, "X")
  PROVE  /\ Page!check_win(board) \in {"O", "tie", "-"}
         /\ Complete(board, "O") => Page!check_win(board) = "O"
<1> DEFINE complete == {k \in Lines : \E mark \in {"X", "O"} :
                          \A cell \in Page!win[k] : board[cell] = mark}
           first == Page!Min(complete)  cell == Page!Min(Page!win[first])
<1>1. Page!check_win(board) = IF complete # {} THEN board[cell]
                              ELSE IF Page!Full(board) THEN "tie" ELSE "-"
  BY DEF Page!check_win, Lines
<1>2. \A k \in complete : \A c \in Page!win[k] : board[c] = "O"
  BY DEF Complete
<1>3. complete # {} => board[cell] = "O"
  <2> SUFFICES ASSUME complete # {} PROVE board[cell] = "O"
    OBVIOUS
  <2>1. Lines \subseteq Nat
    BY DEF Lines, Page!win
  <2>2. first \in complete
    <3>1. complete \subseteq Nat
      BY <2>1
    <3> HIDE DEF complete
    <3> QED BY <3>1, LeastOf
  <2>3. Page!win[first] # {} /\ Page!win[first] \subseteq Nat
    <3>1. first \in Lines
      BY <2>2
    <3>2. Page!Cells \subseteq Nat
      BY DEF Page!Cells
    <3> HIDE DEF first, complete
    <3>3. Page!win[first] \subseteq Page!Cells /\ Page!win[first] # {}
      BY <3>1, LinesHaveCells
    <3> QED BY <3>2, <3>3
  <2>4. cell \in Page!win[first]
    <3> HIDE DEF first
    <3> QED BY <2>3, LeastOf
  <2> HIDE DEF complete, first, cell
  <2> QED BY <1>2, <2>2, <2>4
<1>4. Complete(board, "O") => complete # {}
  BY DEF Complete
<1> HIDE DEF complete, cell
<1> QED BY <1>1, <1>3, <1>4

(* The answer blocks every threat, or wins.                                *)
LEMMA AnswerIsGuarded ==
  ASSUME NEW board \in Boards, ~Complete(board, "X")
  PROVE  LET answered == Page!computer_make_move(board)
         IN ~Complete(answered, "X") /\ (~Complete(answered, "O") => Guarded(answered))
<1> DEFINE answered == Page!computer_make_move(board)
           winning == Page!Winning(board)  threats == Page!Threats(board)
           played == CASE winning # {} -> winning
                       [] winning = {} /\ threats # {} -> threats
                       [] OTHER -> Page!FirstFree(board)
<1>1. answered = [c \in Page!Cells |-> IF c \in played THEN "O" ELSE board[c]]
  BY DEF Page!computer_make_move
<1> HIDE DEF played
<1>2. \A c \in Page!Cells : answered[c] = IF c \in played THEN "O" ELSE board[c]
  BY <1>1
<1> HIDE DEF answered
<1>3. ~Complete(answered, "X")
  BY <1>2, LinesHaveCells DEF Complete
<1>4. CASE winning # {}
  <2>1. played = winning
    BY <1>4 DEF played
  <2>2. PICK k \in Lines : winning = Page!Missing(board, "O", Page!win[k])
    <3> DEFINE lines == {k \in Lines : Page!Missing(board, "O", Page!win[k]) # {}}
    <3>1. winning = IF lines = {} THEN {} ELSE Page!Missing(board, "O", Page!win[Page!Min(lines)])
      BY DEF Page!Winning, Lines
    <3>2. lines \subseteq Nat
      BY DEF Lines, Page!win
    <3>3. lines # {} => Page!Min(lines) \in lines
      <4> HIDE DEF lines
      <4> QED BY <3>2, LeastOf
    <3> QED BY <1>4, <3>1, <3>3
  <2>3. PICK x \in Page!win[k] : \A other \in Page!win[k] \ {x} : board[other] = "O"
    BY <1>4, <2>2 DEF Page!Missing
  <2>5. \A c \in Page!win[k] : answered[c] = "O"
    <3> TAKE c \in Page!win[k]
    <3>1. c \in Page!Cells
      BY LinesHaveCells
    <3>2. c # x => answered[c] = "O"
      BY <1>2, <2>3, <3>1
    <3>3. x \in played
      <4>1. PICK y \in winning : TRUE
        BY <1>4
      <4>2. y \in Page!win[k] /\ board[y] = "-"
        BY <2>2, <4>1 DEF Page!Missing
      <4>3. y = x
        BY <2>3, <4>2
      <4> QED BY <2>1, <4>1, <4>3
    <3> QED BY <1>2, <3>1, <3>2, <3>3
  <2>6. Complete(answered, "O")
    BY <2>5 DEF Complete
  <2> QED BY <1>3, <2>6 DEF answered
<1>5. CASE winning = {}
  <2>1. threats \subseteq played
    BY <1>5 DEF played
  <2>2. ASSUME NEW k \in Lines, NEW x \in Page!Missing(answered, "X", Page!win[k]) PROVE FALSE
    <3>1. /\ x \in Page!win[k] /\ answered[x] = "-"
          /\ \A other \in Page!win[k] \ {x} : answered[other] = "X"
      BY <2>2 DEF Page!Missing
    <3>2. /\ x \notin played /\ board[x] = "-"
          /\ \A other \in Page!win[k] \ {x} : board[other] = "X"
      BY <1>2, <3>1, LinesHaveCells
    <3>3. x \in Page!Missing(board, "X", Page!win[k])
      BY <3>1, <3>2 DEF Page!Missing
    <3>4. x \in threats
      BY <3>3 DEF Page!Threats, Lines
    <3> QED BY <2>1, <3>2, <3>4
  <2>3. ~Threatened(answered)
    BY <2>2 DEF Threatened
  <2> QED BY <1>3, <2>3 DEF Guarded, answered
<1> QED BY <1>4, <1>5

(* So does the server's answer to a click on a guarded board.              *)
LEMMA ClickIsAnswered ==
  ASSUME NEW board \in Boards, Guarded(board), NEW cell \in Page!Cells, board[cell] = "-",
         NEW reply, reply = Page!Accepted([board EXCEPT ![cell] = "X"])
  PROVE  \/ reply.message \in {"Haha", "Cat's game"}
         \/ reply.message = Page!NoMessage /\ Guarded(reply.signature)
<1> DEFINE new == [board EXCEPT ![cell] = "X"]
           answered == IF Page!check_win(new) = "-" THEN Page!computer_make_move(new) ELSE new
           winner == Page!check_win(answered)
<1>1. new \in Boards /\ \A c \in Page!Cells : new[c] = IF c = cell THEN "X" ELSE board[c]
  BY DEF Boards, Page!Marks
<1>2. reply.signature = answered /\ reply.message = Page!Message(winner)
  BY DEF Page!Accepted, Page!Reply
<1>3. ~Complete(new, "X")
  <2> SUFFICES ASSUME NEW k \in Lines, \A c \in Page!win[k] : new[c] = "X" PROVE FALSE
    BY DEF Complete
  <2>1. \A c \in Page!win[k] \ {cell} : board[c] = "X"
    BY <1>1, LinesHaveCells
  <2>2. cell \in Page!win[k] => Page!Missing(board, "X", Page!win[k]) # {}
    BY <2>1 DEF Page!Missing
  <2> QED BY <2>1, <2>2 DEF Guarded, Complete, Threatened
<1>4. ~Complete(new, "O")
  BY <1>1, LinesHaveCells DEF Guarded, Complete
<1>5. /\ ~Complete(answered, "X")
      /\ Page!check_win(new) = "-" /\ ~Complete(answered, "O") => Guarded(answered)
      /\ Page!check_win(new) # "-" => answered = new
  BY <1>1, <1>3, AnswerIsGuarded
<1> HIDE DEF new
<1>6. winner \in {"O", "tie", "-"} /\ (Complete(answered, "O") => winner = "O")
  BY <1>5, WinIsKnown
<1>7. winner = "-" => Guarded(answered)
  BY <1>5, <1>6
<1> HIDE DEF winner, answered
<1>8. CASE winner = "-"
  <2>1. reply.message = Page!NoMessage
    BY <1>2, <1>8 DEF Page!Message
  <2> QED BY <1>2, <1>7, <1>8, <2>1
<1>9. CASE winner = "O" \/ winner = "tie"
  BY <1>2, <1>9 DEF Page!Message
<1> QED BY <1>6, <1>8, <1>9

LEMMA LoadedIsGuarded == Guarded(Page!Empty)
<1>1. \A c \in Page!Cells : Page!Empty[c] = "-"
  BY DEF Page!Empty
<1>2. ~Complete(Page!Empty, "X") /\ ~Complete(Page!Empty, "O")
  BY <1>1, LinesHaveCells DEF Complete
<1>3. ~Threatened(Page!Empty)
  <2> SUFFICES ASSUME NEW k \in Lines, NEW x \in Page!Missing(Page!Empty, "X", Page!win[k])
               PROVE  FALSE
    BY DEF Threatened
  <2>1. /\ x \in Page!win[k]
        /\ \A other \in Page!win[k] : other # x => Page!Empty[other] = "X"
    BY DEF Page!Missing
  <2>2. \A other \in Page!win[k] : other = x
    BY <1>1, <2>1, LinesHaveCells
  <2>3. \E other \in Page!win[k] : other # x
    BY LinesHaveCells
  <2> QED BY <2>2, <2>3
<1> QED BY <1>2, <1>3 DEF Guarded

LEMMA GameStart == Page!TttInit => GameInv
BY LoadedIsGuarded DEF Page!TttInit, GameInv, Page!Unbeaten

(* One more message, or the first one shown.                               *)
LEMMA MessageAppended ==
  ASSUME dialogs \in Seq(Messages), NEW message \in Messages,
         dialogs' = Append(dialogs, message)
  PROVE  /\ Ended \/ Page!Final(message) => Ended'
         /\ Page!Unbeaten /\ (message = "Impossible" => Ended) => Page!Unbeaten'
<1>1. /\ Len(dialogs) \in Nat /\ DOMAIN dialogs = 1 .. Len(dialogs)
      /\ DOMAIN dialogs' = 1 .. (Len(dialogs) + 1)
      /\ \A k \in 1 .. Len(dialogs) : dialogs'[k] = dialogs[k]
      /\ dialogs'[Len(dialogs) + 1] = message
  BY AppendProperties
<1>2. \A k \in DOMAIN dialogs : k \in DOMAIN dialogs' /\ dialogs'[k] = dialogs[k]
  BY <1>1
<1>3. Ended \/ Page!Final(message) => Ended'
  <2>1. ASSUME Page!Final(message) PROVE Ended'
    <3>1. Len(dialogs) + 1 \in DOMAIN dialogs'
      BY <1>1
    <3>2. Page!Final(dialogs'[Len(dialogs) + 1])
      BY <1>1, <2>1
    <3>3. QED
      BY <3>1, <3>2 DEF Ended, Page!Final
  <2>2. ASSUME Ended PROVE Ended'
    BY <1>2, <2>2 DEF Ended, Page!Final
  <2>3. QED
    BY <2>1, <2>2
<1>4. ASSUME Page!Unbeaten, message = "Impossible" => Ended PROVE Page!Unbeaten'
  <2> SUFFICES ASSUME NEW k \in 1 .. (Len(dialogs) + 1), dialogs'[k] = "Impossible"
               PROVE  \E j \in 1 .. k - 1 : Page!Final(dialogs'[j])
    BY <1>1 DEF Page!Unbeaten, Page!Final
  <2>1. PICK j \in 1 .. Len(dialogs) : j < k /\ Page!Final(dialogs[j])
    <3>1. CASE k = Len(dialogs) + 1
      <4>1. PICK j \in 1 .. Len(dialogs) : Page!Final(dialogs[j])
        BY <1>1, <1>4, <3>1 DEF Ended
      <4>2. QED
        BY <1>1, <3>1, <4>1
    <3>2. CASE k # Len(dialogs) + 1
      <4>1. k \in 1 .. Len(dialogs) /\ dialogs[k] = "Impossible"
        BY <1>1, <3>2
      <4>2. PICK j \in 1 .. k - 1 : Page!Final(dialogs[j])
        BY <1>1, <1>4, <4>1 DEF Page!Unbeaten
      <4>3. QED
        BY <1>1, <4>1, <4>2
    <3>3. QED
      BY <3>1, <3>2
  <2>2. j \in 1 .. k - 1 /\ dialogs'[j] = dialogs[j]
    BY <1>1, <2>1
  <2>3. QED
    BY <2>1, <2>2 DEF Page!Final
<1>5. QED
  BY <1>3, <1>4

LEMMA MessageShown ==
  ASSUME dialogs \in Seq(Messages), dialogs # <<>>, ~Page!Final(Head(dialogs)),
         dialogs' = Tail(dialogs)
  PROVE  /\ Ended => Ended'
         /\ Page!Unbeaten => Page!Unbeaten'
<1>1. /\ Len(dialogs) \in Nat \ {0} /\ DOMAIN dialogs = 1 .. Len(dialogs)
      /\ DOMAIN dialogs' = 1 .. (Len(dialogs) - 1)
      /\ \A k \in 1 .. (Len(dialogs) - 1) : dialogs'[k] = dialogs[k + 1]
      /\ ~Page!Final(dialogs[1])
  OBVIOUS
<1>2. Ended => Ended'
  <2>1. ASSUME NEW j \in 1 .. Len(dialogs), Page!Final(dialogs[j])
        PROVE  j - 1 \in 1 .. (Len(dialogs) - 1) /\ dialogs'[j - 1] = dialogs[j]
    <3>1. j # 1
      BY <1>1, <2>1
    <3>2. QED
      BY <1>1, <3>1
  <2>2. QED
    BY <1>1, <2>1 DEF Ended, Page!Final
<1>3. ASSUME Page!Unbeaten PROVE Page!Unbeaten'
  <2> SUFFICES ASSUME NEW k \in 1 .. (Len(dialogs) - 1), dialogs'[k] = "Impossible"
               PROVE  \E j \in 1 .. k - 1 : Page!Final(dialogs'[j])
    BY <1>1 DEF Page!Unbeaten, Page!Final
  <2>1. PICK j \in 1 .. (k + 1) - 1 : Page!Final(dialogs[j])
    BY <1>1, <1>3 DEF Page!Unbeaten
  <2>2. j # 1
    BY <1>1, <2>1
  <2>3. j - 1 \in 1 .. k - 1 /\ dialogs'[j - 1] = dialogs[j]
    BY <1>1, <2>2
  <2>4. QED
    BY <2>1, <2>3 DEF Page!Final
<1>4. QED
  BY <1>2, <1>3

LEMMA GameStep == PageInv /\ GameInv /\ [Page!TttNext]_tttVars => GameInv'
<1> SUFFICES ASSUME PageInv, GameInv, [Page!TttNext]_tttVars, client' = "page"
             PROVE  GameInv'
  BY DEF GameInv
<1>0. client = "page" /\ dialogs \in Seq(Messages)
  <2>1. UNCHANGED client
    BY DEF Page!TttNext, Page!Click, Page!PostByScript, Page!Post, Page!Answered,
       Page!Failed, Page!Alert, Page!Load, tttVars
  <2> QED BY <2>1 DEF PageInv, Page!TttTypeOK, Messages, FinalMessages
<1>1. ASSUME NEW cell \in Page!Cells, Page!Click(cell) PROVE GameInv'
  <2> DEFINE new == [prev |-> gameBoard, new |-> gameBoard', signature |-> signature]
  <2>1. /\ gameBoard[cell] = "-" /\ gameBoard' = [gameBoard EXCEPT ![cell] = "X"]
        /\ requests' = requests \union {new}
        /\ UNCHANGED <<signature, dialogs>>
    BY <1>1 DEF Page!Click, Page!Post
  <2>2. Clicked(new) /\ new.signature = signature
    BY <2>1 DEF Clicked
  <2>3. (Ended <=> Ended') /\ (Page!Unbeaten <=> Page!Unbeaten')
    BY <2>1 DEF Ended, Page!Unbeaten, Page!Final
  <2> HIDE DEF new
  <2> QED BY <1>0, <2>1, <2>2, <2>3 DEF GameInv, Clicked
<1>2. ASSUME NEW r \in requests, Page!Answered(r) PROVE GameInv'
  <2> DEFINE reply == Page!update_board(r)
  <2>1. /\ signature' = reply.signature
        /\ dialogs' = IF reply.message = Page!NoMessage THEN dialogs
                      ELSE Append(dialogs, reply.message)
        /\ requests' = requests \ {r}
    BY <1>2 DEF Page!Answered
  <2>2. r.prev \in Boards /\ r \in [prev : Boards, new : Boards, signature : Boards]
    BY DEF PageInv
  <2>3. PICK cell \in Page!Cells : r.prev[cell] = "-" /\ r.new = [r.prev EXCEPT ![cell] = "X"]
    BY <1>0 DEF GameInv, Clicked
  <2>4. Signed(r) => reply = Page!Accepted(r.new)
    BY DEF Signed, Page!update_board
  <2>5. ~Signed(r) => reply.signature = r.signature /\ reply.message \in {"Invalid move", "No hacking allowed"}
    BY DEF Signed, Page!update_board, Page!Reply
  <2>6. reply.message \in Messages \union {Page!NoMessage}
    BY <2>2, Replies
  <2> HIDE DEF reply
  <2>7. ~Ended => \/ reply.message \in {"Haha", "Cat's game"}
                  \/ reply.message \notin FinalMessages /\ Guarded(reply.signature)
    <3> SUFFICES ASSUME ~Ended
                 PROVE  \/ reply.message \in {"Haha", "Cat's game"}
                        \/ reply.message \notin FinalMessages /\ Guarded(reply.signature)
      OBVIOUS
    <3>1. Guarded(r.signature)
      BY <1>0 DEF GameInv
    <3>2. CASE Signed(r)
      <4>1. Guarded(r.prev)
        BY <3>1, <3>2 DEF Signed
      <4>2. \/ reply.message \in {"Haha", "Cat's game"}
            \/ reply.message = Page!NoMessage /\ Guarded(reply.signature)
        BY <2>2, <2>3, <2>4, <3>2, <4>1, ClickIsAnswered
      <4> QED BY <4>2 DEF Page!NoMessage, FinalMessages
    <3>3. CASE ~Signed(r)
      BY <2>5, <3>1, <3>3 DEF FinalMessages
    <3> QED BY <3>2, <3>3
  <2>8. Page!Unbeaten' /\ (Ended' \/ (~Ended /\ Guarded(reply.signature)))
    <3>1. CASE reply.message = Page!NoMessage
      <4>1. dialogs' = dialogs
        BY <2>1, <3>1
      <4>2. (Ended <=> Ended') /\ (Page!Unbeaten <=> Page!Unbeaten')
        BY <4>1 DEF Ended, Page!Unbeaten, Page!Final
      <4> QED BY <1>0, <2>7, <3>1, <4>2 DEF GameInv, Page!NoMessage
    <3>2. CASE reply.message # Page!NoMessage
      <4>1. reply.message \in Messages /\ dialogs' = Append(dialogs, reply.message)
        BY <2>1, <2>6, <3>2
      <4>2. /\ Ended \/ Page!Final(reply.message) => Ended'
            /\ Page!Unbeaten /\ (reply.message = "Impossible" => Ended) => Page!Unbeaten'
        BY <1>0, <4>1, MessageAppended
      <4>3. reply.message = "Impossible" => Ended
        BY <2>7 DEF FinalMessages
      <4>4. reply.message \in {"Haha", "Cat's game"} => Page!Final(reply.message)
        BY DEF Page!Final
      <4> QED BY <1>0, <2>7, <4>2, <4>3, <4>4 DEF GameInv
    <3> QED BY <3>1, <3>2
  <2> QED BY <1>0, <2>1, <2>8 DEF GameInv, Clicked
<1>3. ASSUME NEW r \in requests, Page!Failed(r) PROVE GameInv'
  <2>1. requests' = requests \ {r} /\ UNCHANGED <<signature, dialogs>>
    BY <1>3 DEF Page!Failed
  <2>2. (Ended <=> Ended') /\ (Page!Unbeaten <=> Page!Unbeaten')
    BY <2>1 DEF Ended, Page!Unbeaten, Page!Final
  <2> QED BY <1>0, <2>1, <2>2 DEF GameInv, Clicked
<1>4. CASE Page!Load
  BY <1>4, LoadedIsGuarded DEF Page!Load, GameInv, Page!Unbeaten
<1>5. CASE /\ dialogs # <<>> /\ ~Page!Final(Head(dialogs))
           /\ dialogs' = Tail(dialogs) /\ UNCHANGED <<signature, requests>>
  BY <1>0, <1>5, MessageShown DEF GameInv, Clicked
<1>6. CASE UNCHANGED tttVars
  <2>1. UNCHANGED <<signature, requests, dialogs>>
    BY <1>6 DEF tttVars
  <2>2. (Ended <=> Ended') /\ (Page!Unbeaten <=> Page!Unbeaten')
    BY <2>1 DEF Ended, Page!Unbeaten, Page!Final
  <2> QED BY <1>0, <2>1, <2>2 DEF GameInv, Clicked
<1> QED BY <1>0, <1>1, <1>2, <1>3, <1>4, <1>5, <1>6
        DEF Page!TttNext, Page!Alert, Page!PostByScript

(* However the human clicks on the page, also before the answer to a click *)
(* is there, and also when a request fails, the first game to end is not   *)
(* one that the computer loses: a win is only ever told after the message  *)
(* of another end (computer_make_move, check_win and update_board of       *)
(* app.tcl).                                                               *)
THEOREM ComputerIsUnbeaten == ServiceSpec => []ComputerNeverLoses
<1>1. Start => GameInv
  BY GameStart DEF Start
<1>2. ServiceInv /\ GameInv /\ [Run]_serviceVars => GameInv'
  BY StepOfEach, GameStep DEF ServiceInv
<1>3. GameInv => ComputerNeverLoses
  BY DEF GameInv, ComputerNeverLoses, Page!ComputerNeverLoses
<1> QED BY <1>1, <1>2, <1>3, ServiceInvariant, PTL DEF ServiceSpec
=============================================================================
