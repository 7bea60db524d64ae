-------------------------------- MODULE MCBoards --------------------------------
(* The pages of a connection, for TLC: the boards with their questions and dialogs, the
   pages that browse messages, and the message tail.  They share nothing, so a behaviour
   of this instance runs one of them and leaves the others where they start. *)
EXTENDS Naturals

CONSTANTS MaxCalls,                              \* boards
          Sources, Ids, MaxReads,                \* browsing
          Topics, MaxMessages, MaxPolls, Buffer  \* tail

ASSUME BrowseAssumption == Ids \subseteq Nat /\ MaxReads \in Nat
ASSUME TailAssumption == MaxMessages \in Nat /\ MaxPolls \in Nat \ {0} /\ Buffer \in Nat

VARIABLES part,
          page, question, dialog, saving, calls, shown, unsure,
          reader, picked, rows, running, asked, reads, act, held,
          topic, online, tailing, cursor, tailRows, dropped, polls, seen, opened, length, oldest

Board == INSTANCE Boards
Browser == INSTANCE Browse
MessageTail == INSTANCE Tail WITH running <- tailing, rows <- tailRows

boardVars == <<page, question, dialog, saving, calls, shown, unsure>>
browseVars == <<reader, picked, rows, running, asked, reads, act, held>>
tailVars == <<topic, online, tailing, cursor, tailRows, dropped, polls, seen, opened, length,
              oldest>>
vars == <<part, boardVars, browseVars, tailVars>>

(* The parts that rest start in one state. *)
Init ==
    /\ part \in {"boards", "browse", "tail"}
    /\ Board!Init /\ (part # "boards" => page = CHOOSE p \in Board!Pages : TRUE)
    /\ Browser!Init
    /\ part # "browse" => /\ reader = CHOOSE r \in Browser!Readers : TRUE
                          /\ picked = CHOOSE s \in Sources : TRUE
    /\ MessageTail!Init /\ (part # "tail" => topic = CHOOSE t \in Topics : TRUE)

OnlyBoards == part = "boards" /\ UNCHANGED <<part, browseVars, tailVars>>
OnlyBrowse == part = "browse" /\ UNCHANGED <<part, boardVars, tailVars>>
OnlyTail == part = "tail" /\ UNCHANGED <<part, boardVars, browseVars>>

Next ==
    \/ OnlyBoards /\ Board!Next
    \/ OnlyBrowse /\ Browser!Next
    \/ OnlyTail /\ MessageTail!Next

Spec == Init /\ [][Next]_vars

(* A change the user was told of is on screen, or a read that will show it is due. *)
ChangeIsShown == part = "boards" => Board!ChangeIsShown

(* A button or spinner that is on has the one request or read that will turn it off,
   and the state of each part has its shape. *)
PagesConsistent ==
    /\ part = "boards" => Board!TypeOK /\ Board!SavingHasCall /\ Board!OneRequestAtATime
    /\ part = "browse" => Browser!TypeOK /\ Browser!RunningHasRead
    /\ part = "tail" => MessageTail!TypeOK

(* A browsing page that keeps order shows the newest answer it asked for, and rows of
   a page that asks a question for every source belong to the source picked. *)
ShowsWhatWasAsked == part = "browse" => Browser!ShowsLastRead /\ Browser!RowsArePicked

(* The rows of a tail, with the loss counted, leave no hole, come newest first, and
   none is there twice. *)
TailIsWhole == part = "tail" => MessageTail!TailIsWhole /\ MessageTail!TailInOrder
=================================================================================
