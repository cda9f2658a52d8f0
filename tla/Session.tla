------------------------------ MODULE Session ------------------------------
(***************************************************************************)
(* One SQL session as the Python side sees the engine through              *)
(* SnailDB.execute: a text is given, a result or an exception comes back.  *)
(* What tables hold and what a query answers is left open: Answer(x, d) is *)
(* the result of reading d with text x, Outcomes(x, d) the contents the    *)
(* write x can leave.  Module Engine is where those come from.  NoAnswer   *)
(* is for a query whose tables are not all there.                          *)
(***************************************************************************)
CONSTANTS Texts,
          Contents,
          KindOf(_),      \* "read", "write", "begin", "commit", "rollback", "invalid"
          Answer(_, _),
          Outcomes(_, _),
          NoAnswer

VARIABLES committed, \* what a restart finds
          current,   \* what the session sees
          open,      \* has the engine an open transaction?
          reply      \* [text, result] of the last call

vars == <<committed, current, open, reply>>

Raised  == <<"raised">>
Message == <<"message">>
Result(r) == <<"result", r>>

Replies(x, result) == reply' = [text |-> x, result |-> result]

Init == /\ committed \in Contents
        /\ current = committed
        /\ open = FALSE
        /\ reply = [text |-> CHOOSE x \in Texts : TRUE, result |-> Raised]

(* An exception that changes nothing: the text is invalid, the statement   *)
(* was refused or the storage failed, or a transaction was begun twice or  *)
(* ended without one.                                                      *)
Raise(x) == /\ KindOf(x) = "begin" => open
            /\ KindOf(x) \in {"commit", "rollback"} => ~open
            /\ Replies(x, Raised)
            /\ UNCHANGED <<committed, current, open>>

Read(x) == /\ KindOf(x) = "read"
           /\ Answer(x, current) # NoAnswer
           /\ Replies(x, Result(Answer(x, current)))
           /\ UNCHANGED <<committed, current, open>>

Write(x) == /\ KindOf(x) = "write"
            /\ current' \in Outcomes(x, current)
            /\ committed' = IF open THEN committed ELSE current'
            /\ Replies(x, Message)
            /\ UNCHANGED open

Begin(x) == /\ KindOf(x) = "begin" /\ ~open
            /\ open' = TRUE
            /\ Replies(x, Message)
            /\ UNCHANGED <<committed, current>>

Commit(x) == /\ KindOf(x) = "commit" /\ open
             /\ open' = FALSE
             /\ committed' = current
             /\ Replies(x, Message)
             /\ UNCHANGED current

(* ROLLBACK, or a COMMIT the disk refused.                                 *)
Lose(x) == /\ open
           /\ \/ KindOf(x) = "rollback" /\ Replies(x, Message)
              \/ KindOf(x) = "commit" /\ Replies(x, Raised)
           /\ open' = FALSE
           /\ current' = committed
           /\ UNCHANGED committed

Execute(x) == Raise(x) \/ Read(x) \/ Write(x) \/ Begin(x) \/ Commit(x) \/ Lose(x)

(* The process ends, or is ended, and is started again.                    *)
Restart == /\ current' = committed
           /\ open' = FALSE
           /\ UNCHANGED <<committed, reply>>

Next == (\E x \in Texts : Execute(x)) \/ Restart

Spec == Init /\ [][Next]_vars
=============================================================================
