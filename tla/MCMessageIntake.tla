-------------------------- MODULE MCMessageIntake --------------------------
(* A small world for checking MessageIntake with TLC: Ann's "ask", which   *)
(* names the user, the reply "echo", and "memo", typed by the user; "ask2" *)
(* and "echo2" are the keys a history sync stores the first two under.     *)
EXTENDS MessageIntake

MCOriginal == [m \in Messages |-> CASE m = "ask2" -> "ask"
                                    [] m = "echo2" -> "echo"
                                    [] OTHER -> m]
MCAuthor == [m \in Messages |-> IF MCOriginal[m] = "ask" THEN "ann" ELSE User]
MCText == [m \in Messages |-> MCOriginal[m]]
MCMentions == [m \in Messages |-> IF MCOriginal[m] = "ask" THEN {User} ELSE {}]
=============================================================================
