--------------------------- MODULE AtomicRestore ---------------------------
(***************************************************************************)
(* What a restore promises: the current database is replaced at one        *)
(* instant, by the one database the restore has staged, and not before     *)
(* that one would survive a power loss; until it is replaced the current   *)
(* database survives whatever happens; and an answer tells which it was.   *)
(***************************************************************************)
CONSTANTS
  Databases,
  None        \* no database, or no restore under way

VARIABLES
  current,  \* the database in use
  staged,   \* the one the restore under way would put in its place
  kept,     \* the databases that a power loss cannot take away
  answer    \* what the last restore is reported to have done, if it was

vars == <<current, staged, kept, answer>>

Init ==
  /\ current \in Databases \union {None}
  /\ kept = {current} \ {None}
  /\ staged = None
  /\ answer = "none"

\* Copies come and go, never the last one of the current database.
Holding ==
  /\ kept' \subseteq Databases
  /\ current' # None => current' \in kept'

Move == Holding /\ UNCHANGED <<current, staged, answer>>

Begin ==
  /\ staged = None
  /\ staged' \in Databases \ kept
  /\ answer' = "none"
  /\ Holding /\ UNCHANGED current

\* Both databases are kept when the one follows the other.
Commit ==
  /\ staged \notin {None, current}
  /\ current' = staged
  /\ current # None => current \in kept'
  /\ Holding /\ UNCHANGED <<staged, answer>>

Answer ==
  /\ staged # None
  /\ staged' = None
  /\ answer' \in IF current = staged THEN {"replaced"} ELSE {"kept", "unknown"}
  /\ Holding /\ UNCHANGED current

\* The process dies before it has answered.
Die ==
  /\ staged # None
  /\ staged' = None
  /\ Holding /\ UNCHANGED <<current, answer>>

\* A database is made from nothing only where there is none.
Create ==
  /\ staged = None /\ current = None
  /\ current' \in Databases \ kept
  /\ Holding /\ UNCHANGED <<staged, answer>>

Next == Move \/ Begin \/ Commit \/ Answer \/ Die \/ Create

Spec == Init /\ [][Next]_vars
=============================================================================
