---------------------------- MODULE DataRootLock ----------------------------
(***************************************************************************)
(* The lock of the data root (backup-operation-lock.ts) and the processes  *)
(* that take it: API servers (server.ts) and runs of the backup CLI        *)
(* (backup-cli.ts).  A server does not lock the file itself: it spawns     *)
(* flock, which takes the lock and becomes a runtime that notes who its    *)
(* parent is, says LOCKED, and ends when the server kills it or, at its    *)
(* next poll, when its parent is another.  A child whose server goes       *)
(* before it has noted its parent never sees another.                      *)
(* The CLI runs under flock and holds the lock as long as it lives.        *)
(*                                                                         *)
(* What a process does while it uses the root is Safeguards.               *)
(***************************************************************************)
EXTENDS Naturals

CONSTANTS
  Servers,  \* API servers: a slot is started, stops or dies, and starts again
  Clis,     \* runs of the backup CLI
  Orphan,   \* a lock-holding child that its server killed or left behind
  Stray,    \* one that its server left before it had noted its parent
  Nobody

ASSUME LockAssumption ==
  /\ Servers \cap Clis = {} /\ {Orphan, Stray, Nobody} \cap (Servers \union Clis) = {}
  /\ Orphan # Nobody /\ Stray # Nobody /\ Orphan # Stray

Processes == Servers \union Clis

VARIABLES
  phase,      \* where each process is
  holder,     \* whose child, or which CLI, holds the kernel's lock
  lost,       \* servers whose child died although they had not killed it
  adrift,     \* servers killed while their child had not tried the lock yet
  overlapped  \* history: two processes have used the root at once

lockVars == <<phase, holder, lost, adrift, overlapped>>

Phases == {"down", "acquiring", "booting", "granted", "serving", "failing", "stopping",
           "releasing", "working"}

\* The database is open, or the CLI is at work.
InUse(p) == phase[p] \in {"serving", "failing", "stopping", "working"}

Moves(p, to) == phase' = [phase EXCEPT ![p] = to]
Uses(p) == overlapped' = (overlapped \/ \E q \in Processes \ {p} : InUse(q))
\* The end of a process that no longer waits for its child.
Ends(p) == Moves(p, "down") /\ lost' = lost \ {p}

-----------------------------------------------------------------------------
LockInit ==
  /\ phase = [p \in Processes |-> "down"]
  /\ holder = Nobody
  /\ lost = {} /\ adrift = {}
  /\ overlapped = FALSE

\* startServer spawns flock and waits for its word.  Bound: a slot starts again
\* once the child of its last run has tried the lock.
Acquires(s) ==
  /\ phase[s] = "down" /\ s \notin adrift /\ Moves(s, "acquiring")
  /\ UNCHANGED <<holder, lost, adrift, overlapped>>

\* flock has the lock and becomes the runtime, which boots.
TakesLock(s) ==
  /\ phase[s] = "acquiring" /\ holder = Nobody
  /\ holder' = s /\ Moves(s, "booting")
  /\ UNCHANGED <<lost, adrift, overlapped>>

\* The child notes its parent and says LOCKED, which the server has not read yet.
Granted(s) ==
  /\ phase[s] = "booting" /\ holder = s /\ Moves(s, "granted")
  /\ UNCHANGED <<holder, lost, adrift, overlapped>>

\* Another holds it: flock exits with 75 and the start fails.
Refused(s) ==
  /\ phase[s] = "acquiring" /\ holder # Nobody
  /\ Ends(s) /\ UNCHANGED <<holder, adrift, overlapped>>

\* Ten seconds without the word: the child is killed, and the server goes on
\* without waiting for its end.
TimesOut(s) ==
  /\ phase[s] \in {"acquiring", "booting", "granted"}
  /\ holder' = IF holder = s THEN Orphan ELSE holder
  /\ Ends(s) /\ UNCHANGED <<adrift, overlapped>>

\* The child's end is read before its word.
LostEarly(s) ==
  /\ phase[s] \in {"booting", "granted"} /\ s \in lost
  /\ Ends(s) /\ UNCHANGED <<holder, adrift, overlapped>>

\* The word is read: leftovers are removed, the database is opened, the server
\* listens and registers onLost, without waiting in between.
Serves(s) ==
  /\ phase[s] = "granted" /\ Moves(s, "serving") /\ Uses(s)
  /\ UNCHANGED <<holder, lost, adrift>>

\* The start fails after the lock was taken: before the database is open the
\* child is killed, after it the HTTP server is stopped first.
StartFails(s) ==
  /\ phase[s] = "granted"
  /\ \/ Moves(s, "releasing") /\ UNCHANGED overlapped
     \/ Moves(s, "failing") /\ Uses(s)
  /\ UNCHANGED <<holder, lost, adrift>>

\* A signal, or the child's end, starts stop(); a second call joins the first.
Signalled(s) ==
  /\ phase[s] = "serving" /\ Moves(s, "stopping")
  /\ UNCHANGED <<holder, lost, adrift, overlapped>>
NoticesLoss(s) == s \in lost /\ Signalled(s)

\* Mutant: stop() gives the lock back before it closes the database.
Closes_LockFirst(s) ==
  /\ phase[s] \in {"stopping", "failing"}
  /\ IF holder = s THEN holder' = Nobody /\ UNCHANGED phase
                   ELSE Moves(s, "releasing") /\ UNCHANGED holder
  /\ UNCHANGED <<lost, adrift, overlapped>>
\* The HTTP server has stopped, or failed to: the database is closed, and then
\* the child killed.
Closes(s) ==
  /\ phase[s] \in {"stopping", "failing"} /\ Moves(s, "releasing")
  /\ UNCHANGED <<holder, lost, adrift, overlapped>>

\* Mutant: release() waits for an exit that may have been reported before.
Released_MissedExit(s) ==
  /\ phase[s] = "releasing" /\ holder = s
  /\ holder' = Nobody
  /\ Ends(s) /\ UNCHANGED <<adrift, overlapped>>
\* The child has exited.
Released(s) ==
  /\ phase[s] = "releasing"
  /\ holder' = IF holder = s THEN Nobody ELSE holder
  /\ Ends(s) /\ UNCHANGED <<adrift, overlapped>>

\* The child is killed by somebody else; the kernel frees the lock at once.
HolderDies(s) ==
  /\ holder = s /\ phase[s] \in {"booting", "granted", "serving", "failing", "stopping"}
  /\ holder' = Nobody /\ lost' = lost \union {s}
  /\ UNCHANGED <<phase, adrift, overlapped>>

\* Mutant: the child notes its parent at its first poll instead of before LOCKED.
ServerDies_NotedLate(s) ==
  /\ phase[s] # "down"
  /\ holder' = IF holder # s THEN holder
               ELSE IF phase[s] \in {"booting", "granted"} THEN Stray ELSE Orphan
  /\ adrift' = IF phase[s] = "acquiring" THEN adrift \union {s} ELSE adrift
  /\ Ends(s) /\ UNCHANGED overlapped
\* The server is killed.  Its child goes on: to the lock if it had not tried it,
\* and with the lock until it polls a parent that it had noted.
ServerDies(s) ==
  /\ phase[s] # "down"
  /\ holder' = IF holder # s THEN holder ELSE IF phase[s] = "booting" THEN Stray ELSE Orphan
  /\ adrift' = IF phase[s] = "acquiring" THEN adrift \union {s} ELSE adrift
  /\ Ends(s) /\ UNCHANGED overlapped

\* A child that is left behind tries the lock once.
AdriftTries(s) ==
  /\ s \in adrift /\ adrift' = adrift \ {s}
  /\ holder' = IF holder = Nobody THEN Stray ELSE holder
  /\ UNCHANGED <<phase, lost, overlapped>>

\* The poll finds another parent, or the signal arrives.
OrphanExits ==
  /\ holder = Orphan /\ holder' = Nobody
  /\ UNCHANGED <<phase, lost, adrift, overlapped>>

\* LOCKED goes to a pipe that nobody reads, which may end the child; its poll
\* never does, and somebody may have to.
StrayEnds ==
  /\ holder = Stray /\ holder' = Nobody
  /\ UNCHANGED <<phase, lost, adrift, overlapped>>

\* The CLI gets the lock at once, or reports that another operation is active.
CliStarts(c) ==
  /\ phase[c] = "down" /\ holder = Nobody
  /\ holder' = c /\ Moves(c, "working") /\ Uses(c)
  /\ UNCHANGED <<lost, adrift>>
\* It ends or is killed, and the lock with it.
CliEnds(c) ==
  /\ phase[c] = "working"
  /\ holder' = Nobody /\ Moves(c, "down")
  /\ UNCHANGED <<lost, adrift, overlapped>>
=============================================================================
