---------------------------- MODULE PairingWindow ----------------------------
(***************************************************************************)
(* internal/pair/window_file.go: the pairing window that `cmemlan pair`    *)
(* writes to a file and the handlers of /pair in `cmemlan serve` redeem.   *)
(* Window and lock are files, so every step is one file system call and a  *)
(* process may die between two of them, leaving its lock file behind. A    *)
(* lock file of more than a minute is taken for abandoned and removed.     *)
(*                                                                         *)
(* A code is a number, and 0 is a mistyped one; a window file holds the    *)
(* code and the count of failed attempts. The critical section takes       *)
(* milliseconds: a lock does not age while a live caller holds it.         *)
(***************************************************************************)
EXTENDS Integers

CONSTANTS Redeemers,   \* goroutines of serve in handlePair
          Openers,     \* `cmemlan pair` processes
          MaxAttempts, \* failed attempts that destroy a window: 5
          MaxCodes,    \* bound on the number of windows opened
          MaxCrashes   \* bound on the number of processes that die

Callers == Redeemers \cup Openers
Codes   == 1..MaxCodes

ASSUME PairingAssumption ==
  /\ Redeemers \cap Openers = {}
  /\ MaxAttempts \in Nat \ {0} /\ MaxCodes \in Nat /\ MaxCrashes \in Nat

VARIABLES
  win,      \* pairing.json: the window, or NoWindow where there is no file
  old,      \* codes whose expires_at has passed
  drawn,    \* codes drawn so far
  shown,    \* codes printed by `cmemlan pair`
  lock,     \* pairing.json.lock: "none", "fresh" or "stale"
  at,       \* per caller: where it is, its code and the window it has read
  crashes,  \* processes that have died
  wrong,    \* history: failed attempts that reached the file, per code
  redeemed, \* history: how often the key was handed out, per code
  stolen    \* history: a caller has removed a lock that was not stale any more

vars == <<win, old, drawn, shown, lock, at, crashes, wrong, redeemed, stolen>>

NoWindow == [code |-> 0, attempts |-> 0]
Windows  == [code : 0..MaxCodes, attempts : 0..MaxAttempts]
Idle     == [pc |-> "idle", code |-> 0, read |-> NoWindow]

\* The places between taking the lock and removing it.
Inside == {"locked", "count", "close", "grant", "leave"}

Init ==
  /\ win = NoWindow /\ old = {} /\ drawn = 0 /\ shown = {}
  /\ lock = "none" /\ at = [a \in Callers |-> Idle] /\ crashes = 0
  /\ wrong = [c \in Codes |-> 0] /\ redeemed = [c \in Codes |-> 0]
  /\ stolen = FALSE

counts  == <<wrong, redeemed>>
history == <<counts, stolen>>
clock   == <<old, crashes>>

Goto(a, pc) == at' = [at EXCEPT ![a].pc = pc]

-----------------------------------------------------------------------------
(* lock                                                                    *)

\* Open, as far as lock: the code is drawn first.
StartOpen(a) ==
  /\ at[a] = Idle /\ drawn < MaxCodes
  /\ drawn' = drawn + 1
  /\ at' = [at EXCEPT ![a] = [Idle EXCEPT !.pc = "create", !.code = drawn + 1]]
  /\ UNCHANGED <<win, shown, lock, clock, history>>

\* handlePair calls Redeem, with a code that was shown or a mistyped one.
StartRedeem(a) ==
  /\ at[a] = Idle
  /\ \E c \in shown \cup {0} :
       at' = [at EXCEPT ![a] = [Idle EXCEPT !.pc = "create", !.code = c]]
  /\ UNCHANGED <<win, drawn, shown, lock, clock, history>>

\* A mistake to catch: the lock file is opened without O_EXCL.
CreateAnyLock(a) ==
  /\ at[a].pc = "create"
  /\ lock' = "fresh" /\ Goto(a, "locked")
  /\ UNCHANGED <<win, drawn, shown, clock, history>>

\* OpenFile with O_CREATE and O_EXCL.
CreateLock(a) ==
  /\ at[a].pc = "create"
  /\ \/ lock = "none" /\ lock' = "fresh" /\ Goto(a, "locked")
     \/ lock # "none" /\ Goto(a, "blocked") /\ UNCHANGED lock
  /\ UNCHANGED <<win, drawn, shown, clock, history>>

\* Any other error of OpenFile ends the call.
LockFails(a) ==
  /\ at[a].pc = "create" /\ at' = [at EXCEPT ![a] = Idle]
  /\ UNCHANGED <<win, drawn, shown, lock, clock, history>>

\* A mistake to catch: a caller that timed out removes the lock all the same.
TimeoutUnlocks(a) ==
  /\ at[a].pc = "blocked"
  /\ \/ lock = "stale" /\ Goto(a, "break") /\ UNCHANGED lock
     \/ lock # "stale" /\ lock' = "none" /\ at' = [at EXCEPT ![a] = Idle]
  /\ UNCHANGED <<win, drawn, shown, clock, history>>

\* Stat: a stale lock is to be removed; else sleep and retry, or time out.
StatLock(a) ==
  /\ at[a].pc = "blocked"
  /\ IF lock = "stale" THEN Goto(a, "break")
     ELSE Goto(a, "create") \/ at' = [at EXCEPT ![a] = Idle]
  /\ UNCHANGED <<win, drawn, shown, lock, clock, history>>

\* A mistake to catch: a stale lock is waited for, not removed.
WaitForLock(a) ==
  /\ at[a].pc = "break" /\ Goto(a, "create")
  /\ UNCHANGED <<win, drawn, shown, lock, clock, history>>

\* Remove: of whatever lock file is there by now.
BreakLock(a) ==
  /\ at[a].pc = "break"
  /\ lock' = "none" /\ stolen' = (stolen \/ lock = "fresh") /\ Goto(a, "create")
  /\ UNCHANGED <<win, drawn, shown, clock, counts>>

\* An error of Remove is ignored: the lock is looked at again.
BreakFails(a) ==
  /\ at[a].pc = "break" /\ Goto(a, "create")
  /\ UNCHANGED <<win, drawn, shown, lock, clock, history>>

\* A mistake to catch: an error of Open is not looked at.
UnlockShowsAny(a) ==
  /\ at[a].pc = "leave"
  /\ lock' = "none"
  /\ shown' = IF a \in Openers THEN shown \cup {at[a].code} ELSE shown
  /\ at' = [at EXCEPT ![a] = Idle]
  /\ UNCHANGED <<win, drawn, clock, history>>

\* The deferred unlock, and Open or Redeem returns.
Unlock(a) ==
  /\ at[a].pc = "leave"
  /\ lock' = "none"
  /\ shown' = IF a \in Openers THEN shown \cup ({at[a].code} \ {0}) ELSE shown
  /\ at' = [at EXCEPT ![a] = Idle]
  /\ UNCHANGED <<win, drawn, clock, history>>

\* Open or Redeem returns all the same when the Remove of the unlock fails.
UnlockFails(a) ==
  /\ at[a].pc = "leave"
  /\ shown' = IF a \in Openers THEN shown \cup ({at[a].code} \ {0}) ELSE shown
  /\ at' = [at EXCEPT ![a] = Idle]
  /\ UNCHANGED <<win, drawn, lock, clock, history>>

-----------------------------------------------------------------------------
(* Open and Redeem under the lock                                          *)

\* writeAtomic of the new window; if it fails, no code is printed.
WriteWindow(a) ==
  /\ a \in Openers /\ at[a].pc = "locked"
  /\ \/ win' = [code |-> at[a].code, attempts |-> 0] /\ Goto(a, "leave")
     \/ UNCHANGED win /\ at' = [at EXCEPT ![a].pc = "leave", ![a].code = 0]
  /\ UNCHANGED <<drawn, shown, lock, clock, history>>

\* What Redeem does next, by the window it has read.
Verdict(a) ==
  IF win = NoWindow THEN "leave"
  ELSE IF win.code \in old \/ win.attempts >= MaxAttempts THEN "close"
  ELSE IF at[a].code = win.code THEN "grant" ELSE "count"

\* ReadFile and Unmarshal, a failure of which leaves the window alone.
ReadWindow(a) ==
  /\ a \in Redeemers /\ at[a].pc = "locked"
  /\ \E pc \in {Verdict(a), "leave"} :
       at' = [at EXCEPT ![a].read = win, ![a].pc = pc]
  /\ UNCHANGED <<win, drawn, shown, lock, clock, history>>

\* A mistake to catch: the attempt is counted in memory only.
CountInMemory(a) ==
  /\ at[a].pc = "count"
  /\ wrong' = [wrong EXCEPT ![at[a].read.code] = @ + 1]
  /\ Goto(a, IF at[a].read.attempts + 1 >= MaxAttempts THEN "close" ELSE "leave")
  /\ UNCHANGED <<win, drawn, shown, lock, clock, redeemed, stolen>>

\* writeAtomic of the attempt, its error ignored; the last attempt also
\* destroys the window.
CountAttempt(a) ==
  LET n == at[a].read.attempts + 1
  IN  /\ at[a].pc = "count"
      /\ \/ /\ win' = [at[a].read EXCEPT !.attempts = n]
            /\ wrong' = [wrong EXCEPT ![at[a].read.code] = @ + 1]
         \/ UNCHANGED <<win, wrong>>
      /\ Goto(a, IF n >= MaxAttempts THEN "close" ELSE "leave")
      /\ UNCHANGED <<drawn, shown, lock, clock, redeemed, stolen>>

\* Close of an expired or exhausted window, its error ignored.
CloseWindow(a) ==
  /\ at[a].pc = "close"
  /\ win' \in {NoWindow, win} /\ Goto(a, "leave")
  /\ UNCHANGED <<drawn, shown, lock, clock, history>>

\* A mistake to catch: the window stays open after its code was redeemed.
GrantKeepsWindow(a) ==
  /\ at[a].pc = "grant"
  /\ redeemed' = [redeemed EXCEPT ![at[a].code] = @ + 1]
  /\ Goto(a, "leave")
  /\ UNCHANGED <<win, drawn, shown, lock, clock, wrong, stolen>>

\* The right code: LoadOrCreate and Close, a failure of which withholds the key.
Grant(a) ==
  /\ at[a].pc = "grant"
  /\ \/ win' = NoWindow /\ redeemed' = [redeemed EXCEPT ![at[a].code] = @ + 1]
     \/ UNCHANGED <<win, redeemed>>
  /\ Goto(a, "leave")
  /\ UNCHANGED <<drawn, shown, lock, clock, wrong, stolen>>

-----------------------------------------------------------------------------
(* The world outside                                                       *)

\* expires_at passes.
Expire(c) ==
  /\ c \notin old /\ old' = old \cup {c}
  /\ UNCHANGED <<win, drawn, shown, lock, at, crashes, history>>

\* A minute has passed since a process died holding the lock, or could not remove it.
AgeLock ==
  /\ lock = "fresh" /\ \A a \in Callers : at[a].pc \notin Inside
  /\ lock' = "stale"
  /\ UNCHANGED <<win, drawn, shown, at, clock, history>>

\* serve dies with all its handlers, or one `cmemlan pair`.
Crash(P) ==
  /\ crashes < MaxCrashes /\ crashes' = crashes + 1
  /\ \E a \in P : at[a] # Idle
  /\ at' = [a \in Callers |-> IF a \in P THEN Idle ELSE at[a]]
  /\ UNCHANGED <<win, old, drawn, shown, lock, history>>

LockStep(a) == CreateLock(a) \/ StatLock(a) \/ BreakLock(a) \/ Unlock(a)

LockFault(a) == LockFails(a) \/ BreakFails(a) \/ UnlockFails(a)

Step(a) == \/ LockStep(a) \/ WriteWindow(a) \/ ReadWindow(a)
           \/ CountAttempt(a) \/ CloseWindow(a) \/ Grant(a)

Next == \/ \E a \in Openers : StartOpen(a)
        \/ \E a \in Redeemers : StartRedeem(a)
        \/ \E a \in Callers : Step(a) \/ LockFault(a)
        \/ \E c \in 1..drawn : Expire(c)
        \/ AgeLock
        \/ Crash(Redeemers) \/ \E a \in Openers : Crash({a})

Spec == Init /\ [][Next]_vars

(* A caller that can run does, the file system does not fail for ever,     *)
(* devices go on asking for the key, and a minute passes.                  *)
FairSpec == /\ Spec /\ WF_vars(AgeLock)
            /\ \A a \in Callers : WF_vars(Step(a)) /\ SF_vars(CreateLock(a)) /\ SF_vars(BreakLock(a))
            /\ \A a \in Redeemers : WF_vars(StartRedeem(a))

-----------------------------------------------------------------------------
(* Properties                                                              *)

\* Type invariant.
TypeOK ==
  /\ win \in Windows /\ old \subseteq Codes
  /\ drawn \in 0..MaxCodes /\ shown \subseteq 1..drawn
  /\ lock \in {"none", "fresh", "stale"}
  /\ at \in [Callers -> [pc : {"idle", "create", "blocked", "break"} \cup Inside,
                         code : 0..MaxCodes, read : Windows]]
  /\ crashes \in 0..MaxCrashes
  /\ wrong \in [Codes -> Nat] /\ redeemed \in [Codes -> Nat]
  /\ stolen \in BOOLEAN

\* window_file.go: "The whole read-modify-write runs under an exclusive lock."
\* No two callers are between lock and unlock.
Exclusive ==
  \A a, b \in Callers : at[a].pc \in Inside /\ at[b].pc \in Inside => a = b

\* The lock excludes, and a lock left behind by a dead process is broken safely,
\* unless a caller removes a lock that another one has replaced since it looked:
\* there is no other way for two callers to be inside.
ExclusiveUnlessStolen == ~stolen => Exclusive

\* A code is redeemed at most once: concurrent redemptions, process deaths and
\* retries included.
SingleUse == ~stolen => \A c \in Codes : redeemed[c] <= 1

\* A window survives at most MaxAttempts wrong codes, however many requests try
\* at once, and across restarts of the hub. An attempt whose write fails is not
\* counted, here as in the code.
Budget == ~stolen => \A c \in Codes : wrong[c] <= MaxAttempts

\* A window that is gone, redeemed or destroyed or expired, never comes back: a
\* slow caller does not write it again. Only a code not yet shown opens one.
ClosedStaysClosed ==
  [][~stolen /\ win = NoWindow /\ win' # NoWindow => win'.code \notin shown]_vars

\* A lock file left behind by a process that died, or that could not remove it, does
\* not end pairing for good.
LockFreed == []<>(lock = "none")
=============================================================================
