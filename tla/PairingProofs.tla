---------------------------- MODULE PairingProofs ----------------------------
(***************************************************************************)
(* Proofs about PairingWindow, for any number of handlers and of           *)
(* `cmemlan pair` processes, any number of attempts and of windows.        *)
(*                                                                         *)
(* The promises speak of the file and the counts only; what keeps them is  *)
(* that a caller inside the lock still acts on the window it has read.     *)
(* So the invariant says, as long as no lock was stolen: whoever is inside *)
(* is alone and its lock file is there (LockInv), what it has read is what *)
(* the file holds (ReadInv), a code not written yet was never used         *)
(* (DrawnInv), and the counts agree with the file (CountInv).              *)
(***************************************************************************)
EXTENDS PairingWindow, TLAPS

\* Where an opener is before it has written its window.
Waiting == {"create", "blocked", "break", "locked"}

Caller == [pc : {"idle", "create", "blocked", "break"} \cup Inside,
           code : 0..MaxCodes, read : Windows]

\* A code that has left no trace yet.
Unused(c) == c \notin shown /\ win.code # c /\ wrong[c] = 0 /\ redeemed[c] = 0

\* Codes in use have been drawn, and an attempt is only counted below the limit.
TypeInv ==
  /\ TypeOK
  /\ \A a \in Callers : /\ at[a].code <= drawn
                        /\ at[a].pc = "count" => at[a].read.attempts < MaxAttempts

LockInv ==
  \A a \in Callers : at[a].pc \in Inside =>
    lock = "fresh" /\ \A b \in Callers : at[b].pc \in Inside => a = b

ReadInv ==
  /\ win.code = 0 => win = NoWindow
  /\ \A a \in Callers :
       /\ at[a].pc \in {"count", "grant"} => at[a].read = win /\ win.code # 0
       /\ at[a].pc = "grant" => at[a].code = win.code

DrawnInv ==
  /\ \A c \in Codes : c > drawn => Unused(c)
  /\ \A a \in Openers : at[a].pc \in Waiting =>
       /\ at[a].code # 0 /\ Unused(at[a].code)
       /\ \A b \in Openers \ {a} : at[b].code # at[a].code

CountInv ==
  \A c \in Codes :
    /\ wrong[c] <= MaxAttempts /\ redeemed[c] <= 1
    /\ win.code = c => wrong[c] = win.attempts /\ redeemed[c] = 0

SafeInv == ~stolen => LockInv /\ ReadInv /\ DrawnInv /\ CountInv

PairInv == TypeInv /\ SafeInv

\* Nobody is at work at first, and no code was drawn.
LEMMA InitPairInv == Init => PairInv
<1> SUFFICES ASSUME Init PROVE PairInv
  OBVIOUS
<1>1. NoWindow \in Windows /\ Idle \in Caller
  BY PairingAssumption DEF NoWindow, Windows, Idle, Caller
<1>2. \A a \in Callers : at[a] = Idle
  BY DEF Init
<1>3. TypeInv
  <2>1. at \in [Callers -> Caller]
    BY <1>1 DEF Init
  <2>2. 0 \in 0..MaxCodes /\ 0 \in 0..MaxCrashes
    BY PairingAssumption
  <2>3. wrong \in [Codes -> Nat] /\ redeemed \in [Codes -> Nat]
    BY DEF Init
  <2>4. TypeOK
    BY <1>1, <2>1, <2>2, <2>3 DEF Init, TypeOK, Caller
  <2> QED
    BY <1>2, <2>4 DEF Init, TypeInv, Idle
<1>4. LockInv /\ ReadInv
  BY <1>2 DEF Init, LockInv, ReadInv, Idle, NoWindow, Inside
<1>5. DrawnInv
  BY <1>2, PairingAssumption DEF Init, DrawnInv, Unused, Idle, NoWindow, Waiting, Callers, Codes
<1>6. CountInv
  BY PairingAssumption DEF Init, CountInv, NoWindow, Codes
<1> QED
  BY <1>3, <1>4, <1>5, <1>6 DEF PairInv, SafeInv

\* What a step does to one caller's place, code and window.
LEMMA CallerTypes ==
  ASSUME TypeInv, NEW a \in Callers
  PROVE  /\ at[a] \in Caller /\ Idle \in Caller /\ NoWindow \in Windows
         /\ \A pc \in {"idle", "create", "blocked", "break"} \cup Inside :
              [at[a] EXCEPT !.pc = pc] \in Caller
<1>1. at[a] \in Caller
  BY DEF TypeInv, TypeOK, Caller
<1>2. NoWindow \in Windows /\ Idle \in Caller
  BY PairingAssumption DEF NoWindow, Windows, Idle, Caller
<1> QED
  BY <1>1, <1>2 DEF Caller

\* The steps of lock and unlock keep the types.
LEMMA LockKeepsType ==
  ASSUME TypeInv, NEW a \in Callers, LockStep(a) \/ LockFault(a)
  PROVE  TypeInv'
<1>a. /\ at \in [Callers -> Caller] /\ Idle \in Caller
      /\ \A pc \in {"create", "blocked", "break", "locked"} : [at[a] EXCEPT !.pc = pc] \in Caller
  BY CallerTypes DEF TypeInv, TypeOK, Caller, Inside
<1>b. /\ win' = win /\ drawn' = drawn /\ UNCHANGED <<clock, counts>>
      /\ lock' \in {"none", "fresh", "stale"}
      /\ stolen' \in BOOLEAN
  BY DEF LockStep, LockFault, LockFails, BreakFails, UnlockFails, CreateLock, StatLock, BreakLock,
         Unlock, TypeInv, TypeOK, history
<1>c. \/ at' = [at EXCEPT ![a] = Idle]
      \/ \E pc \in {"create", "blocked", "break", "locked"} : at' = [at EXCEPT ![a].pc = pc]
  BY DEF LockStep, LockFault, LockFails, BreakFails, UnlockFails, CreateLock, StatLock, BreakLock,
         Unlock, Goto
<1>d. shown' \subseteq 1..drawn
  <2>1. at[a].code \in 0..drawn
    BY <1>a DEF TypeInv, TypeOK, Caller
  <2>2. shown' = shown \/ shown' = shown \cup ({at[a].code} \ {0})
    BY DEF LockStep, LockFault, LockFails, BreakFails, UnlockFails, CreateLock, StatLock, BreakLock,
           Unlock
  <2>3. drawn \in Nat /\ shown \subseteq 1..drawn
    BY DEF TypeInv, TypeOK
  <2>4. {at[a].code} \ {0} \subseteq 1..drawn
    BY <2>1, <2>3
  <2> QED
    BY <2>2, <2>3, <2>4
<1>1. at' \in [Callers -> Caller]
  BY <1>a, <1>c
<1>2. TypeOK'
  BY <1>b, <1>d, <1>1 DEF TypeInv, TypeOK, Caller, clock, counts
<1>3. \A b \in Callers : at'[b].code <= drawn /\
                          (at'[b].pc = "count" => at'[b].read.attempts < MaxAttempts)
  BY <1>a, <1>c DEF TypeInv, TypeOK, Caller, Idle
<1> QED
  BY <1>b, <1>2, <1>3 DEF TypeInv

\* The steps under the lock keep the types: the last attempt that is counted
\* reaches MaxAttempts and no more.
LEMMA InsideKeepsType ==
  ASSUME TypeInv, NEW a \in Callers,
         WriteWindow(a) \/ ReadWindow(a) \/ CountAttempt(a) \/ CloseWindow(a) \/ Grant(a)
  PROVE  TypeInv'
<1> DEFINE r == at'[a]
<1>a. /\ at \in [Callers -> Caller] /\ NoWindow \in Windows /\ win \in Windows
      /\ at[a] \in Caller
  BY CallerTypes DEF TypeInv, TypeOK, Caller
<1>b. /\ UNCHANGED <<drawn, shown, lock, clock, stolen>>
  BY DEF WriteWindow, ReadWindow, CountAttempt, CloseWindow, Grant, history
<1>1. ASSUME r \in Caller, at' = [at EXCEPT ![a] = r], r.code <= drawn,
             r.pc = "count" => r.read.attempts < MaxAttempts, win' \in Windows,
             wrong' \in [Codes -> Nat], redeemed' \in [Codes -> Nat]
      PROVE  TypeInv'
  <2>1. at' \in [Callers -> Caller]
    BY <1>a, <1>1
  <2>2. TypeOK'
    BY <1>b, <1>1, <2>1 DEF TypeInv, TypeOK, Caller, clock
  <2>3. \A b \in Callers : at'[b].code <= drawn /\
                            (at'[b].pc = "count" => at'[b].read.attempts < MaxAttempts)
    BY <1>a, <1>1 DEF TypeInv
  <2> QED
    BY <1>b, <2>2, <2>3 DEF TypeInv
<1>2. CASE WriteWindow(a)
  <2>1. /\ wrong' = wrong /\ redeemed' = redeemed
        /\ \/ win' = [code |-> at[a].code, attempts |-> 0] /\ r = [at[a] EXCEPT !.pc = "leave"]
           \/ win' = win /\ r = [at[a] EXCEPT !.pc = "leave", !.code = 0]
        /\ at' = [at EXCEPT ![a] = r]
    BY <1>2, <1>a DEF WriteWindow, Goto, Caller, history, counts
  <2>2. win' \in Windows
    BY <1>a, <2>1, PairingAssumption DEF Windows, Caller
  <2>3. 0 \in 0..MaxCodes /\ 0 <= drawn /\ at[a].code <= drawn
    BY PairingAssumption DEF TypeInv, TypeOK
  <2>4. r \in Caller /\ r.code <= drawn /\ r.pc = "leave"
    BY <1>a, <2>1, <2>3 DEF Caller, Inside
  <2> QED
    BY <1>1, <2>1, <2>2, <2>4 DEF TypeInv, TypeOK
<1>3. CASE ReadWindow(a)
  <2>1. /\ wrong' = wrong /\ redeemed' = redeemed /\ win' = win
        /\ at' = [at EXCEPT ![a] = r]
        /\ \E pc \in {Verdict(a), "leave"} : r = [at[a] EXCEPT !.read = win, !.pc = pc]
    BY <1>3, <1>a DEF ReadWindow, Caller, history, counts
  <2>2. PICK pc \in {Verdict(a), "leave"} : r = [at[a] EXCEPT !.read = win, !.pc = pc]
    BY <2>1
  <2>3. pc \in {"leave", "close", "grant", "count"}
    BY DEF Verdict
  <2>4. r \in Caller /\ r.code = at[a].code /\ r.pc = pc /\ r.read = win
    BY <1>a, <2>2, <2>3 DEF Caller, Inside
  <2>5. pc = "count" => win.attempts < MaxAttempts
    BY <1>a, PairingAssumption DEF Verdict, Windows
  <2> QED
    BY <1>1, <2>1, <2>4, <2>5 DEF TypeInv, TypeOK
<1>4. CASE CountAttempt(a)
  <2>1. /\ redeemed' = redeemed
        /\ win' = win \/ win' = [at[a].read EXCEPT !.attempts = at[a].read.attempts + 1]
        /\ wrong' = wrong \/ wrong' = [wrong EXCEPT ![at[a].read.code] = @ + 1]
        /\ at[a].pc = "count" /\ at' = [at EXCEPT ![a] = r]
        /\ \E pc \in {"close", "leave"} : r = [at[a] EXCEPT !.pc = pc]
    BY <1>4, <1>a DEF CountAttempt, Goto, Caller
  <2>2. win' \in Windows
    BY <1>a, <2>1, PairingAssumption DEF Windows, Caller, TypeInv
  <2>3. wrong' \in [Codes -> Nat]
    BY <2>1 DEF TypeInv, TypeOK
  <2>4. r \in Caller /\ r.code = at[a].code /\ r.pc # "count"
    BY <1>a, <2>1 DEF Caller, Inside
  <2> QED
    BY <1>1, <2>1, <2>2, <2>3, <2>4 DEF TypeInv, TypeOK
<1>5. CASE CloseWindow(a) \/ Grant(a)
  <2>1. /\ wrong' = wrong
        /\ win' \in {win, NoWindow}
        /\ redeemed' = redeemed \/ redeemed' = [redeemed EXCEPT ![at[a].code] = @ + 1]
        /\ at' = [at EXCEPT ![a] = r] /\ r = [at[a] EXCEPT !.pc = "leave"]
    BY <1>5, <1>a DEF CloseWindow, Grant, Goto, Caller, history, counts
  <2>2. redeemed' \in [Codes -> Nat]
    BY <2>1 DEF TypeInv, TypeOK
  <2>3. r \in Caller /\ r.code = at[a].code /\ r.pc # "count"
    BY <1>a, <2>1 DEF Caller, Inside
  <2> QED
    BY <1>1, <1>a, <2>1, <2>2, <2>3 DEF TypeInv, TypeOK
<1> QED
  BY <1>2, <1>3, <1>4, <1>5

\* The calls that begin, the clock and the deaths keep the types.
LEMMA WorldKeepsType ==
  ASSUME TypeInv,
         \/ \E a \in Openers : StartOpen(a)
         \/ \E a \in Redeemers : StartRedeem(a)
         \/ \E c \in 1..drawn : Expire(c)
         \/ AgeLock \/ Crash(Redeemers) \/ \E a \in Openers : Crash({a})
  PROVE  TypeInv'
<1>a. /\ at \in [Callers -> Caller] /\ Idle \in Caller /\ drawn \in Nat
      /\ Openers \subseteq Callers /\ Redeemers \subseteq Callers /\ 1..drawn \subseteq Codes
  BY PairingAssumption DEF Idle, NoWindow, Windows, TypeInv, TypeOK, Caller, Callers, Codes
<1>1. ASSUME NEW a \in Openers, StartOpen(a) PROVE TypeInv'
  <2>1. /\ drawn' = drawn + 1 /\ drawn' \in 0..MaxCodes
        /\ UNCHANGED <<win, shown, lock, clock, counts, stolen>>
        /\ at' = [at EXCEPT ![a] = [Idle EXCEPT !.pc = "create", !.code = drawn + 1]]
    BY <1>1, PairingAssumption DEF StartOpen, TypeInv, TypeOK, history
  <2>2. [Idle EXCEPT !.pc = "create", !.code = drawn + 1] \in Caller
    BY <1>a, <2>1 DEF Caller, Idle
  <2>3. at' \in [Callers -> Caller]
    BY <1>a, <2>1, <2>2
  <2>4. shown \subseteq 1..(drawn + 1)
    BY <1>a DEF TypeInv, TypeOK
  <2>5. TypeOK'
    BY <2>1, <2>3, <2>4 DEF TypeInv, TypeOK, Caller, clock, counts
  <2>6. \A b \in Callers : at'[b].code <= drawn + 1 /\
                            (at'[b].pc = "count" => at'[b].read.attempts < MaxAttempts)
    BY <1>a, <2>1 DEF TypeInv, Caller, Idle
  <2> QED
    BY <2>1, <2>5, <2>6 DEF TypeInv
<1>2. ASSUME NEW a \in Redeemers, StartRedeem(a) PROVE TypeInv'
  <2>1. PICK c \in shown \cup {0} :
               at' = [at EXCEPT ![a] = [Idle EXCEPT !.pc = "create", !.code = c]]
    BY <1>2 DEF StartRedeem
  <2>2. c \in 0..drawn /\ c \in 0..MaxCodes
    BY <1>a, PairingAssumption DEF TypeInv, TypeOK
  <2>3. [Idle EXCEPT !.pc = "create", !.code = c] \in Caller
    BY <1>a, <2>2 DEF Caller, Idle
  <2>4. at' \in [Callers -> Caller]
    BY <1>a, <2>1, <2>3
  <2>5. TypeOK'
    BY <1>2, <2>4 DEF StartRedeem, TypeInv, TypeOK, Caller, clock, history, counts
  <2>6. \A b \in Callers : at'[b].code <= drawn /\
                            (at'[b].pc = "count" => at'[b].read.attempts < MaxAttempts)
    BY <1>a, <2>1, <2>2 DEF TypeInv, Caller, Idle
  <2> QED
    BY <1>2, <2>5, <2>6 DEF StartRedeem, TypeInv
<1>3. ASSUME NEW c \in 1..drawn, Expire(c) PROVE TypeInv'
  BY <1>3, <1>a DEF Expire, TypeInv, TypeOK, history, counts
<1>4. CASE AgeLock
  BY <1>4 DEF AgeLock, TypeInv, TypeOK, clock, history, counts
<1>5. ASSUME NEW P, Crash(P) PROVE TypeInv'
  <2>1. at' \in [Callers -> Caller]
    BY <1>5, <1>a DEF Crash
  <2>2. crashes' \in 0..MaxCrashes
    BY <1>5, PairingAssumption DEF Crash, TypeInv, TypeOK
  <2>3. TypeOK'
    BY <1>5, <2>1, <2>2 DEF Crash, TypeInv, TypeOK, Caller, history, counts
  <2>4. \A b \in Callers : at'[b].code <= drawn /\
                            (at'[b].pc = "count" => at'[b].read.attempts < MaxAttempts)
    BY <1>5, <1>a DEF Crash, TypeInv, Idle
  <2> QED
    BY <1>5, <2>3, <2>4 DEF Crash, TypeInv
<1> QED
  BY <1>1, <1>2, <1>3, <1>4, <1>5

\* Every step keeps the types.
LEMMA NextKeepsType == TypeInv /\ [Next]_vars => TypeInv'
<1> SUFFICES ASSUME TypeInv, [Next]_vars PROVE TypeInv'
  OBVIOUS
<1>1. CASE UNCHANGED vars
  BY <1>1 DEF vars, TypeInv, TypeOK
<1>2. ASSUME NEW a \in Callers, Step(a) \/ LockFault(a) PROVE TypeInv'
  BY <1>2, LockKeepsType, InsideKeepsType DEF Step
<1> QED
  BY <1>1, <1>2, WorldKeepsType DEF Next

-----------------------------------------------------------------------------
(* While no lock is stolen                                                 *)

Safe == LockInv /\ ReadInv /\ DrawnInv /\ CountInv

\* A step that leaves the window, the codes and the counts alone, and moves one
\* caller without giving it a code or a verdict, keeps what is said of them.
LEMMA MoveKeepsSafe ==
  ASSUME TypeInv, ReadInv, DrawnInv, CountInv, NEW a \in Callers,
         UNCHANGED <<win, drawn, shown, counts>>,
         NEW pc \in {"create", "blocked", "break", "locked", "close", "leave"},
         at' = [at EXCEPT ![a].pc = pc] \/ at' = [at EXCEPT ![a] = Idle],
         pc \in Waiting => at[a].pc \in Waiting
  PROVE  ReadInv' /\ DrawnInv' /\ CountInv'
<1>a. at \in [Callers -> Caller] /\ Openers \subseteq Callers
  BY DEF TypeInv, TypeOK, Caller, Callers
<1>b. \A b \in Callers :
        /\ b # a => at'[b] = at[b]
        /\ b = a => \/ at'[b].pc = pc /\ at'[b].code = at[b].code
                    \/ at'[b].pc = "idle" /\ at'[b].code = 0
  BY <1>a DEF Caller, Idle
<1>c. \A c : Unused(c) => Unused(c)'
  BY DEF Unused, counts
<1>1. ReadInv'
  BY <1>b DEF ReadInv
<1>2. DrawnInv'
  <2>1. \A c \in Codes : c > drawn' => Unused(c)'
    BY <1>c DEF DrawnInv
  <2>2. ASSUME NEW b \in Openers, at'[b].pc \in Waiting
        PROVE  /\ at'[b].code = at[b].code /\ at[b].pc \in Waiting
    BY <1>a, <1>b, <2>2 DEF Waiting
  <2>3. ASSUME NEW b \in Openers, at'[b].pc \in Waiting
        PROVE  /\ at'[b].code # 0 /\ Unused(at[b].code)'
               /\ \A e \in Openers \ {b} : at'[e].code # at'[b].code
    <3>1. /\ at'[b].code = at[b].code /\ at[b].code # 0 /\ Unused(at[b].code)
          /\ \A e \in Openers \ {b} : at[e].code # at[b].code
      BY <2>2, <2>3 DEF DrawnInv
    <3>2. Unused(at[b].code)'
      BY <3>1 DEF Unused, counts
    <3> QED
      BY <1>a, <1>b, <3>1, <3>2
  <2> QED
    BY <2>1, <2>3 DEF DrawnInv
<1>3. CountInv'
  BY DEF CountInv, counts
<1> QED
  BY <1>1, <1>2, <1>3

\* Taking, waiting for, breaking and failing to take the lock: only a lock file
\* that was not there is created, and a lock that is not fresh has nobody inside.
LEMMA LockKeepsSafe ==
  ASSUME TypeInv, Safe, ~stolen', NEW a \in Callers,
         CreateLock(a) \/ StatLock(a) \/ BreakLock(a) \/ LockFails(a) \/ BreakFails(a)
  PROVE  Safe'
<1>a. at \in [Callers -> Caller]
  BY DEF TypeInv, TypeOK, Caller
<1>b. UNCHANGED <<win, drawn, shown, counts>>
  BY DEF CreateLock, StatLock, BreakLock, LockFails, BreakFails, history
<1>c. at[a].pc \in Waiting /\ at[a].pc \notin Inside
  BY DEF CreateLock, StatLock, BreakLock, LockFails, BreakFails, Waiting, Inside
<1>d. PICK pc \in {"create", "blocked", "break", "locked"} :
        at' = [at EXCEPT ![a].pc = pc] \/ at' = [at EXCEPT ![a] = Idle]
  BY DEF CreateLock, StatLock, BreakLock, LockFails, BreakFails, Goto
<1>1. ReadInv' /\ DrawnInv' /\ CountInv'
  BY <1>b, <1>c, <1>d, MoveKeepsSafe DEF Safe
<1>2. LockInv'
  <2>a. \A b \in Callers : b # a => at'[b] = at[b]
    BY <1>a, <1>d
  <2>1. CASE lock = "none" /\ lock' = "fresh"
    BY <2>a, <2>1 DEF Safe, LockInv
  <2>2. CASE lock' = lock /\ at'[a].pc \notin Inside
    BY <2>a, <2>2 DEF Safe, LockInv
  <2>3. CASE BreakLock(a)
    <3>1. lock # "fresh" /\ at'[a].pc \notin Inside
      BY <1>a, <2>3 DEF BreakLock, Goto, Inside, Caller
    <3> QED
      BY <2>a, <3>1 DEF Safe, LockInv
  <2>4. CASE ~BreakLock(a)
    <3>1. \/ lock = "none" /\ lock' = "fresh"
          \/ lock' = lock /\ (\/ at' = [at EXCEPT ![a] = Idle]
                              \/ \E q \in {"create", "blocked", "break"} :
                                    at' = [at EXCEPT ![a].pc = q])
      BY <2>4 DEF CreateLock, StatLock, LockFails, BreakFails, Goto
    <3>2. CASE lock' = lock /\ at' = [at EXCEPT ![a] = Idle]
      BY <1>a, <2>2, <3>2 DEF Idle, Inside
    <3>3. ASSUME NEW q \in {"create", "blocked", "break"}, at' = [at EXCEPT ![a].pc = q],
                 lock' = lock
          PROVE  LockInv'
      BY <1>a, <2>2, <3>3 DEF Caller, Inside
    <3> QED
      BY <2>1, <3>1, <3>2, <3>3
  <2> QED
    BY <2>3, <2>4
<1> QED
  BY <1>1, <1>2 DEF Safe

\* Only one caller is inside, so its unlock leaves nobody there, whether or not the
\* lock file can be removed; a code it shows
\* has been written, and is not one that another opener is about to write.
LEMMA UnlockKeepsSafe ==
  ASSUME TypeInv, Safe, NEW a \in Callers, Unlock(a) \/ UnlockFails(a)
  PROVE  Safe'
<1>a. /\ at \in [Callers -> Caller] /\ drawn \in Nat
      /\ Openers \subseteq Callers /\ at[a].code <= drawn
  BY DEF TypeInv, TypeOK, Caller, Callers
<1>b. /\ at[a].pc = "leave" /\ UNCHANGED <<win, drawn, wrong, redeemed>>
      /\ shown' = IF a \in Openers THEN shown \cup ({at[a].code} \ {0}) ELSE shown
      /\ at' = [at EXCEPT ![a] = Idle] /\ lock' \in {lock, "none"}
  BY DEF Unlock, UnlockFails, history, counts
<1>c. \A b \in Callers : (b # a => at'[b] = at[b]) /\ (b = a => at'[b] = Idle)
  BY <1>a, <1>b
<1>1. LockInv'
  BY <1>b, <1>c DEF Safe, LockInv, Inside, Idle
<1>2. ReadInv' /\ CountInv'
  BY <1>b, <1>c DEF Safe, ReadInv, CountInv, Idle
<1>3. DrawnInv'
  <2>1. ASSUME NEW c \in Codes, c > drawn' PROVE Unused(c)'
    <3>1. Unused(c) /\ c # at[a].code
      BY <1>a, <1>b, <2>1 DEF Safe, DrawnInv, Codes
    <3> QED
      BY <1>b, <3>1 DEF Unused
  <2>2. ASSUME NEW b \in Openers, at'[b].pc \in Waiting
        PROVE  /\ at'[b].code # 0 /\ Unused(at[b].code)'
               /\ \A e \in Openers \ {b} : at'[e].code # at'[b].code
    <3>1. b # a
      BY <1>a, <1>c, <2>2 DEF Idle, Waiting
    <3>2. /\ at'[b] = at[b] /\ at[b].code # 0 /\ Unused(at[b].code)
          /\ \A e \in Openers \ {b} : at[e].code # at[b].code
      BY <1>a, <1>c, <2>2, <3>1 DEF Safe, DrawnInv
    <3>3. Unused(at[b].code)'
      BY <1>b, <3>1, <3>2 DEF Unused
    <3> QED
      BY <1>a, <1>c, <3>2, <3>3 DEF Idle
  <2> QED
    BY <2>1, <2>2 DEF DrawnInv
<1> QED
  BY <1>1, <1>2, <1>3 DEF Safe

\* The caller inside the lock is alone there, so that nobody else is between
\* reading the window and acting on it, and no opener is about to write.
LEMMA InsideAlone ==
  ASSUME Safe, NEW a \in Callers, at[a].pc \in Inside, NEW b \in Callers, b # a
  PROVE  at[b].pc \notin Inside /\ lock = "fresh"
BY DEF Safe, LockInv

\* Open writes a code that has no history, and leaves an older window's counts
\* as they are.
LEMMA WriteKeepsSafe ==
  ASSUME TypeInv, Safe, NEW a \in Callers, WriteWindow(a)
  PROVE  Safe'
<1>a. /\ at \in [Callers -> Caller] /\ win \in Windows /\ drawn \in Nat
      /\ Openers \subseteq Callers /\ at[a].code \in 0..drawn /\ MaxCodes \in Nat
      /\ at[a].code \in 0..MaxCodes
  BY PairingAssumption DEF TypeInv, TypeOK, Caller, Callers
<1>b. /\ a \in Openers /\ at[a].pc = "locked" /\ UNCHANGED <<drawn, shown, lock, wrong, redeemed>>
      /\ at'[a].pc = "leave" /\ \A b \in Callers \ {a} : at'[b] = at[b]
      /\ \/ win' = [code |-> at[a].code, attempts |-> 0] /\ at'[a].code = at[a].code
         \/ win' = win /\ at'[a].code = 0
  BY <1>a DEF WriteWindow, Goto, Caller, history, counts
<1>c. /\ at[a].code # 0 /\ Unused(at[a].code) /\ at[a].code \in Codes
      /\ \A b \in Openers \ {a} : at[b].code # at[a].code
  BY <1>a, <1>b DEF Safe, DrawnInv, Waiting, Codes
<1>d. \A b \in Callers \ {a} : at[b].pc \notin Inside
  BY <1>b, InsideAlone DEF Inside
<1>1. LockInv'
  BY <1>b, <1>d DEF Safe, LockInv, Inside
<1>2. ReadInv'
  <2>1. \A b \in Callers : at'[b].pc \notin {"count", "grant"}
    BY <1>b, <1>d DEF Inside
  <2>2. win'.code = 0 => win' = NoWindow
    BY <1>b, <1>c DEF Safe, ReadInv
  <2> QED
    BY <2>1, <2>2 DEF ReadInv
<1>3. DrawnInv'
  <2>1. ASSUME NEW c \in Codes, Unused(c), c # at[a].code PROVE Unused(c)'
    BY <1>b, <2>1 DEF Unused
  <2>2. \A c \in Codes : c > drawn' => Unused(c)'
    BY <1>a, <1>b, <2>1 DEF Safe, DrawnInv, Codes
  <2>3. ASSUME NEW b \in Openers, at'[b].pc \in Waiting
        PROVE  /\ at'[b].code # 0 /\ Unused(at[b].code)'
               /\ \A e \in Openers \ {b} : at'[e].code # at'[b].code
    <3>1. b # a
      BY <1>b, <2>3 DEF Waiting
    <3>2. /\ at'[b] = at[b] /\ at[b].code # 0 /\ Unused(at[b].code)
          /\ \A e \in Openers \ {b} : at[e].code # at[b].code
      BY <1>a, <1>b, <2>3, <3>1 DEF Safe, DrawnInv
    <3>3. Unused(at[b].code)'
      BY <1>b, <1>c, <3>1, <3>2 DEF Unused
    <3> QED
      BY <1>a, <1>b, <3>2, <3>3
  <2> QED
    BY <2>2, <2>3 DEF DrawnInv
<1>4. CountInv'
  BY <1>b, <1>c DEF Safe, CountInv, Unused
<1> QED
  BY <1>1, <1>2, <1>3, <1>4 DEF Safe

\* Redeem reads the window: its verdict is about what the file holds.
LEMMA ReadKeepsSafe ==
  ASSUME TypeInv, Safe, NEW a \in Callers, ReadWindow(a)
  PROVE  Safe'
<1>a. /\ at \in [Callers -> Caller] /\ a \in Redeemers /\ a \notin Openers
      /\ Openers \subseteq Callers /\ at[a].pc = "locked"
      /\ UNCHANGED <<win, drawn, shown, lock, wrong, redeemed>>
  BY PairingAssumption DEF TypeInv, TypeOK, Caller, Callers, ReadWindow, history, counts
<1>b. PICK pc \in {Verdict(a), "leave"} : at' = [at EXCEPT ![a].read = win, ![a].pc = pc]
  BY DEF ReadWindow
<1>c. /\ pc \in {"leave", "close", "grant", "count"}
      /\ pc \in {"grant", "count"} => win # NoWindow
      /\ pc = "grant" => at[a].code = win.code
  BY DEF Verdict
<1>d. /\ at'[a].pc = pc /\ at'[a].read = win /\ at'[a].code = at[a].code
      /\ \A b \in Callers \ {a} : at'[b] = at[b]
  BY <1>a, <1>b DEF Caller
<1>1. LockInv'
  BY <1>a, <1>d DEF Safe, LockInv, Inside
<1>2. ReadInv'
  BY <1>a, <1>c, <1>d DEF Safe, ReadInv
<1>3. CountInv'
  BY <1>a DEF Safe, CountInv
<1>4. DrawnInv'
  <2>1. \A b \in Openers : at'[b] = at[b]
    BY <1>a, <1>d
  <2> QED
    BY <1>a, <2>1 DEF Safe, DrawnInv, Unused
<1> QED
  BY <1>1, <1>2, <1>3, <1>4 DEF Safe

\* Counting an attempt, closing and granting act on the window that was read,
\* which is the one in the file. So the count that is written is one more than
\* the count so far, and a grant is the first one for its code.
LEMMA VerdictKeepsSafe ==
  ASSUME TypeInv, Safe, NEW a \in Callers,
         CountAttempt(a) \/ CloseWindow(a) \/ Grant(a)
  PROVE  Safe'
<1>a. /\ at \in [Callers -> Caller] /\ win \in Windows
      /\ wrong \in [Codes -> Nat] /\ redeemed \in [Codes -> Nat]
      /\ Openers \subseteq Callers /\ MaxAttempts \in Nat /\ win.attempts \in Nat
  BY PairingAssumption DEF TypeInv, TypeOK, Caller, Callers, Windows
<1>b. /\ at[a].pc \in {"count", "close", "grant"} /\ UNCHANGED <<drawn, shown, lock>>
      /\ at'[a].pc \in {"close", "leave"} /\ at'[a].code = at[a].code
      /\ \A b \in Callers \ {a} : at'[b] = at[b]
  BY <1>a DEF CountAttempt, CloseWindow, Grant, Goto, Caller
<1>c. \/ UNCHANGED <<win, wrong, redeemed>>
      \/ win' = NoWindow /\ UNCHANGED <<wrong, redeemed>>
      \/ /\ win.code # 0 /\ win.attempts < MaxAttempts
         /\ win' = [win EXCEPT !.attempts = win.attempts + 1]
         /\ wrong' = [wrong EXCEPT ![win.code] = @ + 1] /\ UNCHANGED redeemed
      \/ /\ win.code # 0 /\ win' = NoWindow
         /\ redeemed' = [redeemed EXCEPT ![win.code] = @ + 1] /\ UNCHANGED wrong
  <2>1. CASE CountAttempt(a)
    BY <2>1 DEF CountAttempt, Safe, ReadInv, TypeInv
  <2>2. CASE CloseWindow(a)
    BY <2>2 DEF CloseWindow, history, counts
  <2>3. CASE Grant(a)
    BY <2>3 DEF Grant, Safe, ReadInv
  <2> QED
    BY <2>1, <2>2, <2>3
<1>d. \A b \in Callers \ {a} : at[b].pc \notin Inside
  BY <1>b, InsideAlone DEF Inside
<1>1. LockInv'
  BY <1>b, <1>d DEF Safe, LockInv, Inside
<1>2. ReadInv'
  <2>1. \A b \in Callers : at'[b].pc \notin {"count", "grant"}
    BY <1>b, <1>d DEF Inside
  <2>2. win'.code = 0 => win' = NoWindow
    BY <1>a, <1>c DEF Safe, ReadInv, NoWindow, Windows
  <2> QED
    BY <2>1, <2>2 DEF ReadInv
<1>e. win'.code \in {win.code, 0}
  BY <1>a, <1>c DEF NoWindow, Windows
<1>f. \A c \in Codes : c # win.code => wrong'[c] = wrong[c] /\ redeemed'[c] = redeemed[c]
  BY <1>a, <1>c
<1>3. DrawnInv'
  <2>2. \A c \in Codes : c > drawn' => Unused(c)'
    <3> SUFFICES ASSUME NEW c \in Codes, c > drawn PROVE Unused(c)'
      BY <1>b
    <3>1. Unused(c) /\ c # 0
      BY DEF Safe, DrawnInv, Codes
    <3> QED
      BY <1>b, <1>e, <1>f, <3>1 DEF Unused
  <2>3. ASSUME NEW b \in Openers, at'[b].pc \in Waiting
        PROVE  /\ at'[b].code # 0 /\ Unused(at[b].code)'
               /\ \A e \in Openers \ {b} : at'[e].code # at'[b].code
    <3>1. b # a
      BY <1>b, <2>3 DEF Waiting
    <3>2. /\ at'[b] = at[b] /\ at[b].code # 0 /\ Unused(at[b].code)
          /\ \A e \in Openers \ {b} : at[e].code # at[b].code
          /\ at[b].code \in Codes
      BY <1>a, <1>b, <2>3, <3>1, PairingAssumption DEF Safe, DrawnInv, Caller, Codes
    <3>3. Unused(at[b].code)'
      BY <1>b, <1>e, <1>f, <3>2 DEF Unused
    <3> QED
      BY <1>a, <1>b, <3>2, <3>3
  <2> QED
    BY <2>2, <2>3 DEF DrawnInv
<1>4. CountInv'
  <2> SUFFICES ASSUME NEW c \in Codes
               PROVE  /\ wrong'[c] <= MaxAttempts /\ redeemed'[c] <= 1
                      /\ win'.code = c => wrong'[c] = win'.attempts /\ redeemed'[c] = 0
    BY DEF CountInv
  <2>1. /\ wrong[c] <= MaxAttempts /\ redeemed[c] <= 1 /\ c # 0
        /\ win.code = c => wrong[c] = win.attempts /\ redeemed[c] = 0
    BY DEF Safe, CountInv, Codes
  <2> QED
    BY <1>a, <1>c, <2>1 DEF NoWindow, Windows
<1> QED
  BY <1>1, <1>2, <1>3, <1>4 DEF Safe

\* The calls that begin, the clock and the deaths: a death leaves the lock file
\* behind, and a lock only ages when nobody is inside.
LEMMA WorldKeepsSafe ==
  ASSUME TypeInv, Safe,
         \/ \E a \in Openers : StartOpen(a)
         \/ \E a \in Redeemers : StartRedeem(a)
         \/ \E c \in 1..drawn : Expire(c)
         \/ AgeLock \/ Crash(Redeemers) \/ \E a \in Openers : Crash({a})
  PROVE  Safe'
<1>a. /\ at \in [Callers -> Caller] /\ drawn \in Nat /\ drawn <= MaxCodes /\ MaxCodes \in Nat
      /\ Openers \subseteq Callers /\ Redeemers \subseteq Callers
      /\ Redeemers \cap Openers = {}
  BY PairingAssumption DEF TypeInv, TypeOK, Caller, Callers
<1>b. UNCHANGED <<win, shown, wrong, redeemed>>
  BY DEF StartOpen, StartRedeem, Expire, AgeLock, Crash, history, counts
<1>c. CountInv'
  BY <1>b DEF Safe, CountInv
<1>1. ASSUME NEW a \in Openers, StartOpen(a) PROVE Safe'
  <2>1. /\ at'[a].pc = "create" /\ at'[a].code = drawn + 1 /\ drawn' = drawn + 1
        /\ lock' = lock /\ drawn + 1 \in Codes
        /\ \A b \in Callers \ {a} : at'[b] = at[b]
    BY <1>1, <1>a DEF StartOpen, Idle, Codes
  <2>2. LockInv' /\ ReadInv'
    BY <1>a, <1>b, <2>1 DEF Safe, LockInv, ReadInv, Inside
  <2>3. Unused(drawn + 1)
    BY <1>a, <2>1 DEF Safe, DrawnInv
  <2>4. ASSUME NEW b \in Openers, at'[b].pc \in Waiting
        PROVE  /\ at'[b].code # 0 /\ Unused(at[b].code)'
               /\ \A e \in Openers \ {b} : at'[e].code # at'[b].code
    <3>a. \A e \in Openers : at[e].code \in Nat /\ at[e].code <= drawn
      BY <1>a DEF TypeInv, Caller
    <3>1. CASE b = a
      BY <1>a, <1>b, <2>1, <2>3, <3>1, <3>a DEF Unused
    <3>2. CASE b # a
      <4>1. /\ at'[b] = at[b] /\ at[b].code # 0 /\ Unused(at[b].code)
            /\ \A e \in Openers \ {b} : at[e].code # at[b].code
        BY <1>a, <2>1, <2>4, <3>2 DEF Safe, DrawnInv
      <4>2. Unused(at[b].code)'
        BY <1>b, <4>1 DEF Unused
      <4> QED
        BY <1>a, <2>1, <3>a, <4>1, <4>2
    <3> QED
      BY <3>1, <3>2
  <2>5. \A c \in Codes : c > drawn' => Unused(c)'
    BY <1>a, <1>b, <2>1 DEF Safe, DrawnInv, Unused, Codes
  <2> QED
    BY <1>c, <2>2, <2>4, <2>5 DEF Safe, DrawnInv
<1>2. ASSUME NEW a \in Redeemers, StartRedeem(a) PROVE Safe'
  <2>1. /\ at'[a].pc = "create" /\ UNCHANGED <<drawn, lock>>
        /\ \A b \in Callers \ {a} : at'[b] = at[b]
    BY <1>2, <1>a DEF StartRedeem, Idle
  <2>2. LockInv' /\ ReadInv'
    BY <1>a, <1>b, <2>1 DEF Safe, LockInv, ReadInv, Inside
  <2>3. \A b \in Openers : at'[b] = at[b]
    BY <1>a, <2>1
  <2>4. DrawnInv'
    BY <1>b, <2>1, <2>3 DEF Safe, DrawnInv, Unused
  <2> QED
    BY <1>c, <2>2, <2>4 DEF Safe
<1>3. ASSUME NEW c \in 1..drawn, Expire(c) PROVE Safe'
  BY <1>3, <1>b, <1>c DEF Expire, Safe, LockInv, ReadInv, DrawnInv, Unused
<1>4. CASE AgeLock
  BY <1>4, <1>b, <1>c DEF AgeLock, Safe, LockInv, ReadInv, DrawnInv, Unused
<1>5. ASSUME NEW P, Crash(P) PROVE Safe'
  <2>1. /\ UNCHANGED <<drawn, lock>>
        /\ \A b \in Callers : at'[b] = at[b] \/ (at'[b].pc = "idle" /\ at'[b].code = 0)
    BY <1>5 DEF Crash, Idle
  <2>2. LockInv' /\ ReadInv'
    BY <1>b, <2>1 DEF Safe, LockInv, ReadInv, Inside
  <2>3. ASSUME NEW b \in Openers, at'[b].pc \in Waiting
        PROVE  /\ at'[b].code # 0 /\ Unused(at[b].code)'
               /\ \A e \in Openers \ {b} : at'[e].code # at'[b].code
    <3>1. /\ at'[b] = at[b] /\ at[b].code # 0 /\ Unused(at[b].code)
          /\ \A e \in Openers \ {b} : at[e].code # at[b].code
      BY <1>a, <2>1, <2>3 DEF Safe, DrawnInv, Waiting
    <3>2. Unused(at[b].code)'
      BY <1>b, <3>1 DEF Unused
    <3> QED
      BY <1>a, <2>1, <3>1, <3>2
  <2>4. DrawnInv'
    BY <1>b, <2>1, <2>3 DEF Safe, DrawnInv, Unused
  <2> QED
    BY <1>c, <2>2, <2>4 DEF Safe
<1> QED
  BY <1>1, <1>2, <1>3, <1>4, <1>5

\* Every step keeps the invariant; only BreakLock sets stolen.
LEMMA NextKeepsPairInv == PairInv /\ [Next]_vars => PairInv'
<1> SUFFICES ASSUME PairInv, [Next]_vars PROVE PairInv'
  OBVIOUS
<1>1. TypeInv'
  BY NextKeepsType DEF PairInv
<1>2. CASE UNCHANGED vars
  BY <1>1, <1>2 DEF vars, PairInv, SafeInv, LockInv, ReadInv, DrawnInv, CountInv, Unused
<1>3. ASSUME Next, ~stolen' PROVE Safe'
  <2>1. ~stolen
    BY <1>3 DEF Next, StartOpen, StartRedeem, Step, LockStep, LockFault, LockFails, BreakFails, UnlockFails, Expire, AgeLock, Crash,
       CreateLock, StatLock, BreakLock, Unlock, WriteWindow, ReadWindow, CountAttempt,
       CloseWindow, Grant, history
  <2>2. TypeInv /\ Safe
    BY <2>1 DEF PairInv, SafeInv, Safe
  <2>3. ASSUME NEW a \in Callers, Step(a) \/ LockFault(a) PROVE Safe'
    BY <1>3, <2>2, <2>3, LockKeepsSafe, UnlockKeepsSafe, WriteKeepsSafe, ReadKeepsSafe,
       VerdictKeepsSafe DEF Step, LockStep, LockFault
  <2> QED
    BY <1>3, <2>2, <2>3, WorldKeepsSafe DEF Next
<1> QED
  BY <1>1, <1>2, <1>3 DEF PairInv, SafeInv, Safe

-----------------------------------------------------------------------------

\* Theorem: the invariant holds whatever the callers, the clock and the deaths do.
THEOREM PairingInvariant == Spec => []PairInv
BY InitPairInv, NextKeepsPairInv, PTL DEF Spec

\* Theorem: type correctness; in particular no window file ever counts more
\* than MaxAttempts, and no code is shown that was not drawn.
THEOREM PairingTypeOK == Spec => []TypeOK
<1>1. PairInv => TypeOK
  BY DEF PairInv, TypeInv
<1> QED
  BY <1>1, PairingInvariant, PTL

\* Theorem: the lock of pairing.json excludes, and abandoned locks are broken
\* safely, unless a lock was removed that somebody had just created.
THEOREM PairingExclusive == Spec => []ExclusiveUnlessStolen
<1>1. PairInv => ExclusiveUnlessStolen
  BY DEF PairInv, SafeInv, LockInv, ExclusiveUnlessStolen, Exclusive
<1> QED
  BY <1>1, PairingInvariant, PTL

\* Theorem: Redeem hands the key out at most once for a code.
THEOREM PairingSingleUse == Spec => []SingleUse
<1>1. PairInv => SingleUse
  BY DEF PairInv, SafeInv, CountInv, SingleUse
<1> QED
  BY <1>1, PairingInvariant, PTL

\* Theorem: no window takes more than MaxAttempts wrong codes.
THEOREM PairingBudget == Spec => []Budget
<1>1. PairInv => Budget
  BY DEF PairInv, SafeInv, CountInv, Budget
<1> QED
  BY <1>1, PairingInvariant, PTL

\* Theorem: a window that is gone is never written again by a slow caller.
THEOREM PairingClosedStaysClosed == Spec => ClosedStaysClosed
<1>1. PairInv /\ [Next]_vars =>
        [~stolen /\ win = NoWindow /\ win' # NoWindow => win'.code \notin shown]_vars
  <2> SUFFICES ASSUME PairInv, Next, ~stolen, win = NoWindow, win' # NoWindow
               PROVE  win'.code \notin shown
    OBVIOUS
  <2>1. PICK a \in Callers : WriteWindow(a) \/ CountAttempt(a)
    BY DEF Next, StartOpen, StartRedeem, Step, LockStep, LockFault, LockFails, BreakFails, UnlockFails, Expire, AgeLock, Crash,
       CreateLock, StatLock, BreakLock, Unlock, ReadWindow, CloseWindow, Grant
  <2>2. ~CountAttempt(a)
    BY DEF CountAttempt, PairInv, SafeInv, ReadInv, NoWindow
  <2>3. /\ a \in Openers /\ at[a].pc \in Waiting
        /\ win' = [code |-> at[a].code, attempts |-> 0]
    BY <2>1, <2>2 DEF WriteWindow, Waiting
  <2>4. Unused(at[a].code)
    BY <2>3 DEF PairInv, SafeInv, DrawnInv
  <2> QED
    BY <2>3, <2>4 DEF Unused
<1> QED
  BY <1>1, PairingInvariant, PTL DEF Spec, ClosedStaysClosed
=============================================================================
