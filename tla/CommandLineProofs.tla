--------------------------- MODULE CommandLineProofs ---------------------------
(***************************************************************************)
(* Theorems about the commands of reder.                                   *)
(*                                                                         *)
(* Of DaemonStart and ServiceControl, for every set of instances and any   *)
(* number of kills and commands: what the PID lock achieves when instances *)
(* are started one at a time, and what it does when starts overlap; that   *)
(* commands and systemd do to instances only what DaemonStart allows, so   *)
(* its lock does the same under them; and that the token of a printed URL  *)
(* is the one that instances accept, until one that missed it replaces it. *)
(*                                                                         *)
(* Of SessionSetup, which shares no variable with them, for every set of   *)
(* sessions, projects and processes and any number of commands and kills:  *)
(* that an add, a remove, a repair or a restart that nothing comes between *)
(* does what it says, whatever was left behind before it, and leaves the   *)
(* other sessions theirs.                                                  *)
(***************************************************************************)
EXTENDS ServiceControl, SessionSetup, TLAPS

-----------------------------------------------------------------------------
(* The lock of DaemonStart                                                 *)

NoneServes == \A q \in Pids : phase[q] \notin Serving

\* Instances start one at a time.
OneStarts ==
    \A p, q \in Pids : phase[p] \in Starting /\ phase[q] \in Starting => p = q

\* Nobody takes the lock from the instance that has created it.
CreatorHoldsLock == \A p \in Pids : phase[p] = "created" => pidFile = p

\* What an instance has read of the lock is about the one that serves, if one
\* does: an empty lock, or the pid of a dead instance, is nobody's who serves.
ReadingIsCurrent ==
    \A p \in Pids :
      /\ phase[p] = "checking" =>
           \A q \in Pids : phase[q] \in Serving => seen[p] = q
      /\ phase[p] = "removing" => NoneServes

\* An instance that serves has its lock, complete.
EachHoldsLock == \A p \in Pids : phase[p] \in Serving => pidFile = p /\ p \in written

\* What holds as long as starts do not overlap.
OneByOne ==
    /\ TypeOK
    /\ OneStarts
    /\ CreatorHoldsLock
    /\ EachHoldsLock
    /\ ReadingIsCurrent

\* Whoever is past the lock holds it or was robbed, and has written his pid if he serves.
HoldsOrRobbed ==
    \A p \in Pids :
      /\ phase[p] \in Locked => pidFile = p \/ p \in robbed
      /\ phase[p] \in Serving => p \in written

\* An instance whose pid was read has been past the lock; if it was judged dead it is,
\* and as no pid is used twice it stays dead.
JudgedDead ==
    /\ \A q \in written : phase[q] \in Serving \cup {"gone"}
    /\ \A p \in Pids : phase[p] \in {"checking", "removing"} /\ seen[p] # None =>
         /\ seen[p] \in written
         /\ phase[p] = "removing" => phase[seen[p]] = "gone"

IInv ==
    /\ TypeOK
    /\ HoldsOrRobbed
    /\ JudgedDead
    /\ apart => OneByOne /\ robbed = {}

-----------------------------------------------------------------------------
(* Types                                                                   *)

\* Goto changes the phase of one instance.
LEMMA GotoEffect ==
  ASSUME TypeOK, NEW p \in Pids, NEW x, Goto(p, x)
  PROVE  \A q \in Pids : phase'[q] = IF q = p THEN x ELSE phase[q]
BY DEF TypeOK, Goto

\* Every step of an instance keeps the types.
LEMMA NextType == TypeOK /\ [Next]_vars => TypeOK'
<1> SUFFICES ASSUME TypeOK, [Next]_vars PROVE TypeOK'
  OBVIOUS
<1> USE DEF TypeOK, Starting, Serving, Goto
<1>1. ASSUME NEW p \in Pids, Start(p) \/ UnlinkSocket(p) \/ Bind(p) PROVE TypeOK'
  BY <1>1 DEF Start, UnlinkSocket, Bind, history
<1>2. ASSUME NEW p \in Pids, CreateLock(p) \/ WritePid(p) \/ LockExists(p) PROVE TypeOK'
  BY <1>2 DEF CreateLock, WritePid, LockExists, Ready, history
<1>3. ASSUME NEW p \in Pids, ReadLock(p) PROVE TypeOK'
  BY <1>3 DEF ReadLock, history
<1>4. ASSUME NEW p \in Pids, CheckOwner(p) \/ RemoveLock(p) \/ Refused(p) PROVE TypeOK'
  BY <1>4 DEF CheckOwner, RemoveLock, Refused, history
<1>5. ASSUME NEW p \in Pids, Signal(p) \/ CloseSocket(p) \/ ReleaseLock(p) PROVE TypeOK'
  BY <1>5 DEF Signal, CloseSocket, ReleaseLock, history
<1>6. ASSUME NEW p \in Pids, Kill(p) PROVE TypeOK'
  BY <1>6 DEF Kill, history
<1>7. CASE UNCHANGED vars
  BY <1>7 DEF vars, history
<1> QED BY <1>1, <1>2, <1>3, <1>4, <1>5, <1>6, <1>7 DEF Next, Step

\* Before any instance has run, nothing exists.
LEMMA InitType == Init => TypeOK
BY DEF Init, TypeOK

\* Every variable keeps its type.
THEOREM TypeCorrect == Safety => []TypeOK
BY InitType, NextType, PTL DEF Safety

-----------------------------------------------------------------------------
(* The lock, when starts do not overlap                                    *)

\* Without instances the invariant holds.
LEMMA InitOneByOne == Init => OneByOne
BY InitType DEF Init, OneByOne, OneStarts, CreatorHoldsLock, EachHoldsLock, ReadingIsCurrent,
   Starting, Serving

\* A step that moves one instance, not to "created", "checking", "removing" or
\* to serving, and leaves the lock alone, keeps OneByOne.
LEMMA OtherPhase ==
  ASSUME OneByOne, TypeOK', NEW p \in Pids, NEW x, Goto(p, x),
         UNCHANGED <<seen, pidFile>>, written' = written,
         x \notin Serving \cup {"created", "checking", "removing"},
         x \in Starting => phase[p] \in Starting \/ \A q \in Pids : phase[q] \notin Starting
  PROVE  OneByOne'
<1>1. \A q \in Pids : phase'[q] = IF q = p THEN x ELSE phase[q]
  BY GotoEffect DEF OneByOne
<1>2. OneStarts'
  BY <1>1 DEF OneByOne, OneStarts
<1>3. CreatorHoldsLock' /\ EachHoldsLock'
  BY <1>1 DEF OneByOne, CreatorHoldsLock, EachHoldsLock
<1>4. ReadingIsCurrent'
  BY <1>1 DEF OneByOne, ReadingIsCurrent, NoneServes
<1> QED BY <1>2, <1>3, <1>4 DEF OneByOne

\* Starting up to the lock: the socket path is not part of the invariant.
LEMMA BootKeepsOneByOne ==
  ASSUME apart', OneByOne, TypeOK', NEW p \in Pids,
         Start(p) \/ UnlinkSocket(p) \/ Bind(p) \/ LockExists(p) \/ Refused(p)
  PROVE  OneByOne'
<1>1. PICK x \in {"booting", "unlinked", "locking", "reading", "gone"} :
        /\ Goto(p, x)
        /\ x \in Starting => phase[p] \in Starting \/ \A q \in Pids : phase[q] \notin Starting
  BY DEF Start, UnlinkSocket, Bind, LockExists, Refused, Starting
<1>2. UNCHANGED <<seen, pidFile>> /\ written' = written
  BY DEF Start, UnlinkSocket, Bind, LockExists, Refused
<1>3. x \notin Serving \cup {"created", "checking", "removing"}
  BY DEF Serving
<1> QED BY <1>1, <1>2, <1>3, OtherPhase

\* The lock is created only where no lock is, so where nobody serves.
LEMMA CreateKeepsOneByOne ==
  ASSUME OneByOne, TypeOK', NEW p \in Pids, CreateLock(p)
  PROVE  OneByOne'
<1>1. \A q \in Pids : phase'[q] = IF q = p THEN "created" ELSE phase[q]
  BY GotoEffect DEF OneByOne, CreateLock
<1>2. NoneServes /\ pidFile' = p /\ phase[p] = "locking"
  BY DaemonStartAssumption DEF OneByOne, CreateLock, LockIsFree, EachHoldsLock, NoneServes
<1>3. phase[p] \in Starting /\ "created" \notin Serving
  BY <1>2 DEF Starting, Serving
<1>4. OneStarts'
  BY <1>1, <1>3 DEF OneByOne, OneStarts
<1>5. \A q \in Pids : phase'[q] \notin Serving
  BY <1>1, <1>2, <1>3 DEF NoneServes
<1>6. CreatorHoldsLock'
  BY <1>1, <1>2, <1>3 DEF OneByOne, OneStarts, CreatorHoldsLock, Starting
<1>7. EachHoldsLock' /\ ReadingIsCurrent'
  BY <1>5 DEF EachHoldsLock, ReadingIsCurrent, NoneServes
<1> QED BY <1>4, <1>6, <1>7 DEF OneByOne

\* The creator writes its pid into the lock it still holds, and serves.  No
\* other instance is starting, so none has read the lock before.
LEMMA WriteKeepsOneByOne ==
  ASSUME OneByOne, TypeOK', NEW p \in Pids, WritePid(p)
  PROVE  OneByOne'
<1>1. \A q \in Pids : phase'[q] = IF q = p THEN "ready" ELSE phase[q]
  BY GotoEffect DEF OneByOne, WritePid, Ready
<1>2. /\ phase[p] = "created" /\ pidFile = p /\ pidFile' = p
      /\ written' = written \cup {p}
  BY DEF OneByOne, WritePid, CreatorHoldsLock
<1>3. "created" \in Starting /\ "ready" \notin Starting
  BY DEF Starting
<1>4. \A q \in Pids : phase'[q] \notin Starting
  BY <1>1, <1>2, <1>3 DEF OneByOne, OneStarts
<1>5. OneStarts'
  BY <1>4 DEF OneStarts
<1>6. CreatorHoldsLock' /\ ReadingIsCurrent'
  BY <1>4 DEF CreatorHoldsLock, ReadingIsCurrent, Starting
<1>7. EachHoldsLock'
  BY <1>1, <1>2 DEF OneByOne, EachHoldsLock
<1> QED BY <1>5, <1>6, <1>7 DEF OneByOne

\* What is read is the lock of the one that serves, or an empty lock, or none.
LEMMA ReadKeepsOneByOne ==
  ASSUME OneByOne, TypeOK', NEW p \in Pids, ReadLock(p)
  PROVE  OneByOne'
<1>1. CASE pidFile = None
  <2>1. Goto(p, "gone") /\ UNCHANGED <<seen, pidFile>> /\ written' = written
    BY <1>1 DEF ReadLock
  <2>2. "gone" \notin Serving \cup {"created", "checking", "removing"} /\ "gone" \notin Starting
    BY DEF Serving, Starting
  <2> QED BY <2>1, <2>2, OtherPhase
<1>2. CASE pidFile # None
  <2>1. \A q \in Pids : phase'[q] = IF q = p THEN "checking" ELSE phase[q]
    BY <1>2, GotoEffect DEF OneByOne, ReadLock
  <2>2. /\ phase[p] = "reading" /\ UNCHANGED <<pidFile, written>>
        /\ seen' = [seen EXCEPT ![p] = IF pidFile \in written THEN pidFile ELSE None]
    BY <1>2 DEF ReadLock
  <2>3. phase[p] \in Starting /\ "checking" \notin Serving
    BY <2>2 DEF Starting, Serving
  <2>4. OneStarts'
    BY <2>1, <2>3 DEF OneByOne, OneStarts
  <2>5. CreatorHoldsLock' /\ EachHoldsLock'
    BY <2>1, <2>2, <2>3 DEF OneByOne, CreatorHoldsLock, EachHoldsLock
  <2>6. ASSUME NEW q \in Pids, phase'[q] \in Serving PROVE seen'[p] = q
    BY <2>1, <2>2, <2>3, <2>6 DEF OneByOne, EachHoldsLock, TypeOK
  <2>7. ASSUME NEW r \in Pids, phase'[r] \in {"checking", "removing"} PROVE r = p
    BY <2>1, <2>3, <2>7 DEF OneByOne, OneStarts, Starting
  <2>8. ReadingIsCurrent'
    BY <2>1, <2>6, <2>7 DEF ReadingIsCurrent
  <2> QED BY <2>4, <2>5, <2>8 DEF OneByOne
<1> QED BY <1>1, <1>2

\* A lock is found stale only when nobody serves: the one that does would be
\* the instance whose pid was read, and it is alive.
LEMMA CheckKeepsOneByOne ==
  ASSUME OneByOne, TypeOK', NEW p \in Pids, CheckOwner(p)
  PROVE  OneByOne'
<1>1. phase[p] = "checking" /\ UNCHANGED <<seen, pidFile>> /\ written' = written
  BY DEF CheckOwner
<1>2. phase[p] \in Starting
  BY <1>1 DEF Starting
<1>3. CASE ~Stale(p)
  <2>1. Goto(p, "refused")
    BY <1>3 DEF CheckOwner
  <2>2. "refused" \notin Serving \cup {"created", "checking", "removing"}
    BY DEF Serving
  <2> QED BY <1>1, <1>2, <2>1, <2>2, OtherPhase
<1>4. CASE Stale(p)
  <2>1. \A q \in Pids : phase'[q] = IF q = p THEN "removing" ELSE phase[q]
    BY <1>4, GotoEffect DEF OneByOne, CheckOwner
  <2>2. ASSUME NEW q \in Pids, phase[q] \in Serving PROVE FALSE
    <3>1. seen[p] = q
      BY <1>1, <2>2 DEF OneByOne, ReadingIsCurrent
    <3>2. Alive(q) /\ q # None
      BY <2>2, DaemonStartAssumption DEF Alive, Serving
    <3> QED BY <1>4, <3>1, <3>2 DEF Stale
  <2>3. "removing" \in Starting /\ "removing" \notin Serving
    BY DEF Starting, Serving
  <2>4. OneStarts'
    BY <1>2, <2>1 DEF OneByOne, OneStarts
  <2>5. \A q \in Pids : phase'[q] \notin Serving
    BY <2>1, <2>2, <2>3
  <2>6. EachHoldsLock' /\ ReadingIsCurrent'
    BY <2>5 DEF EachHoldsLock, ReadingIsCurrent, NoneServes
  <2>7. CreatorHoldsLock'
    BY <1>1, <2>1 DEF OneByOne, CreatorHoldsLock
  <2> QED BY <2>4, <2>6, <2>7 DEF OneByOne
<1> QED BY <1>3, <1>4

\* A stale lock is removed while nobody serves and nobody else starts.
LEMMA RemoveKeepsOneByOne ==
  ASSUME OneByOne, TypeOK', NEW p \in Pids, RemoveLock(p)
  PROVE  OneByOne'
<1>1. phase[p] = "removing" /\ NoneServes
  BY DEF RemoveLock, OneByOne, ReadingIsCurrent
<1>2. PICK x \in {"gone", "locking"} :
        \A q \in Pids : phase'[q] = IF q = p THEN x ELSE phase[q]
  BY GotoEffect DEF OneByOne, RemoveLock
<1>3. phase[p] \in Starting /\ x \notin Serving
  BY <1>1 DEF Starting, Serving
<1>4. OneStarts'
  BY <1>2, <1>3 DEF OneByOne, OneStarts
<1>5. \A q \in Pids : phase'[q] \notin Serving
  BY <1>1, <1>2, <1>3 DEF NoneServes
<1>6. EachHoldsLock' /\ ReadingIsCurrent'
  BY <1>5 DEF EachHoldsLock, ReadingIsCurrent, NoneServes
<1>7. ASSUME NEW q \in Pids, phase'[q] = "created" PROVE FALSE
  BY <1>2, <1>3, <1>7 DEF OneByOne, OneStarts, Starting
<1> QED BY <1>4, <1>6, <1>7 DEF OneByOne, CreatorHoldsLock

\* The instance that serves stops: its lock is the one it removes.
LEMMA StopKeepsOneByOne ==
  ASSUME OneByOne, TypeOK', NEW p \in Pids, Signal(p) \/ CloseSocket(p) \/ ReleaseLock(p)
  PROVE  OneByOne'
<1>1. phase[p] \in Serving /\ pidFile = p /\ p \in written
  BY DEF Signal, CloseSocket, ReleaseLock, Serving, OneByOne, EachHoldsLock
<1>2. PICK x \in {"stopping", "releasing", "gone"} :
        /\ \A q \in Pids : phase'[q] = IF q = p THEN x ELSE phase[q]
        /\ x = "gone" \/ pidFile' = pidFile
  BY GotoEffect DEF OneByOne, Signal, CloseSocket, ReleaseLock
<1>3. UNCHANGED <<seen, written>>
  BY DEF Signal, CloseSocket, ReleaseLock
<1>4. x \notin Starting /\ "gone" \notin Serving
  BY DEF Starting, Serving
<1>5. OneStarts'
  BY <1>2, <1>4 DEF OneByOne, OneStarts
<1>6. \A q \in Pids : phase'[q] \in Serving => q = p /\ phase[q] \in Serving /\ pidFile' = pidFile
  BY <1>1, <1>2, <1>4 DEF OneByOne, EachHoldsLock
<1>7. EachHoldsLock'
  BY <1>1, <1>3, <1>6 DEF EachHoldsLock
<1>8. \A q \in Pids : phase'[q] \in Starting => phase[q] = phase'[q] /\ q # p
  BY <1>2, <1>4
<1>9. ReadingIsCurrent'
  BY <1>3, <1>6, <1>8 DEF OneByOne, ReadingIsCurrent, NoneServes, Starting
<1>10. ASSUME NEW q \in Pids, phase'[q] = "created" PROVE FALSE
  BY <1>1, <1>8, <1>10 DEF OneByOne, CreatorHoldsLock, Starting
<1> QED BY <1>5, <1>7, <1>9, <1>10 DEF OneByOne, CreatorHoldsLock

\* A killed instance leaves its lock and is gone.
LEMMA KillKeepsOneByOne ==
  ASSUME OneByOne, TypeOK', NEW p \in Pids, Kill(p)
  PROVE  OneByOne'
<1>1. Goto(p, "gone") /\ UNCHANGED <<seen, pidFile>> /\ written' = written
  BY DEF Kill
<1>2. "gone" \notin Serving \cup {"created", "checking", "removing"} /\ "gone" \notin Starting
  BY DEF Serving, Starting
<1> QED BY <1>1, <1>2, OtherPhase

\* Every step keeps OneByOne: one case per group of actions.
LEMMA NextKeepsOneByOne == apart' /\ OneByOne /\ [Next]_vars => OneByOne'
<1> SUFFICES ASSUME apart', OneByOne, [Next]_vars PROVE OneByOne'
  OBVIOUS
<1>1. TypeOK'
  BY NextType DEF OneByOne
<1>2. ASSUME NEW p \in Pids,
             Start(p) \/ UnlinkSocket(p) \/ Bind(p) \/ LockExists(p) \/ Refused(p)
      PROVE  OneByOne'
  BY <1>1, <1>2, BootKeepsOneByOne
<1>3. ASSUME NEW p \in Pids, CreateLock(p) \/ WritePid(p) PROVE OneByOne'
  BY <1>1, <1>3, CreateKeepsOneByOne, WriteKeepsOneByOne
<1>4. ASSUME NEW p \in Pids, ReadLock(p) \/ CheckOwner(p) \/ RemoveLock(p) PROVE OneByOne'
  BY <1>1, <1>4, ReadKeepsOneByOne, CheckKeepsOneByOne, RemoveKeepsOneByOne
<1>5. ASSUME NEW p \in Pids, Signal(p) \/ CloseSocket(p) \/ ReleaseLock(p) PROVE OneByOne'
  BY <1>1, <1>5, StopKeepsOneByOne
<1>6. ASSUME NEW p \in Pids, Kill(p) PROVE OneByOne'
  BY <1>1, <1>6, KillKeepsOneByOne
<1>7. CASE UNCHANGED vars
  BY <1>1, <1>7 DEF vars, OneByOne, OneStarts, CreatorHoldsLock, EachHoldsLock,
     ReadingIsCurrent, NoneServes
<1> QED BY <1>2, <1>3, <1>4, <1>5, <1>6, <1>7 DEF Next, Step

-----------------------------------------------------------------------------
(* The lock, whatever overlaps                                             *)

\* An instance is robbed by a step on the name of the lock only; once starts have
\* overlapped they have.
LEMMA HistoryKept ==
  ASSUME [Next]_vars
  PROVE  /\ apart' => apart
         /\ robbed' = robbed \/ \E p \in Pids : RemoveLock(p) \/ ReleaseLock(p)
<1>1. ASSUME NEW p \in Pids, Start(p)
      PROVE  robbed' = robbed /\ (apart' => apart)
  BY <1>1 DEF Start
<1>2. ASSUME NEW p \in Pids, Step(p) \/ Signal(p) \/ Kill(p)
      PROVE  /\ apart' = apart
             /\ robbed' = robbed \/ RemoveLock(p) \/ ReleaseLock(p)
  BY <1>2 DEF Step, UnlinkSocket, Bind, CreateLock, WritePid, LockExists, ReadLock, CheckOwner,
     RemoveLock, Refused, Signal, CloseSocket, ReleaseLock, Kill, history
<1>3. CASE UNCHANGED vars
  BY <1>3 DEF vars, history
<1> QED BY <1>1, <1>2, <1>3 DEF Next

\* While starts do not overlap nobody is robbed: a stale lock is removed while no other
\* instance is past the lock, and who releases one has not been robbed.
LEMMA NobodyIsRobbed ==
  ASSUME OneByOne, robbed = {}, [Next]_vars
  PROVE  robbed' = {}
<1>1. ASSUME NEW p \in Pids, RemoveLock(p)
      PROVE  robbed' = {}
  <2>1. phase[p] = "removing" /\ NoneServes
    BY <1>1 DEF RemoveLock, OneByOne, ReadingIsCurrent
  <2>2. ASSUME NEW q \in Pids PROVE phase[q] \notin Locked
    <3>1. phase[q] = "created" => q = p
      BY <2>1 DEF OneByOne, OneStarts, Starting
    <3> QED BY <2>1, <3>1 DEF NoneServes, Locked
  <2>3. robbed' = robbed \cup {q \in Pids : q = pidFile /\ q # seen[p] /\ phase[q] \in Locked}
    BY <1>1 DEF RemoveLock
  <2> QED BY <2>2, <2>3
<1>2. ASSUME NEW p \in Pids, ReleaseLock(p)
      PROVE  robbed' = {}
  BY <1>2 DEF ReleaseLock
<1> QED BY <1>1, <1>2, HistoryKept

\* A step of p that leaves the lock alone and takes p nowhere past it keeps what is
\* known of the others.
LEMMA HolderStays ==
  ASSUME TypeOK, HoldsOrRobbed, NEW p \in Pids, NEW x, Goto(p, x),
         robbed' = robbed, pidFile' = pidFile, written \subseteq written',
         x \in Locked => phase[p] \in Locked,
         x \in Serving => p \in written'
  PROVE  HoldsOrRobbed'
<1>1. \A q \in Pids : phase'[q] = IF q = p THEN x ELSE phase[q]
  BY GotoEffect
<1> QED BY <1>1 DEF HoldsOrRobbed

\* So does one that takes the name away or gives it to p, if the holder is robbed by it.
LEMMA HolderRobbed ==
  ASSUME TypeOK, HoldsOrRobbed, NEW p \in Pids, NEW x, Goto(p, x),
         robbed \subseteq robbed', written' = written,
         x \notin Serving, x = "created" => pidFile' = p,
         \A q \in Pids : q # p /\ q = pidFile /\ phase[q] \in Locked => q \in robbed'
  PROVE  HoldsOrRobbed'
<1>1. \A q \in Pids : phase'[q] = IF q = p THEN x ELSE phase[q]
  BY GotoEffect
<1>2. ASSUME NEW q \in Pids, q # p
      PROVE  /\ phase'[q] \in Locked => q \in robbed'
             /\ phase'[q] \in Serving => q \in written'
  BY <1>1, <1>2 DEF HoldsOrRobbed
<1>3. phase'[p] \in Locked => pidFile' = p
  BY <1>1 DEF Locked
<1> QED BY <1>1, <1>2, <1>3 DEF HoldsOrRobbed

\* Of a lock that is removed for another's the owner is robbed; the one whose pid
\* was read is dead.
LEMMA NextHolds ==
  ASSUME TypeOK, HoldsOrRobbed, JudgedDead, [Next]_vars
  PROVE  HoldsOrRobbed'
<1> USE DEF Locked, Serving
<1>1. ASSUME NEW p \in Pids, Start(p) \/ UnlinkSocket(p) \/ Bind(p) \/ LockExists(p) \/ Refused(p)
      PROVE  HoldsOrRobbed'
  <2>1. PICK x \in {"booting", "unlinked", "locking", "reading", "gone"} : Goto(p, x)
    BY <1>1 DEF Start, UnlinkSocket, Bind, LockExists, Refused
  <2>2. robbed' = robbed /\ pidFile' = pidFile /\ written' = written
    BY <1>1 DEF Start, UnlinkSocket, Bind, LockExists, Refused, history
  <2> QED BY <2>1, <2>2, HolderStays
<1>2. ASSUME NEW p \in Pids, CreateLock(p) PROVE HoldsOrRobbed'
  <2>1. /\ Goto(p, "created") /\ pidFile = None /\ pidFile' = p
        /\ robbed' = robbed /\ written' = written
    BY <1>2 DEF CreateLock, LockIsFree, history
  <2> QED BY <2>1, HolderRobbed, DaemonStartAssumption
<1>3. ASSUME NEW p \in Pids, WritePid(p) PROVE HoldsOrRobbed'
  <2>1. /\ Goto(p, "ready") /\ phase[p] = "created" /\ pidFile' = pidFile
        /\ robbed' = robbed /\ written' = written \cup {p}
    BY <1>3 DEF WritePid, Ready, history
  <2> QED BY <2>1, HolderStays
<1>4. ASSUME NEW p \in Pids, ReadLock(p) \/ CheckOwner(p) PROVE HoldsOrRobbed'
  <2>1. PICK x \in {"gone", "checking", "removing", "refused"} : Goto(p, x)
    BY <1>4 DEF ReadLock, CheckOwner
  <2>2. robbed' = robbed /\ pidFile' = pidFile /\ written' = written
    BY <1>4 DEF ReadLock, CheckOwner, history
  <2> QED BY <2>1, <2>2, HolderStays
<1>5. ASSUME NEW p \in Pids, RemoveLock(p) PROVE HoldsOrRobbed'
  <2>1. PICK x \in {"gone", "locking"} : Goto(p, x)
    BY <1>5 DEF RemoveLock
  <2>2. /\ phase[p] = "removing" /\ written' = written
        /\ robbed' = robbed \cup {q \in Pids : q = pidFile /\ q # seen[p] /\ phase[q] \in Locked}
    BY <1>5 DEF RemoveLock
  <2>3. ASSUME NEW q \in Pids, q = pidFile, phase[q] \in Locked PROVE q \in robbed'
    <3>1. q # seen[p]
      BY <2>2, <2>3, DaemonStartAssumption DEF JudgedDead
    <3> QED BY <2>2, <2>3, <3>1
  <2>4. robbed \subseteq robbed' /\ x \notin Locked
    BY <2>2
  <2> QED BY <2>1, <2>2, <2>3, <2>4, HolderRobbed
<1>6. ASSUME NEW p \in Pids, ReleaseLock(p) PROVE HoldsOrRobbed'
  <2>1. /\ Goto(p, "gone") /\ phase[p] = "releasing" /\ written' = written
        /\ robbed' = robbed \cup {q \in Pids : q = pidFile /\ q # p /\ p \in robbed}
    BY <1>6 DEF ReleaseLock
  <2>2. ASSUME NEW q \in Pids, q # p, q = pidFile PROVE q \in robbed'
    <3>1. p \in robbed
      BY <2>1, <2>2 DEF HoldsOrRobbed
    <3> QED BY <2>1, <2>2, <3>1
  <2> QED BY <2>1, <2>2, HolderRobbed
<1>7. ASSUME NEW p \in Pids, Signal(p) \/ CloseSocket(p) \/ Kill(p) PROVE HoldsOrRobbed'
  <2>1. PICK x \in {"stopping", "releasing", "gone"} :
          Goto(p, x) /\ (x # "gone" => phase[p] \in Serving)
    BY <1>7 DEF Signal, CloseSocket, Kill
  <2>2. robbed' = robbed /\ pidFile' = pidFile /\ written' = written
    BY <1>7 DEF Signal, CloseSocket, Kill, history
  <2>3. x \in Serving => p \in written'
    BY <2>1, <2>2 DEF HoldsOrRobbed
  <2> QED BY <2>1, <2>2, <2>3, HolderStays
<1>8. CASE UNCHANGED vars
  BY <1>8 DEF vars, history, HoldsOrRobbed
<1> QED BY <1>1, <1>2, <1>3, <1>4, <1>5, <1>6, <1>7, <1>8 DEF Next, Step

\* What was read and judged stays so under the steps of all.
LEMMA JudgementStays ==
  ASSUME TypeOK, JudgedDead, NEW p \in Pids, NEW x, Goto(p, x), written' = written,
         seen' = seen \/ x = "gone",
         \A q \in Pids \ {p} : seen'[q] = seen[q],
         x \notin {"checking", "removing"},
         p \in written => x \in Serving \cup {"gone"},
         phase[p] # "gone"
  PROVE  JudgedDead'
<1>1. \A q \in Pids : phase'[q] = IF q = p THEN x ELSE phase[q]
  BY GotoEffect
<1>2. \A q \in written' : phase'[q] \in Serving \cup {"gone"}
  BY <1>1 DEF JudgedDead, TypeOK
<1>3. ASSUME NEW q \in Pids, phase'[q] \in {"checking", "removing"}, seen'[q] # None
      PROVE  /\ seen'[q] \in written'
             /\ phase'[q] = "removing" => phase'[seen'[q]] = "gone"
  <2>1. q # p /\ phase[q] = phase'[q] /\ seen'[q] = seen[q]
    BY <1>1, <1>3
  <2>2. seen[q] \in written /\ seen[q] \in Pids /\ (phase[q] = "removing" => phase[seen[q]] = "gone")
    BY <1>3, <2>1 DEF JudgedDead, TypeOK
  <2> QED BY <1>1, <2>1, <2>2
<1> QED BY <1>2, <1>3 DEF JudgedDead

LEMMA NextJudged ==
  ASSUME TypeOK, TypeOK', JudgedDead, [Next]_vars
  PROVE  JudgedDead'
<1> USE DEF Serving
<1>1. ASSUME NEW p \in Pids,
             Start(p) \/ UnlinkSocket(p) \/ Bind(p) \/ CreateLock(p) \/ LockExists(p)
               \/ RemoveLock(p) \/ Refused(p) \/ Signal(p) \/ CloseSocket(p) \/ ReleaseLock(p)
               \/ Kill(p)
      PROVE  JudgedDead'
  <2>1. PICK x : Goto(p, x) /\ x \notin {"checking", "removing"}
          /\ (phase[p] \in Serving => x \in Serving \cup {"gone"})
    BY <1>1 DEF Start, UnlinkSocket, Bind, CreateLock, LockExists, RemoveLock, Refused, Signal,
       CloseSocket, ReleaseLock, Kill
  <2>2. seen' = seen /\ written' = written /\ phase[p] # "gone"
    BY <1>1 DEF Start, UnlinkSocket, Bind, CreateLock, LockExists, RemoveLock, Refused, Signal,
       CloseSocket, ReleaseLock, Kill, Alive
  <2>3. p \in written => x \in Serving \cup {"gone"}
    BY <2>1, <2>2 DEF JudgedDead
  <2> QED BY <2>1, <2>2, <2>3, JudgementStays
<1>2. ASSUME NEW p \in Pids, WritePid(p) PROVE JudgedDead'
  <2>1. /\ \A q \in Pids : phase'[q] = IF q = p THEN "ready" ELSE phase[q]
        /\ phase[p] = "created" /\ seen' = seen /\ written' = written \cup {p}
    BY <1>2, GotoEffect DEF WritePid, Ready
  <2>2. \A q \in Pids : phase[q] = "gone" => phase'[q] = "gone"
    BY <2>1
  <2>3. ASSUME NEW q \in Pids, phase'[q] \in {"checking", "removing"}, seen'[q] # None
        PROVE  /\ seen'[q] \in written'
               /\ phase'[q] = "removing" => phase'[seen'[q]] = "gone"
    <3>1. q # p /\ phase[q] = phase'[q] /\ seen[q] \in Pids
      BY <2>1, <2>3 DEF TypeOK
    <3> QED BY <2>1, <2>2, <2>3, <3>1 DEF JudgedDead
  <2>4. \A q \in written' : phase'[q] \in Serving \cup {"gone"}
    BY <2>1 DEF JudgedDead, TypeOK
  <2> QED BY <2>3, <2>4 DEF JudgedDead
<1>3. ASSUME NEW p \in Pids, ReadLock(p) \/ CheckOwner(p) PROVE JudgedDead'
  <2>1. PICK x \in {"gone", "checking", "removing", "refused"} :
          \A q \in Pids : phase'[q] = IF q = p THEN x ELSE phase[q]
    BY <1>3, GotoEffect DEF ReadLock, CheckOwner
  <2>2. /\ phase[p] \in {"reading", "checking"} /\ written' = written /\ p \notin written
        /\ \A q \in Pids \ {p} : seen'[q] = seen[q]
    BY <1>3 DEF ReadLock, CheckOwner, JudgedDead, TypeOK
  <2>3. \A q \in written' : phase'[q] \in Serving \cup {"gone"}
    BY <2>1, <2>2 DEF JudgedDead, TypeOK
  <2>4. ASSUME NEW q \in Pids, q # p, phase'[q] \in {"checking", "removing"}, seen'[q] # None
        PROVE  /\ seen'[q] \in written'
               /\ phase'[q] = "removing" => phase'[seen'[q]] = "gone"
    <3>1. phase[q] = phase'[q] /\ seen'[q] = seen[q] /\ seen[q] \in Pids
      BY <2>1, <2>2, <2>4 DEF TypeOK
    <3>2. seen[q] \in written /\ (phase[q] = "removing" => phase[seen[q]] = "gone")
      BY <2>4, <3>1 DEF JudgedDead
    <3> QED BY <2>1, <2>2, <3>1, <3>2
  <2>5. ASSUME phase'[p] \in {"checking", "removing"}, seen'[p] # None
        PROVE  /\ seen'[p] \in written'
               /\ phase'[p] = "removing" => phase'[seen'[p]] = "gone"
    <3>1. CASE ReadLock(p)
      <4>1. /\ phase'[p] = "checking" /\ written' = written
            /\ seen'[p] = IF pidFile \in written THEN pidFile ELSE None
        BY <2>1, <2>5, <3>1 DEF ReadLock, Goto, TypeOK
      <4> QED BY <2>5, <4>1
    <3>2. CASE CheckOwner(p)
      <4>1. phase[p] = "checking" /\ seen' = seen /\ phase'[p] = "removing" /\ Stale(p)
        BY <2>1, <2>5, <3>2 DEF CheckOwner, Goto, TypeOK
      <4>2. seen[p] \in written /\ seen[p] \in Pids /\ phase[seen[p]] \in Serving \cup {"gone"}
        BY <2>5, <4>1 DEF JudgedDead, TypeOK
      <4>3. phase[seen[p]] = "gone"
        BY <2>5, <4>1, <4>2 DEF Stale, Alive
      <4>4. seen[p] # p
        BY <4>1, <4>3
      <4> QED BY <2>1, <2>2, <4>1, <4>2, <4>3, <4>4
    <3> QED BY <1>3, <3>1, <3>2
  <2> QED BY <2>3, <2>4, <2>5 DEF JudgedDead
<1>4. CASE UNCHANGED vars
  BY <1>4 DEF vars, JudgedDead
<1> QED BY <1>1, <1>2, <1>3, <1>4 DEF Next, Step

\* IInv holds throughout, whatever starts overlap and whatever is killed.
THEOREM Inductive == Safety => []IInv
<1>1. Init => IInv
  <2>1. Init => HoldsOrRobbed /\ JudgedDead
    BY DEF Init, HoldsOrRobbed, JudgedDead, Locked, Serving
  <2> QED BY <2>1, InitType, InitOneByOne DEF Init, IInv
<1>2. ASSUME IInv, [Next]_vars PROVE IInv'
  <2>1. TypeOK' /\ HoldsOrRobbed' /\ JudgedDead'
    BY <1>2, NextType, NextHolds, NextJudged DEF IInv
  <2>2. ASSUME apart' PROVE OneByOne' /\ robbed' = {}
    <3>1. apart
      BY <1>2, <2>2, HistoryKept
    <3> QED BY <1>2, <2>2, <3>1, NextKeepsOneByOne, NobodyIsRobbed DEF IInv
  <2> QED BY <2>1, <2>2 DEF IInv
<1>3. IInv /\ [Next]_vars => IInv'
  BY <1>2
<1> QED BY <1>1, <1>3, PTL DEF Safety

\* Whatever starts overlap, and through kills at every step and recoveries of stale
\* locks: an instance that serves has its own, complete lock file in place, or was
\* robbed of it by one that had not judged it (acquirePidLock reads the file and
\* unlinks the name), or by the release of a robbed one; and nobody is robbed as
\* long as starts do not overlap.
THEOREM TheServingHoldsTheLock == Safety => []ServingHoldsLock
<1>1. IInv => ServingHoldsLock
  <2> SUFFICES ASSUME IInv, NEW p \in Pids, phase[p] \in Serving
               PROVE  (pidFile = p /\ p \in written) \/ (p \in robbed /\ ~apart)
    BY DEF ServingHoldsLock
  <2>1. p \in written /\ (pidFile = p \/ p \in robbed)
    BY DEF IInv, HoldsOrRobbed, Locked
  <2>2. apart => robbed = {}
    BY DEF IInv
  <2> QED BY <2>1, <2>2
<1> QED BY <1>1, Inductive, PTL

\* So of the instances that serve at a time all but one were robbed.
THEOREM OneInstanceServes == Safety => []OneServing
<1>1. ServingHoldsLock => OneServing
  BY DEF ServingHoldsLock, OneServing
<1> QED BY <1>1, TheServingHoldsTheLock, PTL

-----------------------------------------------------------------------------
(* Commands and systemd over DaemonStart                                   *)

\* What systemd manages is an instance.
ManagedOK == managed \in Pids \cup {None}

\* Stopping is a signal, handled or not.
LEMMA TerminateIsNext ==
  ASSUME NEW p \in Pids, Terminate(p)
  PROVE  Signal(p) \/ Kill(p)
BY DEF Terminate

\* The commands that stop an instance signal one.
LEMMA StopIsNext ==
  ASSUME ManagedOK, TypeOK, UnitStop \/ DirectStop \/ EnableUnit
  PROVE  (\E p \in Pids : Signal(p) \/ Kill(p)) \/ UNCHANGED vars
<1>1. CASE UnitStop
  <2>1. CASE UnitRuns
    BY <1>1, <2>1, TerminateIsNext DEF UnitStop, UnitRuns, ManagedOK
  <2> QED BY <1>1, <2>1 DEF UnitStop
<1>2. CASE DirectStop
  <2>1. CASE pidFile # None /\ ~Empty /\ Alive(pidFile)
    <3>1. pidFile \in Pids /\ Terminate(pidFile)
      BY <1>2, <2>1 DEF DirectStop, TypeOK, Empty
    <3> QED BY <3>1, TerminateIsNext
  <2> QED BY <1>2, <2>1 DEF DirectStop
<1>3. CASE EnableUnit
  <2>1. CASE UnitRuns
    BY <1>3, <2>1, TerminateIsNext DEF EnableUnit, UnitRuns, ManagedOK
  <2> QED BY <1>3, <2>1 DEF EnableUnit
<1> QED BY <1>1, <1>2, <1>3

\* A launch is a start.
LEMMA LaunchIsNext ==
  ASSUME Launch \/ UnitEnabled
  PROVE  (\E p \in Pids : Launched(p)) \/ UNCHANGED <<vars, token>>
BY DEF Launch, UnitEnabled

\* Commands that neither start nor signal, and the token's.
LEMMA OtherIsStutter ==
  ASSUME RunStart \/ RunStop \/ RunRestart \/ RunInit \/ LookForPid \/ CheckPid
         \/ UnitStopped \/ WaitOver
  PROVE  UNCHANGED <<vars, token>>
BY DEF RunStart, RunStop, RunRestart, Command, RunInit, LookForPid, CheckPid, UnitStopped,
   WaitOver, Idle

\* Commands keep managed an instance.
LEMMA ManagedKept == ManagedOK /\ [ServiceNext]_allVars => ManagedOK'
<1> SUFFICES ASSUME ManagedOK, [ServiceNext]_allVars PROVE ManagedOK'
  OBVIOUS
<1> USE DEF ManagedOK, systemd
<1>1. CASE RunStart \/ RunStop \/ RunRestart \/ LookForPid \/ CheckPid \/ WaitOver
  BY <1>1 DEF RunStart, RunStop, RunRestart, Command, LookForPid, CheckPid, WaitOver, Idle
<1>2. CASE UnitStop \/ UnitStopped \/ DirectStop \/ RunInit \/ EnableUnit
  BY <1>2 DEF UnitStop, UnitStopped, DirectStop, RunInit, EnableUnit
<1>3. CASE Launch \/ UnitEnabled \/ \E p \in Pids : SystemdRestart(p)
  BY <1>3 DEF Launch, UnitEnabled, SystemdRestart
<1>4. CASE Rotate \/ WriteRotated \/ DashboardUrl
  BY <1>4 DEF Rotate, WriteRotated, DashboardUrl
<1>5. CASE \E p \in Pids : InstanceStep(p) \/ Crash(p)
  BY <1>5 DEF InstanceStep, LoadToken, CreateToken, DaemonStep, Crash
<1>6. CASE UNCHANGED allVars
  BY <1>6 DEF allVars
<1> QED BY <1>1, <1>2, <1>3, <1>4, <1>5, <1>6 DEF ServiceNext, Commands

\* Every step of ServiceControl is one of DaemonStart, or leaves its variables.
LEMMA StepIsNext ==
  ASSUME ManagedOK, TypeOK, [ServiceNext]_allVars
  PROVE  [Next]_vars
<1>1. CASE RunStart \/ RunStop \/ RunRestart \/ RunInit \/ LookForPid \/ CheckPid
           \/ UnitStopped \/ WaitOver
  BY <1>1, OtherIsStutter
<1>2. CASE UnitStop \/ DirectStop \/ EnableUnit
  BY <1>2, StopIsNext DEF Next
<1>3. CASE Launch \/ UnitEnabled \/ \E p \in Pids : SystemdRestart(p)
  BY <1>3, LaunchIsNext DEF SystemdRestart, Launched, Next
<1>4. CASE Rotate \/ WriteRotated \/ DashboardUrl
  BY <1>4 DEF Rotate, WriteRotated, DashboardUrl
<1>5. CASE \E p \in Pids : InstanceStep(p) \/ Crash(p)
  BY <1>5 DEF InstanceStep, LoadToken, CreateToken, DaemonStep, Crash, Next
<1>6. CASE UNCHANGED allVars
  BY <1>6 DEF allVars
<1> QED BY <1>1, <1>2, <1>3, <1>4, <1>5, <1>6 DEF ServiceNext, Commands

\* What commands, systemd and crashes do to the instances is a behaviour of
\* DaemonStart: whatever is proved of it holds under them.
THEOREM ImplementsDaemonStart == ServiceSpec => Safety
<1> DEFINE Types == TypeOK /\ ManagedOK
<1>1. ServiceInit => Init /\ Types
  BY InitType DEF ServiceInit, ManagedOK
<1>2. Types /\ [ServiceNext]_allVars => Types' /\ [Next]_vars
  BY StepIsNext, ManagedKept, NextType
<1> QED BY <1>1, <1>2, PTL DEF ServiceSpec, Safety

\* So an instance that serves holds its lock or was robbed of it in overlapping starts,
\* through restarts by hand and by systemd, at the same time or not, and stops
\* that come too early.
THEOREM ServiceHoldsTheLock == ServiceSpec => []ServingHoldsLock
BY TheServingHoldsTheLock, ImplementsDaemonStart, PTL

-----------------------------------------------------------------------------
(* The token of a printed URL                                              *)

\* What was printed last is what is on disk, if no instance has replaced it.
PrintedIsStored == handed # 0 /\ ~spoiled => file = handed

\* An instance that has not been started has no token.
UnstartedHasNone == \A p \in Pids : phase[p] = "off" => hash[p] = 0

TokenTypes ==
    /\ file \in Nat /\ minted \in Nat /\ handed \in Nat /\ spoiled \in BOOLEAN
    /\ hash \in [Pids -> Nat] /\ since \in SUBSET Pids

TInv ==
    /\ TokenTypes
    /\ PrintedIsStored
    /\ UnstartedHasNone
    /\ PrintedIsAccepted

\* Without instances and without URLs TInv holds.
LEMMA InitTInv == ServiceInit => TInv
<1> SUFFICES ASSUME ServiceInit PROVE TInv
  OBVIOUS
<1>1. /\ file \in Nat /\ minted = file /\ handed = 0 /\ since = {} /\ spoiled = FALSE
      /\ hash = [p \in Pids |-> 0]
  BY DEF ServiceInit
<1> QED BY <1>1 DEF TInv, TokenTypes, PrintedIsStored, UnstartedHasNone, PrintedIsAccepted

\* No step of DaemonStart leads an instance back to where it was not started.
LEMMA NobodyIsUnstarted ==
  ASSUME TypeOK, [Next]_vars, NEW q \in Pids, phase'[q] = "off"
  PROVE  phase[q] = "off"
<1>1. ASSUME NEW p \in Pids, Start(p) \/ Step(p) \/ Signal(p) \/ Kill(p)
      PROVE  \E x : x # "off" /\ Goto(p, x)
  BY <1>1 DEF Start, Step, UnlinkSocket, Bind, CreateLock, WritePid, LockExists, ReadLock,
     CheckOwner, RemoveLock, Refused, Signal, CloseSocket, ReleaseLock, Kill, Ready
<1>2. CASE Next
  BY <1>1, <1>2, GotoEffect DEF Next
<1>3. CASE UNCHANGED vars
  BY <1>3 DEF vars
<1> QED BY <1>2, <1>3

\* A step that leaves the tokens alone keeps TInv.
LEMMA QuietKeepsTInv ==
  ASSUME TInv, TypeOK, [Next]_vars, UNCHANGED token
  PROVE  TInv'
<1> USE DEF token
<1>1. TokenTypes' /\ PrintedIsStored' /\ PrintedIsAccepted'
  BY DEF TInv, TokenTypes, PrintedIsStored, PrintedIsAccepted
<1>2. UnstartedHasNone'
  BY NobodyIsUnstarted DEF TInv, UnstartedHasNone
<1> QED BY <1>1, <1>2 DEF TInv

\* An instance that is started has no token yet.
LEMMA LaunchKeepsTInv ==
  ASSUME TInv, TypeOK, [Next]_vars, NEW p \in Pids, Launched(p)
  PROVE  TInv'
<1>1. /\ phase[p] = "off" /\ since' = since \cup {p}
      /\ UNCHANGED <<file, minted, hash, handed, spoiled>>
  BY DEF Launched, Start
<1>2. TokenTypes' /\ PrintedIsStored'
  BY <1>1 DEF TInv, TokenTypes, PrintedIsStored
<1>3. UnstartedHasNone'
  BY <1>1, NobodyIsUnstarted DEF TInv, UnstartedHasNone
<1>4. PrintedIsAccepted'
  BY <1>1 DEF TInv, UnstartedHasNone, PrintedIsAccepted
<1> QED BY <1>2, <1>3, <1>4 DEF TInv

\* An instance reads the token that was printed last, if it has not been replaced, or
\* finds that there is none.
LEMMA LoadKeepsTInv ==
  ASSUME TInv, NEW p \in Pids, LoadToken(p)
  PROVE  TInv'
<1>1. /\ phase[p] = "locking" /\ UNCHANGED <<phase, file, minted, handed, since, spoiled>>
      /\ hash' = hash \/ hash' = [hash EXCEPT ![p] = file]
  BY DEF LoadToken, vars
<1>2. TokenTypes' /\ PrintedIsStored'
  BY <1>1 DEF TInv, TokenTypes, PrintedIsStored
<1>3. UnstartedHasNone'
  BY <1>1 DEF TInv, TokenTypes, UnstartedHasNone
<1>4. PrintedIsAccepted'
  BY <1>1 DEF TInv, TokenTypes, PrintedIsAccepted, PrintedIsStored
<1> QED BY <1>2, <1>3, <1>4 DEF TInv

\* An instance that had found no file writes its own over whatever is there: over
\* the token printed last, if that has not been replaced before.
LEMMA CreateKeepsTInv ==
  ASSUME TInv, NEW p \in Pids, CreateToken(p)
  PROVE  TInv'
<1>1. /\ phase[p] = "locking" /\ UNCHANGED <<phase, handed, since>>
      /\ minted' = minted + 1 /\ file' = minted + 1
      /\ hash' = [hash EXCEPT ![p] = minted + 1]
      /\ spoiled' = (spoiled \/ (file # 0 /\ file = handed))
  BY DEF CreateToken, TokenFound, vars
<1>2. handed # 0 => spoiled'
  BY <1>1 DEF TInv, TokenTypes, PrintedIsStored
<1>3. TokenTypes'
  BY <1>1 DEF TInv, TokenTypes
<1>4. PrintedIsStored' /\ PrintedIsAccepted'
  BY <1>1, <1>2 DEF PrintedIsStored, PrintedIsAccepted
<1>5. UnstartedHasNone'
  BY <1>1 DEF TInv, TokenTypes, UnstartedHasNone
<1> QED BY <1>3, <1>4, <1>5 DEF TInv

\* The commands for the token: what they print is on disk, and nobody has been
\* started since.
LEMMA TokenCommandKeepsTInv ==
  ASSUME TInv, Rotate \/ WriteRotated \/ DashboardUrl
  PROVE  TInv'
<1>1. phase' = phase /\ hash' = hash
  BY DEF Rotate, WriteRotated, DashboardUrl, vars
<1>2. UnstartedHasNone'
  BY <1>1 DEF TInv, UnstartedHasNone
<1>3. CASE Rotate
  <2>1. file' = 0 /\ handed' = 0 /\ UNCHANGED <<minted, since, spoiled>>
    BY <1>3 DEF Rotate
  <2> QED BY <1>1, <1>2, <2>1 DEF TInv, TokenTypes, PrintedIsStored, PrintedIsAccepted
<1>4. CASE WriteRotated
  <2>1. /\ file' = handed' /\ since' = {} /\ spoiled' = FALSE
        /\ minted' = minted + 1 /\ file' = minted + 1
    BY <1>4 DEF WriteRotated
  <2>2. TokenTypes'
    <3>1. file' \in Nat /\ minted' \in Nat /\ handed' \in Nat /\ since' \in SUBSET Pids
      BY <2>1 DEF TInv, TokenTypes
    <3>2. spoiled' \in BOOLEAN /\ hash' \in [Pids -> Nat]
      BY <1>1, <2>1 DEF TInv, TokenTypes
    <3> QED BY <3>1, <3>2 DEF TokenTypes
  <2>3. PrintedIsStored' /\ PrintedIsAccepted'
    BY <2>1 DEF PrintedIsStored, PrintedIsAccepted
  <2> QED BY <1>2, <2>2, <2>3 DEF TInv
<1>5. CASE DashboardUrl
  <2>1. /\ UNCHANGED <<file, minted>>
        /\ \/ handed' = file /\ since' = {} /\ spoiled' = FALSE
           \/ UNCHANGED <<handed, since, spoiled>>
    BY <1>5 DEF DashboardUrl
  <2> QED BY <1>1, <1>2, <2>1 DEF TInv, TokenTypes, PrintedIsStored, PrintedIsAccepted
<1> QED BY <1>3, <1>4, <1>5

\* Every step keeps TInv: one case per group of actions.
LEMMA NextKeepsTInv ==
  ASSUME ManagedOK, TypeOK, TInv, [ServiceNext]_allVars
  PROVE  TInv'
<1>1. [Next]_vars
  BY StepIsNext
<1>2. CASE RunStart \/ RunStop \/ RunRestart \/ RunInit \/ LookForPid \/ CheckPid
           \/ UnitStopped \/ WaitOver
  BY <1>1, <1>2, OtherIsStutter, QuietKeepsTInv
<1>3. CASE UnitStop \/ DirectStop \/ EnableUnit
  <2>1. UNCHANGED token
    BY <1>3 DEF UnitStop, DirectStop, EnableUnit
  <2> QED BY <1>1, <2>1, QuietKeepsTInv
<1>4. CASE Launch \/ UnitEnabled \/ \E p \in Pids : SystemdRestart(p)
  <2>1. (\E p \in Pids : Launched(p)) \/ UNCHANGED token
    BY <1>4 DEF Launch, UnitEnabled, SystemdRestart
  <2> QED BY <1>1, <2>1, LaunchKeepsTInv, QuietKeepsTInv
<1>5. CASE Rotate \/ WriteRotated \/ DashboardUrl
  BY <1>5, TokenCommandKeepsTInv
<1>6. ASSUME NEW p \in Pids, LoadToken(p) \/ CreateToken(p)
      PROVE  TInv'
  BY <1>6, LoadKeepsTInv, CreateKeepsTInv
<1>7. ASSUME NEW p \in Pids, DaemonStep(p) \/ Crash(p)
      PROVE  TInv'
  <2>1. UNCHANGED token
    BY <1>7 DEF DaemonStep, Crash
  <2> QED BY <1>1, <2>1, QuietKeepsTInv
<1>8. CASE UNCHANGED allVars
  <2>1. UNCHANGED token
    BY <1>8 DEF allVars
  <2> QED BY <1>1, <2>1, QuietKeepsTInv
<1> QED BY <1>2, <1>3, <1>4, <1>5, <1>6, <1>7, <1>8 DEF ServiceNext, Commands, InstanceStep

\* Every instance started after a URL was printed accepts its token, through crashes,
\* restarts and rotations that come between any two steps of an instance; unless an
\* instance that looked for a token file while there was none has written its own
\* over the one printed (loadOrCreateToken, auth.ts:55).
THEOREM PrintedTokenIsAccepted == ServiceSpec => []PrintedIsAccepted
<1>1. ServiceInit => ManagedOK /\ TInv
  BY InitTInv DEF ServiceInit, ManagedOK
<1>2. ManagedOK /\ TypeOK /\ TInv /\ [ServiceNext]_allVars => ManagedOK' /\ TInv'
  BY ManagedKept, NextKeepsTInv
<1>3. Safety => []TypeOK
  BY TypeCorrect
<1>4. TInv => PrintedIsAccepted
  BY DEF TInv
<1> QED BY <1>1, <1>2, <1>3, <1>4, ImplementsDaemonStart, PTL DEF ServiceSpec

-----------------------------------------------------------------------------
(* Commands that set up sessions: what is known of each at every step      *)

\* What a command at each step knows of its own work.
Formed(c) ==
    /\ c.op \in {"add", "repair", "remove", "bot"} => c.s \in Sessions
    /\ c.op = "add" => c.entry \in Entries /\ c.entry.dir \in Dirs
    /\ c.op = "remove" /\ c.step # "peek" => c.entry \in Entries
    /\ c.step \in {"unmcp", "unhook"} => c.op = "remove" /\ ~c.force /\ c.entry.dir \in Dirs
    /\ c.step \in {"write", "rename"} => c.op \in {"add", "remove", "bot"} /\ c.doc \in Documents
    /\ c.op \in {"up", "restart", "boot"} =>
         c.doc \in Documents /\ c.todo \subseteq Configured(c.doc)
    /\ c.step \in {"start", "new"} =>
         c.op \in {"up", "restart", "boot"} /\ c.todo \subseteq Placed(c.doc)
    /\ c.step = "new" => c.s \in Placed(c.doc)
    /\ c.op = "boot" /\ c.step = "hash" => c.s \in Sessions
    /\ c.op = "restart" => /\ c.s \in Placed(c.doc) /\ c.todo \subseteq {c.s}
                         /\ c.step \in {"kill", "start", "new"}
WellFormed == \A p \in Procs : Busy(p) => Formed(proc[p])

\* A command that is alone is the only one.
Solo == \A p, q \in Procs : Busy(p) /\ proc[p].alone /\ Busy(q) => p = q

\* What has been done by a command that is alone, step by step.
AddDone(c) ==
    LET s == c.s
        e == c.entry IN
    /\ c.step = "write" => c.doc = Upserted(yaml, s, e)
    /\ c.step = "rename" => draft = Upserted(yaml, s, e)
    /\ c.step \in {"hash", "token", "mcp", "hooks"} => yaml.sessions[s] = e
    /\ c.step \in {"token", "mcp", "hooks"} => db[s] = c.token
    /\ c.step \in {"mcp", "hooks"} => tokenFile[s] = c.token
    /\ c.step = "hooks" => mcp[e.dir] = s
RemoveDone(c) ==
    LET s == c.s
        d == c.entry.dir
        cleans == ~c.force /\ d # NoDir IN
    /\ c.step = "write" => c.doc = Unlisted(yaml, s)
    /\ c.step = "rename" => draft = Unlisted(yaml, s)
    /\ c.step = "untoken" => yaml.sessions[s] = Nothing
    /\ c.step \notin {"peek", "delete"} => db[s] = Nothing /\ s \notin bound
    /\ c.step \notin {"peek", "delete", "unmcp"} /\ cleans => mcp[d] # s
    /\ c.step \notin {"peek", "delete", "unmcp", "unhook"} /\ cleans /\ d \notin BadSettings =>
         s \notin hooks[d]
BotDone(c) ==
    /\ c.step = "write" => c.doc \in {WithBot(yaml, c.s), WithoutBot(yaml, c.s)}
    /\ c.step = "rename" => draft \in {WithBot(yaml, c.s), WithoutBot(yaml, c.s)}
RestartDone(c) ==
    LET s == c.s IN
    /\ c.doc = yaml
    /\ c.step = "kill" => c.todo = {s}
    /\ c.step = "start" /\ c.todo = {s} => tmux[s] = Nothing
    /\ c.step = "start" /\ c.todo = {} => tmux[s] # Nothing /\ tmux[s].dir = yaml.sessions[s].dir
    /\ c.step = "new" => c.todo = {} /\ tmux[s] = Nothing
HasDone(c) ==
    /\ c.op = "add" => AddDone(c)
    /\ c.op = "remove" => RemoveDone(c)
    /\ c.op = "bot" => BotDone(c)
    /\ c.op = "restart" => RestartDone(c)
DoneAlone == \A p \in Procs : Busy(p) /\ proc[p].alone => HasDone(proc[p])

SetupInv == SetupTypeOK /\ WellFormed /\ Solo /\ DoneAlone

-----------------------------------------------------------------------------
(* One command takes a step                                                *)

\* p is over, or c is what it has become.
Does(p, c) ==
    /\ proc' = [proc EXCEPT ![p] = c]
    /\ c # Nothing =>
         /\ c \in Processes /\ Formed(c)
         /\ c.alone = proc[p].alone
         /\ c.alone => HasDone(c)'

\* A step of p is no other command's business: one that is alone has no other.
LEMMA OneDoes ==
    ASSUME SetupTypeOK, WellFormed, Solo, NEW p \in Procs, Busy(p), NEW c, Does(p, c)
    PROVE  proc' \in [Procs -> Processes \cup {Nothing}] /\ WellFormed' /\ Solo' /\ DoneAlone'
<1>1. /\ proc \in [Procs -> Processes \cup {Nothing}]
      /\ \A q \in Procs : proc'[q] = IF q = p THEN c ELSE proc[q]
  BY DEF SetupTypeOK, Does
<1>2. proc' \in [Procs -> Processes \cup {Nothing}]
  BY <1>1 DEF Does
<1>3. WellFormed'
  BY <1>1 DEF WellFormed, Busy, Does
<1>4. Solo'
  BY <1>1 DEF Solo, Busy, Does
<1>5. DoneAlone'
  <2> SUFFICES ASSUME NEW q \in Procs, proc'[q] # Nothing, proc'[q].alone PROVE HasDone(proc[q])'
    BY DEF DoneAlone, Busy
  <2>1. q = p
    BY <1>1 DEF Solo, Busy, Does
  <2>2. HasDone(c)'
    BY <1>1, <2>1 DEF Does
  <2>3. proc'[q] = c
    BY <1>1, <2>1
  <2> QED BY <2>2, <2>3 DEF HasDone, AddDone, RemoveDone, BotDone, RestartDone
<1> QED BY <1>2, <1>3, <1>4, <1>5

\* A command that is at work is formed, and has done what it should have.
LEMMA AtWork ==
    ASSUME SetupTypeOK, WellFormed, DoneAlone, NEW p \in Procs, Busy(p)
    PROVE  proc[p] \in Processes /\ Formed(proc[p]) /\ (proc[p].alone => HasDone(proc[p]))
BY DEF SetupTypeOK, WellFormed, DoneAlone, Busy

\* GoTo is a step of this form.
LEMMA GoesTo ==
    ASSUME SetupTypeOK, NEW p \in Procs, NEW x, GoTo(p, x)
    PROVE  proc' = [proc EXCEPT ![p] = [proc[p] EXCEPT !.step = x]]
BY DEF SetupTypeOK, GoTo

\* A command that is over is gone, or is a repair of the next session.
LEMMA OverDoes ==
    ASSUME SetupTypeOK, WellFormed, NEW p \in Procs, Busy(p), Over(p)
    PROVE  \E c : Does(p, c)
<1>1. proc[p] \in Processes
  BY DEF SetupTypeOK, Busy
<1>2. CASE proc[p].todo = {}
  <2>1. Does(p, Nothing)
    BY <1>2 DEF Over, Does
  <2> QED BY <2>1
<1>3. CASE proc[p].todo # {}
  <2> DEFINE next(s) == [proc[p] EXCEPT !.op = "repair", !.step = "peek", !.s = s,
                                        !.todo = proc[p].todo \ {s}, !.doc = Nothing]
  <2>1. PICK s \in proc[p].todo : proc' = [proc EXCEPT ![p] = next(s)]
    BY <1>3 DEF Over, SetupTypeOK
  <2>2. s \in Sessions
    BY <1>1 DEF Processes
  <2>3. /\ next(s) \in Processes /\ next(s).op = "repair" /\ next(s).step = "peek"
        /\ next(s).s = s /\ next(s).alone = proc[p].alone
    BY <1>1, <2>2 DEF Processes
  <2> HIDE DEF next
  <2>4. PICK c : c = next(s)
    OBVIOUS
  <2>5. Formed(c) /\ HasDone(c)'
    BY <2>2, <2>3, <2>4 DEF Formed, HasDone
  <2>6. Does(p, c)
    BY <2>1, <2>3, <2>4, <2>5 DEF Does
  <2> QED BY <2>6
<1> QED BY <1>2, <1>3

-----------------------------------------------------------------------------
(* Types                                                                   *)

DataOK ==
    /\ yaml \in Documents
    /\ draft \in Documents \cup {Nothing}
    /\ db \in [Sessions -> Tokens \cup {Nothing}]
    /\ bound \subseteq {s \in Sessions : db[s] # Nothing}
    /\ tokenFile \in [Sessions -> Tokens \cup {Nothing}]
    /\ mcp \in [Dirs -> Sessions \cup {Nothing, Broken}]
    /\ hooks \in [Dirs -> SUBSET Sessions]
    /\ tmux \in [Sessions -> Panes \cup {Nothing}]
    /\ spent \in 0..MaxSetups /\ mishaps \in 0..MaxMishaps

LEMMA TypeParts == SetupTypeOK <=> DataOK /\ proc \in [Procs -> Processes \cup {Nothing}]
BY DEF SetupTypeOK, DataOK

\* What a step of one command leaves of the invariant is what it does to the data.
LEMMA Keeps ==
    ASSUME SetupInv, NEW p \in Procs, Busy(p), \E c : Does(p, c), DataOK'
    PROVE  SetupInv'
<1>1. PICK c : Does(p, c)
  OBVIOUS
<1>2. proc' \in [Procs -> Processes \cup {Nothing}] /\ WellFormed' /\ Solo' /\ DoneAlone'
  BY <1>1, OneDoes DEF SetupInv
<1> QED BY <1>2 DEF SetupInv, SetupTypeOK, DataOK

\* Nothing stands for itself.
LEMMA NoneIsNothing ==
    /\ \A n \in Tokens : n # Nothing
    /\ \A pane \in Panes : pane # Nothing
    /\ \A s \in Sessions : s # Nothing /\ s # Broken
BY SessionSetupAssumption DEF Tokens, Panes

\* Documents that are edited are documents, and what is edited reads so.
LEMMA Put ==
    ASSUME NEW doc \in Documents, NEW s \in Sessions, NEW e \in Entries \cup {Nothing}
    PROVE  LET new == [doc EXCEPT !.sessions[s] = e] IN
           /\ new \in Documents /\ new.bots = doc.bots /\ new.sessions[s] = e
           /\ \A t \in Sessions \ {s} : new.sessions[t] = doc.sessions[t]
<1>1. doc.sessions \in [Sessions -> Entries \cup {Nothing}] /\ doc.bots \in SUBSET Sessions
  BY DEF Documents
<1>2. [doc.sessions EXCEPT ![s] = e] \in [Sessions -> Entries \cup {Nothing}]
  BY <1>1
<1>3. PICK new : new = [doc EXCEPT !.sessions[s] = e]
  OBVIOUS
<1>4. new = [doc EXCEPT !.sessions = [doc.sessions EXCEPT ![s] = e]]
  BY <1>3
<1>5. new \in Documents /\ new.bots = doc.bots /\ new.sessions = [doc.sessions EXCEPT ![s] = e]
  BY <1>2, <1>4 DEF Documents
<1>6. /\ new \in Documents /\ new.bots = doc.bots /\ new.sessions[s] = e
      /\ \A t \in Sessions \ {s} : new.sessions[t] = doc.sessions[t]
  BY <1>1, <1>5
<1> QED BY <1>3, <1>6

LEMMA UpsertedReads ==
    ASSUME NEW doc \in Documents, NEW s \in Sessions, NEW e \in Entries
    PROVE  /\ Upserted(doc, s, e) \in Documents
           /\ Upserted(doc, s, e).sessions[s] = e
           /\ Upserted(doc, s, e).bots = doc.bots
           /\ \A t \in Sessions \ {s} : Upserted(doc, s, e).sessions[t] = doc.sessions[t]
BY Put DEF Upserted

LEMMA UnlistedReads ==
    ASSUME NEW doc \in Documents, NEW s \in Sessions
    PROVE  /\ Unlisted(doc, s) \in Documents
           /\ Unlisted(doc, s).sessions[s] = Nothing
           /\ Unlisted(doc, s).bots = doc.bots
           /\ \A t \in Sessions \ {s} : Unlisted(doc, s).sessions[t] = doc.sessions[t]
BY Put DEF Unlisted

LEMMA BotReads ==
    ASSUME NEW doc \in Documents, NEW s \in Sessions,
           NEW new \in {WithBot(doc, s), WithoutBot(doc, s)}
    PROVE  /\ new \in Documents /\ new.sessions = doc.sessions
           /\ \A t \in Sessions \ {s} : t \in new.bots <=> t \in doc.bots
<1>1. doc.sessions \in [Sessions -> Entries \cup {Nothing}] /\ doc.bots \in SUBSET Sessions
  BY DEF Documents
<1>2. PICK bots : /\ bots \in {doc.bots \cup {s}, doc.bots \ {s}}
                  /\ new = [doc EXCEPT !.bots = bots]
  BY DEF WithBot, WithoutBot, Documents
<1>3. new \in Documents /\ new.sessions = doc.sessions /\ new.bots = bots
  BY <1>1, <1>2 DEF Documents
<1> QED BY <1>2, <1>3

-----------------------------------------------------------------------------
(* The config                                                              *)

LEMMA WriteDraftKeeps ==
    ASSUME SetupInv, NEW p \in Procs, WriteDraft(p)
    PROVE  SetupInv'
<1>1. /\ Busy(p) /\ proc[p] \in Processes /\ Formed(proc[p])
      /\ proc[p].alone => HasDone(proc[p])
  BY AtWork DEF WriteDraft, SetupInv
<1>2. DataOK'
  BY <1>1 DEF SetupInv, SetupTypeOK, DataOK, WriteDraft, Formed, files
<1>3. PICK c : c = [proc[p] EXCEPT !.step = "rename"]
  OBVIOUS
<1>4. /\ c \in Processes /\ proc[p].step = "write"
      /\ c.op = proc[p].op /\ c.step = "rename" /\ c.s = proc[p].s /\ c.entry = proc[p].entry
      /\ c.force = proc[p].force /\ c.doc = proc[p].doc /\ c.token = proc[p].token
      /\ c.todo = proc[p].todo /\ c.alone = proc[p].alone
  BY <1>1, <1>3 DEF Processes, WriteDraft
<1>5. Formed(c)
  BY <1>1, <1>4 DEF Formed
<1>6. c.alone => HasDone(c)'
  <2>1. draft' = c.doc /\ UNCHANGED <<yaml, db, bound, tokenFile, mcp, hooks, tmux>>
    BY <1>4 DEF WriteDraft, files
  <2> QED BY <1>1, <1>4, <2>1
          DEF HasDone, AddDone, RemoveDone, BotDone, RestartDone, Upserted, Unlisted, WithBot,
              WithoutBot, Formed
<1>7. Does(p, c)
  BY <1>3, <1>4, <1>5, <1>6, GoesTo DEF Does, WriteDraft, SetupInv
<1> QED BY <1>1, <1>2, <1>7, Keeps

LEMMA RenameKeeps ==
    ASSUME SetupInv, NEW p \in Procs, Rename(p)
    PROVE  SetupInv'
<1>1. /\ Busy(p) /\ proc[p] \in Processes /\ Formed(proc[p])
      /\ proc[p].alone => HasDone(proc[p])
      /\ proc[p].step = "rename" /\ proc[p].op \in {"add", "remove", "bot"}
  BY AtWork DEF Rename, SetupInv, Formed
<1>2. DataOK'
  BY DEF SetupInv, SetupTypeOK, DataOK, Rename, files
<1>3. CASE Over(p)
  BY <1>1, <1>2, <1>3, OverDoes, Keeps DEF SetupInv
<1>4. CASE ~Over(p)
  <2>1. /\ yaml' = draft /\ draft \in Documents
        /\ UNCHANGED <<db, bound, tokenFile, mcp, hooks, tmux>>
    BY <1>4 DEF Rename, files, SetupInv, SetupTypeOK
  <2>2. PICK x \in {"hash", "untoken"} :
          GoTo(p, x) /\ IF x = "hash" THEN proc[p].op = "add" ELSE proc[p].op = "remove"
    BY <1>1, <1>4 DEF Rename
  <2>3. PICK c : c = [proc[p] EXCEPT !.step = x]
    OBVIOUS
  <2>4. /\ c \in Processes
        /\ c.op = proc[p].op /\ c.step = x /\ c.s = proc[p].s /\ c.entry = proc[p].entry
        /\ c.force = proc[p].force /\ c.doc = proc[p].doc /\ c.token = proc[p].token
        /\ c.todo = proc[p].todo /\ c.alone = proc[p].alone
    BY <1>1, <2>3 DEF Processes
  <2>5. Formed(c)
    BY <1>1, <2>2, <2>4 DEF Formed
  <2>6. c.alone => HasDone(c)'
    <3>1. yaml \in Documents /\ c.s \in Sessions /\ (c.op = "add" => c.entry \in Entries)
      BY <1>1, <2>2, <2>4 DEF Formed, SetupInv, SetupTypeOK
    <3>2. CASE x = "hash"
      <4>1. c.alone => yaml'.sessions[c.s] = c.entry
        <5>1. c.op = "add" /\ proc[p].op = "add"
          BY <2>2, <2>4, <3>2
        <5>2. c.alone => draft = Upserted(yaml, c.s, c.entry)
          BY <1>1, <2>4, <5>1 DEF HasDone, AddDone
        <5> QED BY <2>1, <3>1, <5>1, <5>2, UpsertedReads
      <4> QED BY <2>2, <2>4, <3>2, <4>1 DEF HasDone, AddDone
    <3>3. CASE x = "untoken"
      <4>1. c.alone => yaml'.sessions[c.s] = Nothing
        BY <1>1, <2>1, <2>2, <2>4, <3>1, <3>3, UnlistedReads DEF HasDone, RemoveDone
      <4> QED BY <1>1, <2>1, <2>2, <2>4, <3>3, <4>1 DEF HasDone, RemoveDone
    <3> QED BY <3>2, <3>3
  <2>7. Does(p, c)
    BY <2>2, <2>3, <2>4, <2>5, <2>6, GoesTo DEF Does, SetupInv
  <2> QED BY <1>1, <1>2, <2>7, Keeps
<1> QED BY <1>3, <1>4

-----------------------------------------------------------------------------
(* Add and repair                                                          *)

LEMMA RepairPeekKeeps ==
    ASSUME SetupInv, NEW p \in Procs, RepairPeek(p)
    PROVE  SetupInv'
<1>1. /\ Busy(p) /\ proc[p] \in Processes /\ Formed(proc[p])
      /\ proc[p].op = "repair" /\ proc[p].step = "peek" /\ proc[p].s \in Sessions
  BY AtWork DEF RepairPeek, At, SetupInv, Formed
<1>2. DataOK'
  BY DEF SetupInv, SetupTypeOK, DataOK, RepairPeek, files
<1>3. CASE Over(p)
  BY <1>1, <1>2, <1>3, OverDoes, Keeps DEF SetupInv
<1>4. CASE ~Over(p)
  <2>1. /\ proc[p].s \in Placed(yaml)
        /\ proc' = [proc EXCEPT ![p].op = "add", ![p].entry = yaml.sessions[proc[p].s]]
    BY <1>4 DEF RepairPeek
  <2>2. yaml.sessions[proc[p].s] \in Entries /\ yaml.sessions[proc[p].s].dir \in Dirs
    BY <2>1, <1>1 DEF SetupInv, SetupTypeOK, Documents, Entries, Placed, Configured
  <2>3. PICK c : c = [proc[p] EXCEPT !.op = "add", !.entry = yaml.sessions[proc[p].s]]
    OBVIOUS
  <2>4. /\ c \in Processes /\ c.op = "add" /\ c.step = "peek" /\ c.s \in Sessions
        /\ c.entry = yaml.sessions[proc[p].s] /\ c.alone = proc[p].alone
    BY <1>1, <2>2, <2>3 DEF Processes
  <2>5. Formed(c)
    BY <2>2, <2>4 DEF Formed
  <2>6. HasDone(c)'
    BY <2>4 DEF HasDone, AddDone
  <2>7. Does(p, c)
    BY <2>1, <2>3, <2>4, <2>5, <2>6 DEF Does, SetupInv, SetupTypeOK
  <2> QED BY <1>1, <1>2, <2>7, Keeps
<1> QED BY <1>3, <1>4

LEMMA AddPeekKeeps ==
    ASSUME SetupInv, NEW p \in Procs, AddPeek(p)
    PROVE  SetupInv'
<1>1. /\ Busy(p) /\ proc[p] \in Processes /\ Formed(proc[p])
      /\ proc[p].op = "add" /\ proc[p].step = "peek"
  BY AtWork DEF AddPeek, At, SetupInv
<1>2. DataOK'
  BY DEF SetupInv, SetupTypeOK, DataOK, AddPeek, files
<1>3. CASE Over(p)
  BY <1>1, <1>2, <1>3, OverDoes, Keeps DEF SetupInv
<1>4. CASE GoTo(p, "upsert")
  <2>1. PICK c : c = [proc[p] EXCEPT !.step = "upsert"]
    OBVIOUS
  <2>2. /\ c \in Processes /\ c.op = "add" /\ c.step = "upsert" /\ c.s = proc[p].s
        /\ c.entry = proc[p].entry /\ c.alone = proc[p].alone
    BY <1>1, <2>1 DEF Processes
  <2>3. Formed(c) /\ HasDone(c)'
    BY <1>1, <2>2 DEF Formed, HasDone, AddDone
  <2>4. Does(p, c)
    BY <1>4, <2>1, <2>2, <2>3, GoesTo DEF Does, SetupInv
  <2> QED BY <1>1, <1>2, <2>4, Keeps
<1> QED BY <1>3, <1>4 DEF AddPeek

LEMMA UpsertKeeps ==
    ASSUME SetupInv, NEW p \in Procs, Upsert(p)
    PROVE  SetupInv'
<1> DEFINE doc == Upserted(yaml, proc[p].s, proc[p].entry)
<1>1. /\ Busy(p) /\ proc[p] \in Processes /\ Formed(proc[p])
      /\ proc[p].op = "add" /\ proc[p].s \in Sessions
      /\ proc[p].entry \in Entries /\ proc[p].entry.dir \in Dirs
  BY AtWork DEF Upsert, At, SetupInv, Formed
<1>2. DataOK'
  BY DEF SetupInv, SetupTypeOK, DataOK, Upsert, files
<1>3. doc \in Documents /\ doc.sessions[proc[p].s] = proc[p].entry
  BY <1>1, UpsertedReads DEF SetupInv, SetupTypeOK
<1> HIDE DEF doc
<1>4. PICK x \in {"hash", "write"} : x = IF doc = yaml THEN "hash" ELSE "write"
  OBVIOUS
<1>10. proc' = [proc EXCEPT ![p] = [proc[p] EXCEPT !.doc = doc, !.step = x]]
  <2>1. Edit(p, doc, "hash")
    BY DEF Upsert, doc
  <2> QED BY <1>4, <2>1 DEF Edit, SetupInv, SetupTypeOK
<1>5. PICK c : c = [proc[p] EXCEPT !.doc = doc, !.step = x]
  OBVIOUS
<1>6. /\ c \in Processes /\ c.op = "add" /\ c.step = x /\ c.s = proc[p].s
      /\ c.entry = proc[p].entry /\ c.doc = doc /\ c.alone = proc[p].alone
  BY <1>1, <1>3, <1>5 DEF Processes
<1>7. Formed(c)
  BY <1>1, <1>3, <1>6 DEF Formed
<1>8. HasDone(c)'
  <2>1. yaml' = yaml
    BY DEF Upsert
  <2>2. x = "hash" => yaml'.sessions[c.s] = c.entry
    BY <1>3, <1>4, <1>6, <2>1
  <2>3. c.doc = Upserted(yaml, c.s, c.entry)'
    BY <1>6, <2>1 DEF doc, Upserted
  <2> QED BY <1>6, <2>2, <2>3 DEF HasDone, AddDone
<1>9. Does(p, c)
  BY <1>5, <1>6, <1>7, <1>8, <1>10 DEF Does
<1> QED BY <1>1, <1>2, <1>9, Keeps

LEMMA CreateSessionKeeps ==
    ASSUME SetupInv, NEW p \in Procs, CreateSession(p)
    PROVE  SetupInv'
<1>1. /\ Busy(p) /\ proc[p] \in Processes /\ Formed(proc[p])
      /\ proc[p].alone => HasDone(proc[p])
      /\ proc[p].op = "add" /\ proc[p].step = "hash" /\ proc[p].s \in Sessions
  BY AtWork DEF CreateSession, At, SetupInv, Formed
<1>2. DataOK'
  <2>1. proc[p].token \in Tokens /\ proc[p].token # Nothing
    BY <1>1, NoneIsNothing DEF Processes
  <2>2. /\ db' \in [Sessions -> Tokens \cup {Nothing}]
        /\ \A s \in Sessions : db[s] # Nothing => db'[s] # Nothing
    BY <1>1, <2>1 DEF SetupInv, SetupTypeOK, CreateSession, NewHash
  <2> QED BY <2>2 DEF SetupInv, SetupTypeOK, DataOK, CreateSession, files
<1>3. PICK c : c = [proc[p] EXCEPT !.step = "token"]
  OBVIOUS
<1>4. /\ c \in Processes
      /\ c.op = proc[p].op /\ c.step = "token" /\ c.s = proc[p].s /\ c.entry = proc[p].entry
      /\ c.force = proc[p].force /\ c.doc = proc[p].doc /\ c.token = proc[p].token
      /\ c.todo = proc[p].todo /\ c.alone = proc[p].alone
  BY <1>1, <1>3 DEF Processes
<1>5. Formed(c)
  BY <1>1, <1>4 DEF Formed
<1>6. c.alone => HasDone(c)'
  <2>1. db'[c.s] = c.token
    BY <1>1, <1>4 DEF CreateSession, NewHash, SetupInv, SetupTypeOK
  <2>2. yaml' = yaml
    BY DEF CreateSession
  <2> QED BY <1>1, <1>4, <2>1, <2>2 DEF HasDone, AddDone
<1>7. Does(p, c)
  BY <1>3, <1>4, <1>5, <1>6, GoesTo DEF Does, CreateSession, SetupInv
<1> QED BY <1>1, <1>2, <1>7, Keeps

LEMMA WriteTokenKeeps ==
    ASSUME SetupInv, NEW p \in Procs, WriteToken(p)
    PROVE  SetupInv'
<1>1. /\ Busy(p) /\ proc[p] \in Processes /\ Formed(proc[p])
      /\ proc[p].alone => HasDone(proc[p])
      /\ proc[p].op = "add" /\ proc[p].step = "token" /\ proc[p].s \in Sessions
  BY AtWork DEF WriteToken, At, SetupInv, Formed
<1>2. DataOK'
  <2>1. proc[p].token \in Tokens
    BY <1>1 DEF Processes
  <2>2. tokenFile' \in [Sessions -> Tokens \cup {Nothing}]
    BY <1>1, <2>1 DEF SetupInv, SetupTypeOK, WriteToken
  <2> QED BY <2>2 DEF SetupInv, SetupTypeOK, DataOK, WriteToken
<1>3. PICK c : c = [proc[p] EXCEPT !.step = "mcp"]
  OBVIOUS
<1>4. /\ c \in Processes
      /\ c.op = proc[p].op /\ c.step = "mcp" /\ c.s = proc[p].s /\ c.entry = proc[p].entry
      /\ c.force = proc[p].force /\ c.doc = proc[p].doc /\ c.token = proc[p].token
      /\ c.todo = proc[p].todo /\ c.alone = proc[p].alone
  BY <1>1, <1>3 DEF Processes
<1>5. Formed(c)
  BY <1>1, <1>4 DEF Formed
<1>6. c.alone => HasDone(c)'
  <2>1. tokenFile'[c.s] = c.token
    BY <1>1, <1>4 DEF WriteToken, SetupInv, SetupTypeOK
  <2>2. yaml' = yaml /\ db' = db
    BY DEF WriteToken
  <2> QED BY <1>1, <1>4, <2>1, <2>2 DEF HasDone, AddDone
<1>7. Does(p, c)
  BY <1>3, <1>4, <1>5, <1>6, GoesTo DEF Does, WriteToken, SetupInv
<1> QED BY <1>1, <1>2, <1>7, Keeps

LEMMA WriteMcpKeeps ==
    ASSUME SetupInv, NEW p \in Procs, WriteMcp(p)
    PROVE  SetupInv'
<1>1. /\ Busy(p) /\ proc[p] \in Processes /\ Formed(proc[p])
      /\ proc[p].alone => HasDone(proc[p])
      /\ proc[p].op = "add" /\ proc[p].step = "mcp" /\ proc[p].s \in Sessions
      /\ proc[p].entry.dir \in Dirs
  BY AtWork DEF WriteMcp, At, SetupInv, Formed
<1>2. DataOK'
  BY <1>1 DEF SetupInv, SetupTypeOK, DataOK, WriteMcp
<1>3. CASE Over(p)
  BY <1>1, <1>2, <1>3, OverDoes, Keeps DEF SetupInv
<1>4. CASE ~Over(p)
  <2>1. /\ GoTo(p, "hooks") /\ mcp' = [mcp EXCEPT ![proc[p].entry.dir] = proc[p].s]
        /\ UNCHANGED <<yaml, db, tokenFile>>
    BY <1>4 DEF WriteMcp
  <2>2. PICK c : c = [proc[p] EXCEPT !.step = "hooks"]
    OBVIOUS
  <2>3. /\ c \in Processes /\ c.op = "add" /\ c.step = "hooks" /\ c.s = proc[p].s
        /\ c.entry = proc[p].entry /\ c.token = proc[p].token /\ c.alone = proc[p].alone
    BY <1>1, <2>2 DEF Processes
  <2>4. Formed(c)
    BY <1>1, <2>3 DEF Formed
  <2>5. mcp'[c.entry.dir] = c.s
    BY <1>1, <2>1, <2>3 DEF SetupInv, SetupTypeOK
  <2>6. c.alone => HasDone(c)'
    BY <1>1, <2>1, <2>3, <2>5 DEF HasDone, AddDone
  <2>7. Does(p, c)
    BY <2>1, <2>2, <2>3, <2>4, <2>6, GoesTo DEF Does, SetupInv
  <2> QED BY <1>1, <1>2, <2>7, Keeps
<1> QED BY <1>3, <1>4

LEMMA InstallHooksKeeps ==
    ASSUME SetupInv, NEW p \in Procs, InstallHooks(p)
    PROVE  SetupInv'
<1>1. /\ Busy(p) /\ proc[p] \in Processes /\ proc[p].s \in Sessions
      /\ proc[p].entry.dir \in Dirs
  BY AtWork DEF InstallHooks, At, SetupInv, Formed
<1>2. DataOK'
  <2>1. hooks' \in [Dirs -> SUBSET Sessions]
    BY <1>1 DEF InstallHooks, Hooked, SetupInv, SetupTypeOK
  <2> QED BY <2>1 DEF SetupInv, SetupTypeOK, DataOK, InstallHooks
<1>3. Over(p)
  BY DEF InstallHooks
<1> QED BY <1>1, <1>2, <1>3, OverDoes, Keeps DEF SetupInv

-----------------------------------------------------------------------------
(* Remove, and the bots                                                    *)

LEMMA RemovePeekKeeps ==
    ASSUME SetupInv, NEW p \in Procs, RemovePeek(p)
    PROVE  SetupInv'
<1>1. /\ Busy(p) /\ proc[p] \in Processes /\ Formed(proc[p])
      /\ proc[p].op = "remove" /\ proc[p].s \in Sessions
  BY AtWork DEF RemovePeek, At, SetupInv, Formed
<1>2. DataOK'
  BY DEF SetupInv, SetupTypeOK, DataOK, RemovePeek, files
<1>3. CASE Over(p)
  BY <1>1, <1>2, <1>3, OverDoes, Keeps DEF SetupInv
<1>4. CASE ~Over(p)
  <2> DEFINE e == yaml.sessions[proc[p].s]
  <2>1. /\ proc[p].s \in Configured(yaml)
        /\ proc' = [proc EXCEPT ![p].entry = e, ![p].step = "delete"]
    BY <1>4 DEF RemovePeek
  <2>2. e \in Entries
    BY <2>1, <1>1 DEF SetupInv, SetupTypeOK, Documents, Configured
  <2> HIDE DEF e
  <2>3. PICK c : c = [proc[p] EXCEPT !.entry = e, !.step = "delete"]
    OBVIOUS
  <2>4. /\ c \in Processes /\ c.op = "remove" /\ c.step = "delete" /\ c.s \in Sessions
        /\ c.entry = e /\ c.alone = proc[p].alone
    BY <1>1, <2>2, <2>3 DEF Processes
  <2>5. Formed(c) /\ HasDone(c)'
    BY <2>2, <2>4 DEF Formed, HasDone, RemoveDone
  <2>6. Does(p, c)
    BY <2>1, <2>3, <2>4, <2>5 DEF Does, SetupInv, SetupTypeOK
  <2> QED BY <1>1, <1>2, <2>6, Keeps
<1> QED BY <1>3, <1>4

LEMMA DeleteSessionKeeps ==
    ASSUME SetupInv, NEW p \in Procs, DeleteSession(p)
    PROVE  SetupInv'
<1>1. /\ Busy(p) /\ proc[p] \in Processes /\ Formed(proc[p])
      /\ proc[p].op = "remove" /\ proc[p].s \in Sessions /\ proc[p].entry \in Entries
  BY AtWork DEF DeleteSession, At, SetupInv, Formed
<1>2. DataOK'
  <2>1. /\ db' \in [Sessions -> Tokens \cup {Nothing}]
        /\ \A s \in Sessions : s # proc[p].s => db'[s] = db[s]
    BY <1>1 DEF SetupInv, SetupTypeOK, DeleteSession
  <2>2. bound' = bound \ {proc[p].s}
    BY DEF DeleteSession, Unbound
  <2> QED BY <2>1, <2>2 DEF SetupInv, SetupTypeOK, DataOK, DeleteSession, files
<1>3. PICK x \in {"unlist", "unmcp"} :
        /\ x = IF proc[p].force \/ proc[p].entry.dir = NoDir THEN "unlist" ELSE "unmcp"
  OBVIOUS
<1>4. PICK c : c = [proc[p] EXCEPT !.step = x]
  OBVIOUS
<1>5. /\ c \in Processes /\ c.op = "remove" /\ c.step = x /\ c.s = proc[p].s
      /\ c.entry = proc[p].entry /\ c.force = proc[p].force /\ c.alone = proc[p].alone
  BY <1>1, <1>4 DEF Processes
<1>6. c.entry.dir \in Dirs \cup {NoDir} /\ c.force \in BOOLEAN
  BY <1>1, <1>5 DEF Entries, Processes
<1>7. Formed(c)
  BY <1>1, <1>3, <1>5, <1>6 DEF Formed
<1>8. HasDone(c)'
  <2>1. db'[c.s] = Nothing /\ c.s \notin bound'
    BY <1>1, <1>5 DEF DeleteSession, Unbound, SetupInv, SetupTypeOK
  <2> QED BY <1>3, <1>5, <2>1 DEF HasDone, RemoveDone
<1>9. Does(p, c)
  <2>1. GoTo(p, x)
    BY <1>3 DEF DeleteSession
  <2> QED BY <1>4, <1>5, <1>7, <1>8, <2>1, GoesTo DEF Does, SetupInv
<1> QED BY <1>1, <1>2, <1>9, Keeps

LEMMA RemoveMcpKeeps ==
    ASSUME SetupInv, NEW p \in Procs, RemoveMcp(p)
    PROVE  SetupInv'
<1>1. /\ Busy(p) /\ proc[p] \in Processes /\ Formed(proc[p])
      /\ proc[p].alone => HasDone(proc[p])
      /\ proc[p].op = "remove" /\ proc[p].step = "unmcp" /\ proc[p].s \in Sessions
      /\ proc[p].entry \in Entries /\ proc[p].entry.dir \in Dirs
  BY AtWork DEF RemoveMcp, At, SetupInv, Formed
<1>2. DataOK'
  <2>1. mcp' \in [Dirs -> Sessions \cup {Nothing, Broken}]
    BY <1>1 DEF SetupInv, SetupTypeOK, RemoveMcp
  <2> QED BY <2>1 DEF SetupInv, SetupTypeOK, DataOK, RemoveMcp
<1>3. PICK c : c = [proc[p] EXCEPT !.step = "unhook"]
  OBVIOUS
<1>4. /\ c \in Processes
      /\ c.op = proc[p].op /\ c.step = "unhook" /\ c.s = proc[p].s /\ c.entry = proc[p].entry
      /\ c.force = proc[p].force /\ c.doc = proc[p].doc /\ c.token = proc[p].token
      /\ c.todo = proc[p].todo /\ c.alone = proc[p].alone
  BY <1>1, <1>3 DEF Processes
<1>5. Formed(c)
  BY <1>1, <1>4 DEF Formed
<1>6. c.alone => HasDone(c)'
  <2>1. mcp'[c.entry.dir] # c.s
    <3>1. mcp'[c.entry.dir] \in {Nothing, Broken}
      BY <1>1, <1>4 DEF RemoveMcp, SetupInv, SetupTypeOK
    <3> QED BY <1>1, <1>4, <3>1, NoneIsNothing
  <2>2. UNCHANGED <<yaml, db, bound>>
    BY DEF RemoveMcp
  <2> QED BY <1>1, <1>4, <2>1, <2>2 DEF HasDone, RemoveDone
<1>7. Does(p, c)
  BY <1>3, <1>4, <1>5, <1>6, GoesTo DEF Does, RemoveMcp, SetupInv
<1> QED BY <1>1, <1>2, <1>7, Keeps

LEMMA RemoveHooksKeeps ==
    ASSUME SetupInv, NEW p \in Procs, RemoveHooks(p)
    PROVE  SetupInv'
<1>1. /\ Busy(p) /\ proc[p] \in Processes /\ Formed(proc[p])
      /\ proc[p].alone => HasDone(proc[p])
      /\ proc[p].op = "remove" /\ proc[p].step = "unhook" /\ proc[p].s \in Sessions
      /\ proc[p].entry \in Entries /\ proc[p].entry.dir \in Dirs
  BY AtWork DEF RemoveHooks, At, SetupInv, Formed
<1>2. DataOK'
  <2>1. hooks' \in [Dirs -> SUBSET Sessions]
    BY <1>1 DEF SetupInv, SetupTypeOK, RemoveHooks
  <2> QED BY <2>1 DEF SetupInv, SetupTypeOK, DataOK, RemoveHooks
<1>3. PICK c : c = [proc[p] EXCEPT !.step = "unlist"]
  OBVIOUS
<1>4. /\ c \in Processes
      /\ c.op = proc[p].op /\ c.step = "unlist" /\ c.s = proc[p].s /\ c.entry = proc[p].entry
      /\ c.force = proc[p].force /\ c.doc = proc[p].doc /\ c.token = proc[p].token
      /\ c.todo = proc[p].todo /\ c.alone = proc[p].alone
  BY <1>1, <1>3 DEF Processes
<1>5. Formed(c)
  BY <1>1, <1>4 DEF Formed
<1>6. c.alone => HasDone(c)'
  <2>1. c.entry.dir \notin BadSettings => c.s \notin hooks'[c.entry.dir]
    BY <1>1, <1>4 DEF RemoveHooks, SetupInv, SetupTypeOK
  <2>2. UNCHANGED <<yaml, db, bound, mcp>>
    BY DEF RemoveHooks
  <2> QED BY <1>1, <1>4, <2>1, <2>2 DEF HasDone, RemoveDone
<1>7. Does(p, c)
  BY <1>3, <1>4, <1>5, <1>6, GoesTo DEF Does, RemoveHooks, SetupInv
<1> QED BY <1>1, <1>2, <1>7, Keeps

LEMMA RemoveSessionKeeps ==
    ASSUME SetupInv, NEW p \in Procs, RemoveSession(p)
    PROVE  SetupInv'
<1> DEFINE doc == Unlisted(yaml, proc[p].s)
<1>1. /\ Busy(p) /\ proc[p] \in Processes /\ Formed(proc[p])
      /\ proc[p].alone => HasDone(proc[p])
      /\ proc[p].op = "remove" /\ proc[p].step = "unlist" /\ proc[p].s \in Sessions
      /\ proc[p].entry \in Entries
  BY AtWork DEF RemoveSession, At, SetupInv, Formed
<1>2. DataOK'
  BY DEF SetupInv, SetupTypeOK, DataOK, RemoveSession, files
<1>3. doc \in Documents /\ doc.sessions[proc[p].s] = Nothing
  BY <1>1, UnlistedReads DEF SetupInv, SetupTypeOK
<1> HIDE DEF doc
<1>4. PICK x \in {"untoken", "write"} : x = IF doc = yaml THEN "untoken" ELSE "write"
  OBVIOUS
<1>5. proc' = [proc EXCEPT ![p] = [proc[p] EXCEPT !.doc = doc, !.step = x]]
  <2>1. Edit(p, doc, "untoken")
    BY DEF RemoveSession, doc
  <2> QED BY <1>4, <2>1 DEF Edit, SetupInv, SetupTypeOK
<1>6. PICK c : c = [proc[p] EXCEPT !.doc = doc, !.step = x]
  OBVIOUS
<1>7. /\ c \in Processes /\ c.op = "remove" /\ c.step = x /\ c.s = proc[p].s
      /\ c.entry = proc[p].entry /\ c.force = proc[p].force /\ c.doc = doc
      /\ c.alone = proc[p].alone
  BY <1>1, <1>3, <1>6 DEF Processes
<1>8. Formed(c)
  BY <1>1, <1>3, <1>7 DEF Formed
<1>9. c.alone => HasDone(c)'
  <2>1. UNCHANGED <<yaml, db, bound, mcp, hooks>>
    BY DEF RemoveSession, files
  <2>2. x = "untoken" => yaml.sessions[c.s] = Nothing
    BY <1>3, <1>4, <1>7
  <2>3. c.doc = Unlisted(yaml, c.s)
    BY <1>7 DEF doc
  <2> QED BY <1>1, <1>7, <2>1, <2>2, <2>3 DEF HasDone, RemoveDone, Unlisted
<1>10. Does(p, c)
  BY <1>5, <1>6, <1>7, <1>8, <1>9 DEF Does
<1> QED BY <1>1, <1>2, <1>10, Keeps

LEMMA RemoveTokenKeeps ==
    ASSUME SetupInv, NEW p \in Procs, RemoveToken(p)
    PROVE  SetupInv'
<1>1. /\ Busy(p) /\ proc[p] \in Processes /\ proc[p].s \in Sessions
  BY AtWork DEF RemoveToken, At, SetupInv, Formed
<1>2. DataOK'
  <2>1. tokenFile' \in [Sessions -> Tokens \cup {Nothing}]
    BY <1>1 DEF RemoveToken, WithoutToken, SetupInv, SetupTypeOK
  <2> QED BY <2>1 DEF SetupInv, SetupTypeOK, DataOK, RemoveToken
<1>3. Over(p)
  BY DEF RemoveToken
<1> QED BY <1>1, <1>2, <1>3, OverDoes, Keeps DEF SetupInv

LEMMA EditBotKeeps ==
    ASSUME SetupInv, NEW p \in Procs, EditBot(p)
    PROVE  SetupInv'
<1>1. /\ Busy(p) /\ proc[p] \in Processes /\ Formed(proc[p])
      /\ proc[p].op = "bot" /\ proc[p].s \in Sessions
  BY AtWork DEF EditBot, At, SetupInv, Formed
<1>2. DataOK'
  BY DEF SetupInv, SetupTypeOK, DataOK, EditBot, files
<1>3. CASE Over(p)
  BY <1>1, <1>2, <1>3, OverDoes, Keeps DEF SetupInv
<1>4. CASE ~Over(p)
  <2>1. PICK doc \in {WithBot(yaml, proc[p].s), WithoutBot(yaml, proc[p].s)} :
          proc' = [proc EXCEPT ![p].doc = doc, ![p].step = "write"]
    BY <1>4 DEF EditBot
  <2>2. doc \in Documents
    BY <1>1, <2>1, BotReads DEF SetupInv, SetupTypeOK
  <2>3. PICK c : c = [proc[p] EXCEPT !.doc = doc, !.step = "write"]
    OBVIOUS
  <2>4. /\ c \in Processes /\ c.op = "bot" /\ c.step = "write" /\ c.s = proc[p].s
        /\ c.doc = doc /\ c.alone = proc[p].alone
    BY <1>1, <2>2, <2>3 DEF Processes
  <2>5. Formed(c)
    BY <1>1, <2>2, <2>4 DEF Formed
  <2>6. HasDone(c)'
    <3>1. yaml' = yaml
      BY DEF EditBot
    <3> QED BY <2>1, <2>4, <3>1 DEF HasDone, BotDone, WithBot, WithoutBot
  <2>7. Does(p, c)
    BY <2>1, <2>3, <2>4, <2>5, <2>6 DEF Does, SetupInv, SetupTypeOK
  <2> QED BY <1>1, <1>2, <2>7, Keeps
<1> QED BY <1>3, <1>4

-----------------------------------------------------------------------------
(* Starts, and what happens meanwhile                                      *)

LEMMA BootRegistersKeeps ==
    ASSUME SetupInv, NEW p \in Procs, BootRegisters(p)
    PROVE  SetupInv'
<1>1. /\ Busy(p) /\ proc[p] \in Processes /\ Formed(proc[p]) /\ proc[p].op = "boot"
      /\ proc[p].doc \in Documents /\ proc[p].todo \subseteq Configured(proc[p].doc)
      /\ proc[p].todo \subseteq Sessions
  BY AtWork DEF BootRegisters, At, SetupInv, Formed, Configured
<1>2. DataOK'
  BY DEF SetupInv, SetupTypeOK, DataOK, BootRegisters, files
<1>3. CASE proc[p].todo = {}
  <2> DEFINE todo == AutoStarted(proc[p].doc)
  <2>1. proc' = [proc EXCEPT ![p] = [proc[p] EXCEPT !.step = "start", !.todo = todo]]
    BY <1>3 DEF BootRegisters, SetupInv, SetupTypeOK
  <2>2. todo \subseteq Placed(proc[p].doc) /\ todo \subseteq Configured(proc[p].doc)
        /\ todo \subseteq Sessions
    BY DEF AutoStarted, Placed, Configured
  <2> HIDE DEF todo
  <2>3. PICK c : c = [proc[p] EXCEPT !.step = "start", !.todo = todo]
    OBVIOUS
  <2>4. /\ c \in Processes /\ c.op = "boot" /\ c.step = "start" /\ c.todo = todo
        /\ c.doc = proc[p].doc /\ c.alone = proc[p].alone
    BY <1>1, <2>2, <2>3 DEF Processes
  <2>5. Formed(c) /\ HasDone(c)'
    BY <1>1, <2>2, <2>4 DEF Formed, HasDone
  <2>6. Does(p, c)
    BY <2>1, <2>3, <2>4, <2>5 DEF Does
  <2> QED BY <1>1, <1>2, <2>6, Keeps
<1>4. CASE proc[p].todo # {}
  <2>1. PICK s \in proc[p].todo, x \in {"hash", "register"} :
          proc' = [proc EXCEPT ![p] = [proc[p] EXCEPT !.todo = proc[p].todo \ {s},
                                                       !.s = s, !.step = x]]
    BY <1>4 DEF BootRegisters, SetupInv, SetupTypeOK
  <2>2. s \in Sessions
    BY <1>1
  <2>3. PICK c : c = [proc[p] EXCEPT !.todo = proc[p].todo \ {s}, !.s = s, !.step = x]
    OBVIOUS
  <2>4. /\ c \in Processes /\ c.op = "boot" /\ c.step = x /\ c.s = s
        /\ c.todo = proc[p].todo \ {s} /\ c.doc = proc[p].doc /\ c.alone = proc[p].alone
    BY <1>1, <2>1, <2>2, <2>3 DEF Processes
  <2>5. Formed(c) /\ HasDone(c)'
    BY <1>1, <2>1, <2>2, <2>4 DEF Formed, HasDone
  <2>6. Does(p, c)
    BY <2>1, <2>3, <2>4, <2>5 DEF Does
  <2> QED BY <1>1, <1>2, <2>6, Keeps
<1> QED BY <1>3, <1>4

LEMMA BootCreatesKeeps ==
    ASSUME SetupInv, NEW p \in Procs, BootCreates(p)
    PROVE  SetupInv'
<1>1. /\ Busy(p) /\ proc[p] \in Processes /\ Formed(proc[p])
      /\ proc[p].op = "boot" /\ proc[p].s \in Sessions
  BY AtWork DEF BootCreates, At, SetupInv, Formed
<1>2. DataOK'
  <2>1. proc[p].token \in Tokens /\ proc[p].token # Nothing
    BY <1>1, NoneIsNothing DEF Processes
  <2>2. /\ db' \in [Sessions -> Tokens \cup {Nothing}]
        /\ \A s \in Sessions : db[s] # Nothing => db'[s] # Nothing
    BY <1>1, <2>1 DEF BootCreates, NewHash, SetupInv, SetupTypeOK
  <2> QED BY <2>2 DEF SetupInv, SetupTypeOK, DataOK, BootCreates, files
<1>3. PICK c : c = [proc[p] EXCEPT !.step = "register"]
  OBVIOUS
<1>4. /\ c \in Processes /\ c.op = "boot" /\ c.step = "register"
      /\ c.doc = proc[p].doc /\ c.todo = proc[p].todo /\ c.alone = proc[p].alone
  BY <1>1, <1>3 DEF Processes
<1>5. Formed(c) /\ HasDone(c)'
  BY <1>1, <1>4 DEF Formed, HasDone
<1>6. Does(p, c)
  BY <1>3, <1>4, <1>5, GoesTo DEF Does, BootCreates, SetupInv
<1> QED BY <1>1, <1>2, <1>6, Keeps

LEMMA KillSessionKeeps ==
    ASSUME SetupInv, NEW p \in Procs, KillSession(p)
    PROVE  SetupInv'
<1>1. /\ Busy(p) /\ proc[p] \in Processes /\ Formed(proc[p])
      /\ proc[p].alone => HasDone(proc[p])
      /\ proc[p].op = "restart" /\ proc[p].step = "kill"
      /\ proc[p].doc \in Documents /\ proc[p].s \in Placed(proc[p].doc)
  BY AtWork DEF KillSession, At, SetupInv, Formed
<1>2. proc[p].s \in Sessions
  BY <1>1 DEF Placed, Configured
<1>3. DataOK'
  <2>1. tmux' \in [Sessions -> Panes \cup {Nothing}]
    BY <1>2 DEF KillSession, Killed, SetupInv, SetupTypeOK
  <2> QED BY <2>1 DEF SetupInv, SetupTypeOK, DataOK, KillSession, files
<1>4. PICK c : c = [proc[p] EXCEPT !.step = "start"]
  OBVIOUS
<1>5. /\ c \in Processes /\ c.op = "restart" /\ c.step = "start" /\ c.s = proc[p].s
      /\ c.doc = proc[p].doc /\ c.todo = proc[p].todo /\ c.alone = proc[p].alone
  BY <1>1, <1>4 DEF Processes
<1>6. c.alone => c.doc = yaml /\ c.todo = {c.s}
  BY <1>1, <1>5 DEF HasDone, RestartDone
<1>7. c.alone => Formed(c) /\ HasDone(c)'
  <2>1. tmux'[c.s] = Nothing /\ yaml' = yaml
    BY <1>2, <1>5 DEF KillSession, Killed, SetupInv, SetupTypeOK
  <2> QED BY <1>1, <1>5, <1>6, <2>1 DEF Formed, HasDone, RestartDone
<1>8. Formed(c)
  BY <1>1, <1>5 DEF Formed
<1>9. Does(p, c)
  BY <1>4, <1>5, <1>7, <1>8, GoesTo DEF Does, KillSession, SetupInv
<1> QED BY <1>1, <1>3, <1>9, Keeps

LEMMA StartNextKeeps ==
    ASSUME SetupInv, NEW p \in Procs, StartNext(p)
    PROVE  SetupInv'
<1>1. /\ Busy(p) /\ proc[p] \in Processes /\ Formed(proc[p])
      /\ proc[p].alone => HasDone(proc[p])
      /\ proc[p].step = "start" /\ proc[p].op \in {"up", "restart", "boot"}
      /\ proc[p].doc \in Documents /\ proc[p].todo \subseteq Placed(proc[p].doc)
      /\ proc[p].todo \subseteq Configured(proc[p].doc) /\ proc[p].todo \subseteq Sessions
  BY AtWork DEF StartNext, SetupInv, Formed, Placed, Configured
<1>2. DataOK'
  BY DEF SetupInv, SetupTypeOK, DataOK, StartNext, files
<1>3. CASE proc[p].todo = {}
  <2>1. Does(p, Nothing)
    BY <1>3 DEF StartNext, Does
  <2> QED BY <1>1, <1>2, <2>1, Keeps
<1>4. CASE proc[p].todo # {}
  <2>1. PICK s \in proc[p].todo :
          IF AlreadyRunning(s)
          THEN proc' = [proc EXCEPT ![p].todo = @ \ {s}]
          ELSE proc' = [proc EXCEPT ![p].todo = @ \ {s}, ![p].s = s, ![p].step = "new"]
    BY <1>4 DEF StartNext
  <2>2. s \in Sessions /\ s \in Placed(proc[p].doc)
    BY <1>1
  <2>3. UNCHANGED <<yaml, tmux>>
    BY DEF StartNext
  <2>4. CASE AlreadyRunning(s)
    <3>1. proc' = [proc EXCEPT ![p] = [proc[p] EXCEPT !.todo = proc[p].todo \ {s}]]
      BY <2>1, <2>4 DEF SetupInv, SetupTypeOK
    <3>2. PICK c : c = [proc[p] EXCEPT !.todo = proc[p].todo \ {s}]
      OBVIOUS
    <3>3. /\ c \in Processes /\ c.op = proc[p].op /\ c.step = "start" /\ c.s = proc[p].s
          /\ c.doc = proc[p].doc /\ c.todo = proc[p].todo \ {s} /\ c.alone = proc[p].alone
      BY <1>1, <3>2 DEF Processes
    <3>4. Formed(c)
      BY <1>1, <3>3 DEF Formed
    \* A restart that is alone has killed the session it starts.
    <3>5. ~(c.alone /\ c.op = "restart")
      <4>1. SUFFICES ASSUME c.alone, c.op = "restart" PROVE FALSE
        OBVIOUS
      <4>2. RestartDone(proc[p])
        BY <1>1, <3>3, <4>1 DEF HasDone
      <4>3. proc[p].todo = {s} /\ proc[p].s = s
        BY <1>1, <2>1, <3>3, <4>1 DEF Formed
      <4> QED BY <1>1, <2>4, <4>2, <4>3 DEF RestartDone, AlreadyRunning
    <3>6. c.alone => HasDone(c)'
      BY <1>1, <3>3, <3>5 DEF HasDone
    <3>7. Does(p, c)
      BY <3>1, <3>2, <3>3, <3>4, <3>6 DEF Does
    <3> QED BY <1>1, <1>2, <3>7, Keeps
  <2>5. CASE ~AlreadyRunning(s)
    <3>1. proc' = [proc EXCEPT ![p] = [proc[p] EXCEPT !.todo = proc[p].todo \ {s},
                                                       !.s = s, !.step = "new"]]
      BY <2>1, <2>5 DEF SetupInv, SetupTypeOK
    <3>2. PICK c : c = [proc[p] EXCEPT !.todo = proc[p].todo \ {s}, !.s = s, !.step = "new"]
      OBVIOUS
    <3>3. /\ c \in Processes /\ c.op = proc[p].op /\ c.step = "new" /\ c.s = s
          /\ c.doc = proc[p].doc /\ c.todo = proc[p].todo \ {s} /\ c.alone = proc[p].alone
      BY <1>1, <2>2, <3>2 DEF Processes
    <3>4. Formed(c)
      BY <1>1, <2>2, <3>3 DEF Formed
    <3>5. c.alone /\ c.op = "restart" => RestartDone(c)'
      <4>1. SUFFICES ASSUME c.alone, c.op = "restart" PROVE RestartDone(c)'
        OBVIOUS
      <4>2. RestartDone(proc[p])
        BY <1>1, <3>3, <4>1 DEF HasDone
      <4>3. c.doc = yaml /\ c.todo = {} /\ proc[p].s = s
        BY <1>1, <2>1, <3>3, <4>1, <4>2 DEF Formed, RestartDone
      <4>4. tmux[s] = Nothing
        BY <2>5 DEF AlreadyRunning
      <4> QED BY <2>3, <3>3, <4>3, <4>4 DEF RestartDone
    <3>6. c.alone => HasDone(c)'
      BY <1>1, <3>3, <3>5 DEF HasDone
    <3>7. Does(p, c)
      BY <3>1, <3>2, <3>3, <3>4, <3>6 DEF Does
    <3> QED BY <1>1, <1>2, <3>7, Keeps
  <2> QED BY <2>4, <2>5
<1> QED BY <1>3, <1>4

LEMMA NewSessionKeeps ==
    ASSUME SetupInv, NEW p \in Procs, NewSession(p)
    PROVE  SetupInv'
<1> DEFINE s == proc[p].s
           d == proc[p].doc.sessions[s].dir
<1>1. /\ Busy(p) /\ proc[p] \in Processes /\ Formed(proc[p])
      /\ proc[p].alone => HasDone(proc[p])
      /\ proc[p].step = "new" /\ proc[p].op \in {"up", "restart", "boot"}
      /\ proc[p].doc \in Documents /\ proc[p].todo \subseteq Placed(proc[p].doc)
      /\ s \in Placed(proc[p].doc)
  BY AtWork DEF NewSession, SetupInv, Formed
<1>2. s \in Sessions /\ d \in Dirs
  <2>1. s \in Sessions /\ proc[p].doc.sessions[s] # Nothing /\ d # NoDir
    BY <1>1 DEF Placed, Configured
  <2>2. proc[p].doc.sessions[s] \in Entries
    BY <1>1, <2>1 DEF Documents
  <2> QED BY <2>1, <2>2 DEF Entries
<1> HIDE DEF d
<1>3. PICK pane : pane = [dir |-> d, claude |-> TRUE]
  OBVIOUS
<1>4. pane \in Panes /\ pane # Nothing /\ pane.dir = d
  BY <1>2, <1>3, NoneIsNothing DEF Panes
<1>5. tmux' = IF tmux[s] # Nothing THEN tmux ELSE [tmux EXCEPT ![s] = pane]
  BY <1>3 DEF NewSession, d
<1>6. DataOK'
  <2>1. tmux' \in [Sessions -> Panes \cup {Nothing}]
    BY <1>2, <1>4, <1>5 DEF SetupInv, SetupTypeOK
  <2> QED BY <2>1 DEF SetupInv, SetupTypeOK, DataOK, NewSession, files
<1>7. PICK c : c = [proc[p] EXCEPT !.step = "start"]
  OBVIOUS
<1>8. /\ c \in Processes /\ c.op = proc[p].op /\ c.step = "start" /\ c.s = s
      /\ c.doc = proc[p].doc /\ c.todo = proc[p].todo /\ c.alone = proc[p].alone
  BY <1>1, <1>7 DEF Processes
<1>9. Formed(c)
  BY <1>1, <1>8 DEF Formed
<1>10. c.alone /\ c.op = "restart" => RestartDone(c)'
  <2>1. SUFFICES ASSUME c.alone, c.op = "restart" PROVE RestartDone(c)'
    OBVIOUS
  <2>2. RestartDone(proc[p])
    BY <1>1, <1>8, <2>1 DEF HasDone
  <2>3. proc[p].doc = yaml /\ proc[p].todo = {} /\ tmux[s] = Nothing
    BY <1>1, <2>2 DEF RestartDone
  <2>4. d = yaml.sessions[s].dir
    BY <2>3 DEF d
  <2>5. tmux'[s] = pane /\ yaml' = yaml
    BY <1>2, <1>5, <2>3 DEF SetupInv, SetupTypeOK, NewSession
  <2> QED BY <1>4, <1>8, <2>3, <2>4, <2>5 DEF RestartDone
<1>11. c.alone => HasDone(c)'
  BY <1>1, <1>8, <1>10 DEF HasDone
<1>12. Does(p, c)
  <2>1. GoTo(p, "start")
    BY DEF NewSession
  <2> QED BY <1>7, <1>8, <1>9, <1>11, <2>1, GoesTo DEF Does, SetupInv
<1> QED BY <1>1, <1>6, <1>12, Keeps

\* A command begins: it is formed and, if it is alone, has done nothing yet;
\* those that run are alone no longer.
LEMMA RunKeeps ==
    ASSUME SetupInv, NEW p \in Procs, NEW begun \in Processes, Run(p, begun), Formed(begun),
           begun.alone = Alone, HasDone(begun)'
    PROVE  SetupInv'
<1>1. DataOK'
  BY SessionSetupAssumption DEF SetupInv, SetupTypeOK, DataOK, Run, files
<1> DEFINE crowded(q) == [proc[q] EXCEPT !.alone = FALSE]
<1>2. \A q \in Procs : proc'[q] = IF q = p THEN begun ELSE IF Busy(q) THEN crowded(q) ELSE Nothing
  BY DEF Run
<1>3. \A q \in Procs : Busy(q) =>
        crowded(q) \in Processes /\ Formed(crowded(q)) /\ crowded(q).alone = FALSE
  <2> SUFFICES ASSUME NEW q \in Procs, Busy(q)
               PROVE  crowded(q) \in Processes /\ Formed(crowded(q)) /\ crowded(q).alone = FALSE
    OBVIOUS
  <2>1. proc[q] \in Processes /\ Formed(proc[q])
    BY AtWork DEF SetupInv
  <2>2. PICK c : c = crowded(q)
    OBVIOUS
  <2>3. /\ c \in Processes /\ c.alone = FALSE
        /\ c.op = proc[q].op /\ c.step = proc[q].step /\ c.s = proc[q].s
        /\ c.entry = proc[q].entry /\ c.force = proc[q].force /\ c.doc = proc[q].doc
        /\ c.token = proc[q].token /\ c.todo = proc[q].todo
    BY <2>1, <2>2 DEF Processes
  <2>4. Formed(c)
    BY <2>1, <2>3 DEF Formed
  <2> QED BY <2>2, <2>3, <2>4
<1> HIDE DEF crowded
<1>4. proc' \in [Procs -> Processes \cup {Nothing}]
  <2>1. DOMAIN proc' = Procs /\ proc' = [q \in Procs |-> proc'[q]]
    BY DEF Run
  <2> QED BY <1>2, <1>3, <2>1
<1>5. WellFormed'
  BY <1>2, <1>3 DEF WellFormed, Busy
<1>6. Solo'
  <2> SUFFICES ASSUME NEW q \in Procs, NEW r \in Procs,
                      proc'[q] # Nothing, proc'[q].alone, proc'[r] # Nothing
               PROVE  q = r
    BY DEF Solo, Busy
  <2>1. q = p /\ Alone
    BY <1>2, <1>3
  <2>2. ~Busy(r)
    BY <2>1 DEF Alone
  <2> QED BY <1>2, <2>1, <2>2
<1>7. DoneAlone'
  <2> SUFFICES ASSUME NEW q \in Procs, proc'[q] # Nothing, proc'[q].alone
               PROVE  HasDone(proc[q])'
    BY DEF DoneAlone, Busy
  <2>1. proc'[q] = begun
    BY <1>2, <1>3
  <2> QED BY <2>1 DEF HasDone, AddDone, RemoveDone, BotDone, RestartDone
<1> QED BY <1>1, <1>4, <1>5, <1>6, <1>7 DEF SetupInv, SetupTypeOK, DataOK

\* The token of a command that begins.
LEMMA NextToken ==
    ASSUME SetupInv, NEW p \in Procs, NEW begun, Run(p, begun)
    PROVE  spent + 1 \in Tokens
BY SessionSetupAssumption DEF SetupInv, SetupTypeOK, Run, Tokens

LEMMA BeginKeeps ==
    ASSUME SetupInv, NEW p \in Procs, NEW op \in {"add", "repair", "remove", "bot"},
           NEW s \in Sessions, NEW entry \in Entries \cup {Nothing}, NEW force \in BOOLEAN,
           NEW todo \in SUBSET Sessions, Begin(p, op, s, entry, force, todo),
           op = "add" => entry \in Entries /\ entry.dir \in Dirs
    PROVE  SetupInv'
<1>1. PICK begun : begun = [op |-> op, step |-> "peek", s |-> s, entry |-> entry, force |-> force,
                        doc |-> Nothing, token |-> spent + 1, todo |-> todo, alone |-> Alone]
  OBVIOUS
<1>2. Run(p, begun)
  BY <1>1 DEF Begin
<1>3. begun \in Processes
  <2>1. Alone \in BOOLEAN
    BY DEF Alone
  <2> QED BY <1>1, <1>2, <2>1, NextToken DEF Processes
<1>4. /\ begun.op = op /\ begun.step = "peek" /\ begun.s = s /\ begun.entry = entry
      /\ begun.alone = Alone
  BY <1>1
<1>5. Formed(begun) /\ HasDone(begun)'
  BY <1>4 DEF Formed, HasDone, AddDone, RemoveDone, BotDone
<1> QED BY <1>2, <1>3, <1>4, <1>5, RunKeeps

LEMMA StartsKeeps ==
    ASSUME SetupInv, NEW p \in Procs, NEW op \in {"up", "restart", "boot"},
           NEW step \in {"start", "kill", "register"}, NEW s \in Sessions \cup {Nothing},
           NEW todo \in SUBSET Configured(yaml), Starts(p, op, step, s, yaml, todo),
           step = "start" => todo \subseteq Placed(yaml),
           op = "restart" => s \in Placed(yaml) /\ step = "kill" /\ todo = {s}
    PROVE  SetupInv'
<1>1. PICK begun : begun = [op |-> op, step |-> step, s |-> s, entry |-> Nothing, force |-> FALSE,
                        doc |-> yaml, token |-> spent + 1, todo |-> todo, alone |-> Alone]
  OBVIOUS
<1>2. Run(p, begun)
  BY <1>1 DEF Starts
<1>3. yaml \in Documents
  BY DEF SetupInv, SetupTypeOK
<1>4. begun \in Processes
  <2>1. Alone \in BOOLEAN /\ todo \in SUBSET Sessions
    BY DEF Alone, Configured
  <2> QED BY <1>1, <1>2, <1>3, <2>1, NextToken DEF Processes
<1>5. /\ begun.op = op /\ begun.step = step /\ begun.s = s /\ begun.doc = yaml /\ begun.todo = todo
      /\ begun.alone = Alone
  BY <1>1
<1>6. Formed(begun)
  BY <1>3, <1>5 DEF Formed
<1>7. HasDone(begun)'
  <2>1. yaml' = yaml
    BY <1>2 DEF Run
  <2> QED BY <1>5, <2>1 DEF HasDone, RestartDone
<1> QED BY <1>2, <1>4, <1>5, <1>6, <1>7, RunKeeps

LEMMA CommandKeeps ==
    ASSUME SetupInv, NEW p \in Procs, NewCommand(p)
    PROVE  SetupInv'
<1>0. Placed(yaml) \subseteq Configured(yaml) /\ Configured(yaml) \subseteq Sessions
  BY DEF Placed, Configured
<1>1. CASE Add(p)
  <2>1. PICK s \in Sessions, d \in Dirs, auto \in AutoStart, force \in BOOLEAN :
          Begin(p, "add", s, [dir |-> d, auto |-> auto], force, {})
    BY <1>1 DEF Add
  <2>2. PICK e : e = [dir |-> d, auto |-> auto]
    OBVIOUS
  <2>3. e \in Entries /\ e.dir \in Dirs
    BY <2>2, SessionSetupAssumption DEF Entries
  <2> QED BY <2>1, <2>2, <2>3, BeginKeeps
<1>2. CASE Repair(p)
  <2>1. PICK s \in Sessions, force \in BOOLEAN : Begin(p, "repair", s, Nothing, force, {})
    BY <1>2 DEF Repair
  <2> QED BY <2>1, BeginKeeps
<1>3. CASE RepairAll(p)
  BY <1>0, <1>3, BeginKeeps DEF RepairAll
<1>4. CASE Remove(p)
  BY <1>4, BeginKeeps DEF Remove
<1>5. CASE Bot(p)
  BY <1>5, BeginKeeps DEF Bot
<1>6. CASE StartSession(p)
  BY <1>0, <1>6, StartsKeeps DEF StartSession
<1>7. CASE Up(p)
  BY <1>0, <1>7, StartsKeeps DEF Up
<1>8. CASE Restart(p)
  BY <1>0, <1>8, StartsKeeps DEF Restart
<1>9. CASE Boot(p)
  BY <1>0, <1>9, StartsKeeps DEF Boot
<1> QED BY <1>1, <1>2, <1>3, <1>4, <1>5, <1>6, <1>7, <1>8, <1>9 DEF NewCommand

\* Death is a step of the command that dies.
LEMMA KillKeeps ==
    ASSUME SetupInv, NEW p \in Procs, KillCommand(p)
    PROVE  SetupInv'
<1>1. /\ Busy(p) /\ proc[p] \in Processes /\ Formed(proc[p])
  BY AtWork DEF KillCommand, SetupInv
<1>2. mishaps' \in 0..MaxMishaps
  BY SessionSetupAssumption DEF KillCommand, SetupInv, SetupTypeOK
<1>3. tokenFile' \in [Sessions -> Tokens \cup {Nothing}]
  BY DEF KillCommand, WithoutToken, SetupInv, SetupTypeOK
<1>4. mcp' \in [Dirs -> Sessions \cup {Nothing, Broken}]
  BY DEF KillCommand, SetupInv, SetupTypeOK
<1>5. DataOK'
  BY <1>2, <1>3, <1>4 DEF KillCommand, SetupInv, SetupTypeOK, DataOK
<1>6. Does(p, Nothing)
  BY DEF Does, KillCommand
<1> QED BY <1>1, <1>5, <1>6, Keeps

\* While nobody is at work, what is nobody's doing disturbs nobody.
LEMMA PairKeeps ==
    ASSUME SetupInv, NEW s \in Sessions, Pair(s)
    PROVE  SetupInv'
<1>1. SetupTypeOK'
  BY DEF Pair, SetupInv, SetupTypeOK, files
<1>2. WellFormed' /\ Solo'
  BY DEF Pair, SetupInv, WellFormed, Solo, Busy
<1>3. DoneAlone'
  BY DEF Pair, Alone, DoneAlone, Busy
<1> QED BY <1>1, <1>2, <1>3 DEF SetupInv

\* That claude ends changes neither whether a tmux session is there, nor where.
LEMMA ClaudeExitsKeeps ==
    ASSUME SetupInv, NEW s \in Sessions, ClaudeExits(s)
    PROVE  SetupInv'
<1>1. /\ tmux[s] \in Panes
      /\ tmux' = [tmux EXCEPT ![s] = [tmux[s] EXCEPT !.claude = FALSE]]
  BY DEF ClaudeExits, SetupInv, SetupTypeOK
<1>2. PICK pane : pane = [tmux[s] EXCEPT !.claude = FALSE]
  OBVIOUS
<1>3. pane \in Panes /\ pane.dir = tmux[s].dir /\ pane # Nothing /\ tmux[s] # Nothing
  <2>1. pane \in Panes /\ pane.dir = tmux[s].dir
    BY <1>1, <1>2 DEF Panes
  <2> QED BY <1>1, <2>1, NoneIsNothing
<1>4. SetupTypeOK'
  <2>1. tmux' \in [Sessions -> Panes \cup {Nothing}]
    BY <1>1, <1>2, <1>3 DEF SetupInv, SetupTypeOK
  <2> QED BY <2>1 DEF ClaudeExits, SetupInv, SetupTypeOK, files
<1>5. WellFormed' /\ Solo'
  BY DEF ClaudeExits, SetupInv, WellFormed, Solo, Busy
<1>6. \A t \in Sessions : /\ tmux'[t] = Nothing <=> tmux[t] = Nothing
                          /\ tmux[t] # Nothing => tmux'[t].dir = tmux[t].dir
  BY <1>1, <1>2, <1>3 DEF SetupInv, SetupTypeOK
<1>7. DoneAlone'
  <2> SUFFICES ASSUME NEW p \in Procs, proc'[p] # Nothing, proc'[p].alone
               PROVE  HasDone(proc[p])'
    BY DEF DoneAlone, Busy
  <2>1. UNCHANGED <<yaml, draft, db, bound, tokenFile, mcp, hooks, proc>>
    BY DEF ClaudeExits, files
  <2>2. Busy(p) /\ proc[p].alone
    BY <2>1 DEF Busy
  <2>3. HasDone(proc[p]) /\ Formed(proc[p])
    BY <2>2, AtWork DEF SetupInv
  <2>4. proc[p].op = "restart" => proc[p].s \in Sessions
    BY <2>3 DEF Formed, Placed, Configured
  <2>5. proc[p].op = "restart" => RestartDone(proc[p])'
    BY <1>6, <2>1, <2>3, <2>4 DEF HasDone, RestartDone
  <2> QED BY <2>1, <2>3, <2>5 DEF HasDone, AddDone, RemoveDone, BotDone, WithBot, WithoutBot,
                                  Upserted, Unlisted
<1> QED BY <1>4, <1>5, <1>7 DEF SetupInv

-----------------------------------------------------------------------------
(* The invariant                                                           *)

\* Nobody is at work yet.
LEMMA InitSetupInv == SetupInit => SetupInv
<1> SUFFICES ASSUME SetupInit PROVE SetupInv
  OBVIOUS
<1>1. \A p \in Procs : ~Busy(p)
  BY DEF SetupInit, Busy
<1>2. yaml \in Documents
  <2>1. ByHand \in Entries
    BY DEF ByHand, Entries
  <2>2. PICK given :
          yaml = [sessions |-> [s \in Sessions |-> IF s \in given THEN ByHand ELSE Nothing],
                  bots |-> {}]
    BY DEF SetupInit
  <2> QED BY <2>1, <2>2 DEF Documents
<1>3. tmux \in [Sessions -> Panes \cup {Nothing}]
  <2>1. CASE tmux = [s \in Sessions |-> Nothing]
    BY <2>1
  <2>2. CASE \E d \in Dirs :
               tmux = [s \in Sessions |-> IF yaml.sessions[s] = Nothing THEN Nothing
                                         ELSE [dir |-> d, claude |-> FALSE]]
    BY <2>2 DEF Panes
  <2> QED BY <2>1, <2>2 DEF SetupInit
<1>4. SetupTypeOK
  BY <1>2, <1>3, SessionSetupAssumption DEF SetupInit, SetupTypeOK
<1> QED BY <1>1, <1>4 DEF SetupInv, WellFormed, Solo, DoneAlone

\* One case per action.
LEMMA StepKeeps ==
    ASSUME SetupInv, NEW p \in Procs, CommandStep(p)
    PROVE  SetupInv'
BY WriteDraftKeeps, RenameKeeps, RepairPeekKeeps, AddPeekKeeps, UpsertKeeps,
   CreateSessionKeeps, WriteTokenKeeps, WriteMcpKeeps, InstallHooksKeeps,
   RemovePeekKeeps, DeleteSessionKeeps, RemoveMcpKeeps, RemoveHooksKeeps,
   RemoveSessionKeeps, RemoveTokenKeeps, EditBotKeeps, BootRegistersKeeps,
   BootCreatesKeeps, KillSessionKeeps, StartNextKeeps, NewSessionKeeps
   DEF CommandStep

LEMMA NextSetupInv == SetupInv /\ [SetupNext]_setupVars => SetupInv'
<1> SUFFICES ASSUME SetupInv, [SetupNext]_setupVars PROVE SetupInv'
  OBVIOUS
<1>1. CASE \E p \in Procs : NewCommand(p) \/ CommandStep(p) \/ KillCommand(p)
  BY <1>1, CommandKeeps, StepKeeps, KillKeeps
<1>2. CASE \E s \in Sessions : Pair(s) \/ ClaudeExits(s)
  BY <1>2, PairKeeps, ClaudeExitsKeeps
<1>3. CASE UNCHANGED setupVars
  <2>1. SetupTypeOK'
    BY <1>3 DEF setupVars, files, SetupInv, SetupTypeOK
  <2>2. WellFormed' /\ Solo'
    BY <1>3 DEF setupVars, SetupInv, WellFormed, Solo, Busy
  <2>3. DoneAlone'
    BY <1>3 DEF setupVars, SetupInv, DoneAlone, Busy, HasDone, AddDone, RemoveDone, BotDone,
                RestartDone, WithBot, WithoutBot, Upserted, Unlisted
  <2> QED BY <2>1, <2>2, <2>3 DEF SetupInv
<1> QED BY <1>1, <1>2, <1>3 DEF SetupNext

\* So it holds of every state.
LEMMA SetupInvariance == SetupSpec => []SetupInv
BY InitSetupInv, NextSetupInv, PTL DEF SetupSpec

\* The places a session is written down in and the commands at work on them
\* keep their types: in particular no binding is left without its row.
THEOREM SetupTypeCorrect == SetupSpec => []SetupTypeOK
<1>1. SetupInv => SetupTypeOK
  BY DEF SetupInv
<1> QED BY <1>1, SetupInvariance, PTL

-----------------------------------------------------------------------------
(* The last steps                                                          *)

\* While a command that is alone is at work and no other begins, nobody else does
\* anything but claude, which may end.
LEMMA NobodyElse ==
    ASSUME SetupInv, NEW p \in Procs, Busy(p), proc[p].alone, [SetupNext]_setupVars,
           spent' = spent
    PROVE  \/ CommandStep(p) \/ KillCommand(p)
           \/ UNCHANGED <<yaml, draft, db, bound, files, proc>>
<1>1. ~Alone
  BY DEF Alone
<1>2. \A q \in Procs : Busy(q) => q = p
  BY DEF SetupInv, Solo
<1>3. ASSUME NEW q \in Procs, NewCommand(q) PROVE FALSE
  <2>1. spent' = spent + 1
    BY <1>3 DEF NewCommand, Add, Repair, RepairAll, Remove, Bot, StartSession, Up, Restart, Boot,
                Begin, Starts, Run
  <2> QED BY <2>1 DEF SetupInv, SetupTypeOK
<1>4. ASSUME NEW q \in Procs, CommandStep(q) PROVE Busy(q)
  BY <1>4 DEF CommandStep, At, WriteDraft, Rename, RepairPeek, AddPeek, Upsert, CreateSession,
              WriteToken, WriteMcp, InstallHooks, RemovePeek, DeleteSession, RemoveMcp,
              RemoveHooks, RemoveSession, RemoveToken, EditBot, BootRegisters, BootCreates,
              KillSession, StartNext, NewSession
<1>5. ASSUME NEW q \in Procs, KillCommand(q) PROVE Busy(q)
  BY <1>5 DEF KillCommand
<1>6. ASSUME NEW s \in Sessions, Pair(s) PROVE FALSE
  BY <1>1, <1>6 DEF Pair
<1>7. ASSUME NEW s \in Sessions, ClaudeExits(s)
      PROVE  UNCHANGED <<yaml, draft, db, bound, files, proc>>
  BY <1>7 DEF ClaudeExits
<1>8. CASE UNCHANGED setupVars
  BY <1>8 DEF setupVars, files
<1>9. CASE SetupNext
  BY <1>2, <1>3, <1>4, <1>5, <1>6, <1>7, <1>9 DEF SetupNext
<1> QED BY <1>8, <1>9

\* So is the last step of a command that nothing came between.
LEMMA LastStep ==
    ASSUME SetupInv, [SetupNext]_setupVars,
           NEW p \in Procs, NEW op, NEW step, EndsAlone(p, op, step)
    PROVE  /\ CommandStep(p) /\ proc[p] \in Processes /\ Formed(proc[p]) /\ HasDone(proc[p])
           /\ proc[p].op = op /\ proc[p].step = step
<1>1. /\ Busy(p) /\ proc[p].alone /\ spent' = spent /\ mishaps' = mishaps
      /\ proc'[p] # proc[p] /\ proc[p].op = op /\ proc[p].step = step
  BY DEF EndsAlone, At
<1>2. ~KillCommand(p)
  BY <1>1 DEF KillCommand, SetupInv, SetupTypeOK
<1> QED BY <1>1, <1>2, NobodyElse, AtWork DEF SetupInv

\* An add that nothing came between has made each place agree by its last step,
\* whatever earlier commands left there (runSessionAdd, sessions-add.ts:97).
THEOREM AddLeavesUsable == SetupSpec => AddMakesUsable
<1>1. ASSUME SetupInv, [SetupNext]_setupVars, NEW p \in Procs, EndsAlone(p, "add", "hooks")
      PROVE  LET s == proc[p].s
                 e == proc[p].entry IN
             /\ yaml'.sessions[s] = e
             /\ db'[s] # Nothing /\ tokenFile'[s] = db'[s]
             /\ mcp'[e.dir] = s
             /\ e.dir \notin BadSettings => s \in hooks'[e.dir]
  <2>1. /\ CommandStep(p) /\ proc[p] \in Processes /\ Formed(proc[p]) /\ HasDone(proc[p])
        /\ proc[p].op = "add" /\ proc[p].step = "hooks"
    BY <1>1, LastStep
  <2>2. InstallHooks(p)
    BY <2>1 DEF CommandStep, At, WriteDraft, Rename, RepairPeek, AddPeek, Upsert, CreateSession,
                WriteToken, WriteMcp, RemovePeek, DeleteSession, RemoveMcp, RemoveHooks,
                RemoveSession, RemoveToken, EditBot, BootRegisters, BootCreates, KillSession,
                StartNext, NewSession
  <2>3. /\ yaml.sessions[proc[p].s] = proc[p].entry
        /\ db[proc[p].s] = proc[p].token /\ tokenFile[proc[p].s] = proc[p].token
        /\ mcp[proc[p].entry.dir] = proc[p].s
    BY <2>1 DEF HasDone, AddDone
  <2>4. proc[p].token # Nothing
    BY <2>1, NoneIsNothing DEF Processes
  <2>5. UNCHANGED <<yaml, db, tokenFile, mcp>>
    BY <2>2 DEF InstallHooks
  <2>6. proc[p].s \in Sessions /\ proc[p].entry.dir \in Dirs
    BY <2>1 DEF Formed
  <2>7. proc[p].entry.dir \notin BadSettings => proc[p].s \in hooks'[proc[p].entry.dir]
    BY <1>1, <2>2, <2>6 DEF InstallHooks, Hooked, SetupInv, SetupTypeOK
  <2> QED BY <2>3, <2>4, <2>5, <2>7
<1>2. SetupInv /\ [SetupNext]_setupVars =>
        \A p \in Procs :
          EndsAlone(p, "add", "hooks") =>
            LET s == proc[p].s
                e == proc[p].entry IN
            /\ yaml'.sessions[s] = e
            /\ db'[s] # Nothing /\ tokenFile'[s] = db'[s]
            /\ mcp'[e.dir] = s
            /\ e.dir \notin BadSettings => s \in hooks'[e.dir]
  BY <1>1
<1> QED BY <1>2, SetupInvariance, PTL DEF SetupSpec, AddMakesUsable

\* What a remove has taken away, nothing puts back before its last step
\* (runSessionRemove, sessions-remove.ts:42).
THEOREM RemoveLeavesClean == SetupSpec => RemoveLeavesNothing
<1>1. ASSUME SetupInv, [SetupNext]_setupVars, NEW p \in Procs, EndsAlone(p, "remove", "untoken")
      PROVE  LET s == proc[p].s
                 e == proc[p].entry IN
             /\ yaml'.sessions[s] = Nothing /\ db'[s] = Nothing /\ tokenFile'[s] = Nothing /\ s \notin bound'
             /\ ~proc[p].force /\ e.dir # NoDir =>
                  /\ mcp'[e.dir] # s
                  /\ e.dir \notin BadSettings => s \notin hooks'[e.dir]
  <2>1. /\ CommandStep(p) /\ proc[p] \in Processes /\ Formed(proc[p]) /\ HasDone(proc[p])
        /\ proc[p].op = "remove" /\ proc[p].step = "untoken"
    BY <1>1, LastStep
  <2>2. RemoveToken(p)
    BY <2>1 DEF CommandStep, At, WriteDraft, Rename, RepairPeek, AddPeek, Upsert, CreateSession,
                WriteToken, WriteMcp, InstallHooks, RemovePeek, DeleteSession, RemoveMcp,
                RemoveHooks, RemoveSession, EditBot, BootRegisters, BootCreates, KillSession,
                StartNext, NewSession
  <2>3. UNCHANGED <<yaml, db, bound, mcp, hooks>>
    BY <2>2 DEF RemoveToken
  <2>4. tokenFile'[proc[p].s] = Nothing
    BY <1>1, <2>1, <2>2 DEF RemoveToken, WithoutToken, Formed, SetupInv, SetupTypeOK
  <2> QED BY <2>1, <2>3, <2>4 DEF HasDone, RemoveDone
<1>2. SetupInv /\ [SetupNext]_setupVars =>
        \A p \in Procs :
          EndsAlone(p, "remove", "untoken") =>
            LET s == proc[p].s
                e == proc[p].entry IN
            /\ yaml'.sessions[s] = Nothing /\ db'[s] = Nothing /\ tokenFile'[s] = Nothing /\ s \notin bound'
            /\ ~proc[p].force /\ e.dir # NoDir =>
                 /\ mcp'[e.dir] # s
                 /\ e.dir \notin BadSettings => s \notin hooks'[e.dir]
  BY <1>1
<1> QED BY <1>2, SetupInvariance, PTL DEF SetupSpec, RemoveLeavesNothing

\* What is another session's, t's, stays as it is.
Kept(t) ==
    /\ t \in yaml.bots <=> t \in yaml'.bots
    /\ yaml'.sessions[t] = yaml.sessions[t] /\ db'[t] = db[t] /\ tokenFile'[t] = tokenFile[t]
    /\ t \in bound <=> t \in bound'
    /\ \A d \in Dirs : t \in hooks[d] <=> t \in hooks'[d]

\* The config a command that is alone writes is the one it read, but for its session.
LEMMA RenameSpares ==
    ASSUME SetupInv, NEW p \in Procs, proc[p].alone, NEW t \in Sessions, t # proc[p].s, Rename(p)
    PROVE  (t \in yaml.bots <=> t \in yaml'.bots) /\ yaml'.sessions[t] = yaml.sessions[t]
<1>1. /\ Busy(p) /\ proc[p].step = "rename" /\ Formed(proc[p]) /\ HasDone(proc[p])
      /\ proc[p].op \in {"add", "remove", "bot"} /\ proc[p].s \in Sessions
  BY AtWork DEF Rename, SetupInv, Formed
<1>2. yaml' \in {yaml, draft} /\ yaml \in Documents
  BY DEF Rename, SetupInv, SetupTypeOK
<1>3. CASE proc[p].op = "add"
  <2>1. draft = Upserted(yaml, proc[p].s, proc[p].entry) /\ proc[p].entry \in Entries
    BY <1>1, <1>3 DEF HasDone, AddDone, Formed
  <2>2. draft.bots = yaml.bots /\ draft.sessions[t] = yaml.sessions[t]
    BY <1>1, <1>2, <2>1, UpsertedReads
  <2> QED BY <1>2, <2>2
<1>4. CASE proc[p].op = "remove"
  <2>1. draft = Unlisted(yaml, proc[p].s)
    BY <1>1, <1>4 DEF HasDone, RemoveDone
  <2>2. draft.bots = yaml.bots /\ draft.sessions[t] = yaml.sessions[t]
    BY <1>1, <1>2, <2>1, UnlistedReads
  <2> QED BY <1>2, <2>2
<1>5. CASE proc[p].op = "bot"
  <2>1. draft \in {WithBot(yaml, proc[p].s), WithoutBot(yaml, proc[p].s)}
    BY <1>1, <1>5 DEF HasDone, BotDone
  <2>2. PICK new \in {WithBot(yaml, proc[p].s), WithoutBot(yaml, proc[p].s)} : draft = new
    BY <2>1
  <2>3. /\ new.sessions = yaml.sessions
        /\ \A r \in Sessions \ {proc[p].s} : r \in new.bots <=> r \in yaml.bots
    BY <1>1, <1>2, BotReads
  <2> QED BY <1>2, <2>2, <2>3
<1> QED BY <1>1, <1>3, <1>4, <1>5

LEMMA SparesOthers ==
    ASSUME SetupInv, NEW p \in Procs, Busy(p), proc[p].alone,
           proc[p].op \in {"add", "remove", "bot"}, NEW t \in Sessions, t # proc[p].s,
           CommandStep(p) \/ KillCommand(p)
    PROVE  Kept(t)
<1>1. proc[p].s \in Sessions /\ Formed(proc[p]) /\ SetupTypeOK
  BY AtWork DEF Formed, SetupInv
<1>2. CASE Rename(p)
  BY <1>2, RenameSpares DEF Kept, Rename, files
<1>3. CASE CreateSession(p)
  BY <1>1, <1>3 DEF Kept, CreateSession, files, SetupTypeOK
<1>4. CASE WriteToken(p)
  BY <1>1, <1>4 DEF Kept, WriteToken, SetupTypeOK
<1>5. CASE InstallHooks(p)
  BY <1>1, <1>5 DEF Kept, InstallHooks, Hooked, SetupTypeOK
<1>6. CASE DeleteSession(p)
  BY <1>1, <1>6 DEF Kept, DeleteSession, Unbound, files, SetupTypeOK
<1>7. CASE RemoveHooks(p)
  BY <1>1, <1>7 DEF Kept, RemoveHooks, SetupTypeOK
<1>8. CASE RemoveToken(p)
  BY <1>1, <1>8 DEF Kept, RemoveToken, WithoutToken, SetupTypeOK
<1>9. CASE KillCommand(p)
  BY <1>1, <1>9 DEF Kept, KillCommand, WithoutToken, SetupTypeOK
<1>10. CASE WriteDraft(p) \/ RepairPeek(p) \/ AddPeek(p) \/ Upsert(p) \/ WriteMcp(p)
            \/ RemovePeek(p) \/ RemoveMcp(p) \/ RemoveSession(p) \/ EditBot(p)
            \/ StartNext(p) \/ NewSession(p)
  BY <1>10 DEF Kept, files, WriteDraft, RepairPeek, AddPeek, Upsert, WriteMcp, RemovePeek,
               RemoveMcp, RemoveSession, EditBot, StartNext, NewSession
<1>11. ~BootRegisters(p) /\ ~BootCreates(p) /\ ~KillSession(p)
  BY DEF BootRegisters, BootCreates, KillSession, At
<1> QED BY <1>2, <1>3, <1>4, <1>5, <1>6, <1>7, <1>8, <1>9, <1>10, <1>11 DEF CommandStep

\* A command that is alone has read what is there, so all it writes is about its
\* session (atomicWrite of what it read, config-writer.ts:251).
THEOREM OthersAreSpared == SetupSpec => OthersKeepTheirs
<1>1. ASSUME SetupInv, [SetupNext]_setupVars, NEW p \in Procs, NEW t \in Sessions,
             Busy(p), proc[p].alone, proc[p].op \in {"add", "remove", "bot"}, t # proc[p].s, spent' = spent
      PROVE  Kept(t)
  <2>1. CASE CommandStep(p) \/ KillCommand(p)
    BY <1>1, <2>1, SparesOthers
  <2>2. CASE UNCHANGED <<yaml, draft, db, bound, files, proc>>
    BY <2>2 DEF Kept, files
  <2> QED BY <1>1, <2>1, <2>2, NobodyElse
<1>2. SetupInv /\ [SetupNext]_setupVars =>
        \A p \in Procs : \A t \in Sessions :
          Busy(p) /\ proc[p].alone /\ proc[p].op \in {"add", "remove", "bot"}
            /\ t # proc[p].s /\ spent' = spent =>
            /\ t \in yaml.bots <=> t \in yaml'.bots
            /\ yaml'.sessions[t] = yaml.sessions[t] /\ db'[t] = db[t]
               /\ tokenFile'[t] = tokenFile[t]
            /\ t \in bound <=> t \in bound'
            /\ \A d \in Dirs : t \in hooks[d] <=> t \in hooks'[d]
  BY <1>1 DEF Kept
<1> QED BY <1>2, SetupInvariance, PTL DEF SetupSpec, OthersKeepTheirs

\* A restart kills what is there before it starts, and nothing can start between
\* (runSessionRestart, sessions.ts:154).
THEOREM RestartMovesThere == SetupSpec => RestartMoves
<1>1. ASSUME SetupInv, [SetupNext]_setupVars, NEW p \in Procs, EndsAlone(p, "restart", "start"),
             proc[p].todo = {}
      PROVE  tmux[proc[p].s] # Nothing /\ tmux[proc[p].s].dir = yaml.sessions[proc[p].s].dir
  <2>1. HasDone(proc[p]) /\ proc[p].op = "restart" /\ proc[p].step = "start"
    BY <1>1, LastStep
  <2> QED BY <1>1, <2>1 DEF HasDone, RestartDone
<1>2. SetupInv /\ [SetupNext]_setupVars =>
        \A p \in Procs :
          EndsAlone(p, "restart", "start") /\ proc[p].todo = {} =>
            LET s == proc[p].s IN
            tmux[s] # Nothing /\ tmux[s].dir = yaml.sessions[s].dir
  BY <1>1
<1> QED BY <1>2, SetupInvariance, PTL DEF SetupSpec, RestartMoves
================================================================================
