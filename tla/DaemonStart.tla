----------------------------- MODULE DaemonStart -----------------------------
(***************************************************************************)
(* Starting and stopping rederd: the IPC socket path and the PID lock file *)
(* shared by all instances of a machine.  packages/daemon/src/index.ts,    *)
(* lifecycle.ts, bootstrap.ts and the two ends of core/src/ipc/server.ts.  *)
(*                                                                         *)
(* An instance binds the socket in bootstrap and asks for the lock after   *)
(* it.  Each system call on the two paths is a step, for the steps of      *)
(* other processes may come between any two of them.  The pid file is      *)
(* named by the instance that created it; it is empty until that instance  *)
(* has written its pid.  No pid is used twice.                             *)
(***************************************************************************)
EXTENDS Naturals, FiniteSets

CONSTANTS
    Pids,      \* instances of rederd, each started once at most
    None,      \* "no file"
    MaxKills   \* bound: instances killed

ASSUME DaemonStartAssumption ==
    /\ None \notin Pids
    /\ MaxKills \in Nat

VARIABLES
    phase,   \* what each instance does next
    seen,    \* the pid read from the lock file
    sock,    \* whose socket rederd.sock names, or None
    pidFile, \* who created rederd.pid, or None
    written, \* instances that wrote their pid
    killed,  \* instances killed by a signal they do not handle
    robbed,  \* (history) instances whose lock file another took for a different one
    apart    \* (history) has no instance been started while another was starting?

history == <<robbed, apart>>
vars == <<phase, seen, sock, pidFile, written, killed, history>>

Starting == {"booting", "unlinked", "locking", "created", "reading", "checking",
             "removing", "refused"}
Serving == {"ready", "stopping", "releasing"}
Locked == {"created"} \cup Serving

TypeOK ==
    /\ phase \in [Pids -> {"off", "gone"} \cup Starting \cup Serving]
    /\ seen \in [Pids -> Pids \cup {None}]
    /\ sock \in Pids \cup {None}
    /\ pidFile \in Pids \cup {None}
    /\ written \in SUBSET Pids
    /\ killed \in SUBSET Pids
    /\ robbed \in SUBSET Pids /\ apart \in BOOLEAN

Init ==
    /\ phase = [p \in Pids |-> "off"]
    /\ seen = [p \in Pids |-> None]
    /\ sock = None
    /\ pidFile = None
    /\ written = {}
    /\ killed = {}
    /\ robbed = {} /\ apart = TRUE

Alive(p) == phase[p] \notin {"off", "gone"}

-----------------------------------------------------------------------------
(* Faults a mutated definition stands for; Next never uses them.           *)

\* kill(0, 0), which signals the caller's own group, succeeds: the content of
\* an empty file is not rejected before.
NonZeroUnchecked(p) == seen[p] # None /\ ~Alive(seen[p])

\* EEXIST is taken for a stale lock without asking whether its owner lives.
AlwaysStale(p) == TRUE

-----------------------------------------------------------------------------
(* Starting                                                                *)

\* openSync(pidPath, 'wx') succeeds.
LockIsFree == pidFile = None

\* The lock read by p is given up for stale: bad content, or a dead pid.
Stale(p) == seen[p] = None \/ ~Alive(seen[p])

\* The instance serves.
Ready == "ready"

Goto(p, next) == phase' = [phase EXCEPT ![p] = next]

Start(p) ==
    /\ phase[p] = "off"
    /\ Goto(p, "booting")
    /\ apart' = (apart /\ \A q \in Pids : phase[q] \notin Starting)
    /\ UNCHANGED <<seen, sock, pidFile, written, killed, robbed>>

\* createIpcServer removes whatever the socket path names ...
UnlinkSocket(p) ==
    /\ phase[p] = "booting"
    /\ sock' = None
    /\ Goto(p, "unlinked")
    /\ UNCHANGED <<seen, pidFile, written, killed, history>>

\* ... and listens; if another instance was faster, bootstrap fails.
Bind(p) ==
    /\ phase[p] = "unlinked"
    /\ IF sock = None
       THEN sock' = p /\ Goto(p, "locking")
       ELSE Goto(p, "gone") /\ UNCHANGED sock
    /\ UNCHANGED <<seen, pidFile, written, killed, history>>

CreateLock(p) ==
    /\ phase[p] = "locking" /\ LockIsFree
    /\ pidFile' = p
    /\ Goto(p, "created")
    /\ UNCHANGED <<seen, sock, written, killed, history>>

\* writeSync: into the file it created, whether that still has the name or not.
WritePid(p) ==
    /\ phase[p] = "created"
    /\ written' = written \cup {p}
    /\ Goto(p, Ready)
    /\ UNCHANGED <<seen, sock, pidFile, killed, history>>

LockExists(p) ==
    /\ phase[p] = "locking" /\ ~LockIsFree
    /\ Goto(p, "reading")
    /\ UNCHANGED <<seen, sock, pidFile, written, killed, history>>

\* readFileSync: an instance that finds the file gone by now dies of ENOENT.
ReadLock(p) ==
    /\ phase[p] = "reading"
    /\ IF pidFile = None
       THEN Goto(p, "gone") /\ UNCHANGED seen
       ELSE /\ seen' = [seen EXCEPT ![p] = IF pidFile \in written THEN pidFile ELSE None]
            /\ Goto(p, "checking")
    /\ UNCHANGED <<sock, pidFile, written, killed, history>>

\* process.kill(existing, 0).
CheckOwner(p) ==
    /\ phase[p] = "checking"
    /\ Goto(p, IF Stale(p) THEN "removing" ELSE "refused")
    /\ UNCHANGED <<seen, sock, pidFile, written, killed, history>>

\* unlinkSync, of whatever lock has the name now, and acquirePidLock again; an
\* instance that finds no file dies of ENOENT.
RemoveLock(p) ==
    /\ phase[p] = "removing"
    /\ pidFile' = None
    /\ Goto(p, IF pidFile = None THEN "gone" ELSE "locking")
    /\ robbed' = robbed \cup {q \in Pids : q = pidFile /\ q # seen[p] /\ phase[q] \in Locked}
    /\ UNCHANGED <<seen, sock, written, killed, apart>>

\* AlreadyRunningError: stop() closes the server and unlinks the socket path.
Refused(p) ==
    /\ phase[p] = "refused"
    /\ sock' = None
    /\ Goto(p, "gone")
    /\ UNCHANGED <<seen, pidFile, written, killed, history>>

-----------------------------------------------------------------------------
(* Stopping                                                                *)

\* SIGTERM or SIGINT, handled from the moment the lock is held.
Signal(p) ==
    /\ phase[p] = "ready"
    /\ Goto(p, "stopping")
    /\ UNCHANGED <<seen, sock, pidFile, written, killed, history>>

\* stop(): the socket path is unlinked.
CloseSocket(p) ==
    /\ phase[p] = "stopping"
    /\ sock' = None
    /\ Goto(p, "releasing")
    /\ UNCHANGED <<seen, pidFile, written, killed, history>>

\* releaseLock, which unlinks whatever has the name, and exit.
ReleaseLock(p) ==
    /\ phase[p] = "releasing"
    /\ pidFile' = None
    /\ Goto(p, "gone")
    /\ robbed' = robbed \cup {q \in Pids : q = pidFile /\ q # p /\ p \in robbed}
    /\ UNCHANGED <<seen, sock, written, killed, apart>>

\* SIGKILL, a crash, SIGTERM before its handler is installed, or process.exit
\* when stopping takes longer than timeoutMs or a second signal comes.
Kill(p) ==
    /\ Alive(p)
    /\ Cardinality(killed) < MaxKills
    /\ Goto(p, "gone")
    /\ killed' = killed \cup {p}
    /\ UNCHANGED <<seen, sock, pidFile, written, history>>

-----------------------------------------------------------------------------
Step(p) ==
    \/ UnlinkSocket(p) \/ Bind(p)
    \/ CreateLock(p) \/ WritePid(p)
    \/ LockExists(p) \/ ReadLock(p) \/ CheckOwner(p) \/ RemoveLock(p)
    \/ Refused(p)
    \/ CloseSocket(p) \/ ReleaseLock(p)

Next == \E p \in Pids : Start(p) \/ Step(p) \/ Signal(p) \/ Kill(p)

\* A process goes on; nobody has to start, stop or kill one.
Fairness == \A p \in Pids : WF_vars(Step(p))

Safety == Init /\ [][Next]_vars
Spec == Safety /\ Fairness

-----------------------------------------------------------------------------
(* Safety                                                                  *)

\* An instance that serves has its lock file in place, so that the next one is
\* refused: nobody takes a live one's pid for a dead one's.  Where starts overlap an
\* instance may be robbed of it, by one that judged the file that had the name before,
\* or this one while it was empty, or by another that was robbed and releases; as
\* long as they do not nobody is, whatever killed ones have left.
ServingHoldsLock ==
    \A p \in Pids : phase[p] \in Serving =>
        \/ pidFile = p /\ p \in written
        \/ p \in robbed /\ ~apart

\* So at most one of those that serve has not been robbed.
OneServing ==
    \A p, q \in Pids \ robbed : phase[p] \in Serving /\ phase[q] \in Serving => p = q

-----------------------------------------------------------------------------
(* Liveness                                                                *)

\* An instance started while no other is alive gets to serve, whatever was left
\* by those killed before it: an empty lock, a dead pid's lock, a dead socket; but
\* for overlapping starts, where one may take the socket or the lock of another.
StaleLockGivesWay ==
    \A p \in Pids :
      phase[p] = "booting" /\ (\A q \in Pids \ {p} : ~Alive(q))
        ~> phase[p] = "ready" \/ p \in killed \/ ~apart

-----------------------------------------------------------------------------
(* What the documents say and the code does not do                         *)

\* reder-prd.md, F2.1: concurrent instances are prevented via the PID lockfile.
\* So one that was refused leaves the one that serves as it was, and the shims
\* still reach it.
ServingIsReachable ==
    \A p \in Pids :
      phase[p] = "ready" /\ (\A q \in Pids \ {p} : ~Alive(q)) /\ apart => sock = p

\* lifecycle.ts:16: acquirePidLock fails if another process already holds the lock.
\* So there are no two that hold it.
LockIsExclusive ==
    \A p, q \in Pids : phase[p] \in Serving /\ phase[q] \in Serving => p = q
=============================================================================
