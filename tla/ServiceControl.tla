---------------------------- MODULE ServiceControl ----------------------------
(***************************************************************************)
(* The commands that run rederd, on top of DaemonStart: reder start, stop, *)
(* restart and init, the systemd user unit that init installs, and the     *)
(* token of the web dashboard, which an instance reads when it starts and  *)
(* `reder dashboard rotate-token` replaces.  packages/cli/src/commands:    *)
(* service.ts, init.ts, systemd.ts, dashboard.ts; adapter-web/src/auth.ts. *)
(*                                                                         *)
(* One command runs at a time.  It sees of the daemon what the pid file    *)
(* says, and goes on while the daemon does.  Tokens are numbered in the    *)
(* order they are made; 0 is no token.                                     *)
(***************************************************************************)
EXTENDS DaemonStart

CONSTANT MaxCommands    \* bound: commands run

ASSUME ServiceControlAssumption == MaxCommands \in Nat

VARIABLES
    cmd,      \* what the command does next, or "none"
    again,    \* is it a restart, which starts after it has stopped?
    result,   \* what the last command printed
    commands, \* commands run
    last,     \* the instance the last command started or signalled, or None
    unit,     \* does systemd know reder.service?
    managed,  \* the instance it runs or ran last, or None after a stop
    clean,    \* instances that ended with exit(0)
    file,     \* the token whose hash dashboard.token holds
    raw,      \* is it there as it is, from an old install?
    minted,   \* tokens made so far
    making,   \* instances that found no token file
    hash,     \* the token each instance accepts
    handed,   \* the token of the last URL printed
    since,    \* (history) instances started after it was printed
    spoiled   \* (history) has an instance that found no token file replaced it since?

cli == <<cmd, again, result, commands, last>>
systemd == <<unit, managed, clean>>
token == <<file, raw, minted, making, hash, handed, since, spoiled>>
allVars == <<vars, cli, systemd, token>>

Steps == {"none", "stop", "signal", "wait", "start", "check", "launch", "enable",
          "enabling", "rotate"}
Results == {"none", "started", "refused", "stopped", "failed", "printed"}

ServiceTypeOK ==
    /\ TypeOK
    /\ cmd \in Steps /\ again \in BOOLEAN /\ result \in Results /\ commands \in 0..MaxCommands
    /\ last \in Pids \cup {None}
    /\ unit \in BOOLEAN /\ managed \in Pids \cup {None} /\ clean \in SUBSET Pids
    /\ file \in Nat /\ raw \in BOOLEAN /\ minted \in Nat
    /\ making \in SUBSET Pids /\ hash \in [Pids -> Nat]
    /\ handed \in Nat /\ since \in SUBSET Pids /\ spoiled \in BOOLEAN

\* A new install, or one whose token file is of the old format.
ServiceInit ==
    /\ Init
    /\ cmd = "none" /\ again = FALSE /\ result = "none" /\ commands = 0 /\ last = None
    /\ unit = FALSE /\ managed = None /\ clean = {}
    /\ raw \in BOOLEAN
    /\ file = IF raw THEN 1 ELSE 0
    /\ minted = file
    /\ making = {} /\ hash = [p \in Pids |-> 0] /\ handed = 0 /\ since = {}
    /\ spoiled = FALSE

-----------------------------------------------------------------------------
(* Faults a mutated definition stands for; ServiceNext never uses them.    *)

\* A start looks for no process.
NeverFound == FALSE

\* An instance makes a token of its own each time it starts.
AlwaysNew == FALSE

-----------------------------------------------------------------------------
(* The dashboard's token                                                   *)

\* loadOrCreateToken finds a token file.
TokenFound == file # 0

\* The web adapter starts inside bootstrap: after the socket is bound, before the
\* lock is asked for.
LoadToken(p) ==
    /\ phase[p] = "locking" /\ hash[p] = 0 /\ p \notin making
    /\ IF TokenFound
       THEN hash' = [hash EXCEPT ![p] = file] /\ UNCHANGED making
       ELSE making' = making \cup {p} /\ UNCHANGED hash
    /\ UNCHANGED <<vars, cli, systemd, file, raw, minted, handed, since, spoiled>>

\* writeTokenFile: a rename, over whatever is there by now.
CreateToken(p) ==
    /\ p \in making /\ phase[p] = "locking" /\ hash[p] = 0
    /\ minted' = minted + 1
    /\ file' = minted + 1 /\ raw' = FALSE
    /\ hash' = [hash EXCEPT ![p] = minted + 1]
    /\ spoiled' = (spoiled \/ (TokenFound /\ file = handed))
    /\ UNCHANGED <<vars, cli, systemd, making, handed, since>>

\* runDashboardRotateToken removes the file, and with it the token printed before ...
Rotate ==
    /\ cmd = "none" /\ commands < MaxCommands
    /\ commands' = commands + 1
    /\ cmd' = "rotate" /\ result' = "none"
    /\ file' = 0 /\ raw' = FALSE /\ handed' = 0
    /\ UNCHANGED <<vars, again, last, systemd, minted, making, hash, since, spoiled>>

\* ... and puts the hash of the token it prints in its place.
WriteRotated ==
    /\ cmd = "rotate"
    /\ cmd' = "none" /\ result' = "printed"
    /\ minted' = minted + 1
    /\ file' = minted + 1
    /\ handed' = minted + 1
    /\ since' = {} /\ spoiled' = FALSE
    /\ UNCHANGED <<vars, again, commands, last, systemd, raw, making, hash>>

\* runDashboardUrl: only a token that is not hashed can be printed.
DashboardUrl ==
    /\ cmd = "none" /\ commands < MaxCommands
    /\ commands' = commands + 1
    /\ IF TokenFound /\ raw
       THEN result' = "printed" /\ handed' = file /\ since' = {} /\ spoiled' = FALSE
       ELSE result' = "failed" /\ UNCHANGED <<handed, since, spoiled>>
    /\ UNCHANGED <<vars, cmd, again, last, systemd, file, raw, minted, making, hash>>

-----------------------------------------------------------------------------
(* Instances                                                               *)

Launched(p) ==
    /\ Start(p)
    /\ since' = since \cup {p}
    /\ UNCHANGED <<file, raw, minted, making, hash, handed, spoiled>>

\* An instance asks for the lock when its adapters have started.
DaemonStep(p) ==
    /\ phase[p] = "locking" => hash[p] # 0
    /\ Step(p)
    /\ clean' = IF phase[p] = "releasing" THEN clean \cup {p} ELSE clean
    /\ UNCHANGED <<cli, unit, managed, token>>

Crash(p) == Kill(p) /\ UNCHANGED <<cli, systemd, token>>

\* The instance systemd manages runs.
UnitRuns == managed # None /\ Alive(managed)

\* Restart=on-failure, unless the unit is being stopped.
SystemdRestart(p) ==
    /\ managed # None /\ ~UnitRuns /\ managed \notin clean
    /\ cmd \notin {"signal", "enabling"}
    /\ Launched(p)
    /\ managed' = p
    /\ UNCHANGED <<cli, unit, clean>>

-----------------------------------------------------------------------------
(* Commands                                                                *)

Idle == UNCHANGED <<vars, systemd, token>>
Done(what) == cmd' = "none" /\ result' = what /\ UNCHANGED <<again, commands>>
GoOn(next) == cmd' = next /\ UNCHANGED <<again, result, commands>>
Nobody == UNCHANGED last

Command(first, restart) ==
    /\ cmd = "none" /\ commands < MaxCommands
    /\ commands' = commands + 1
    /\ cmd' = first /\ again' = restart /\ result' = "none" /\ last' = None
    /\ Idle

RunStart == Command("start", FALSE)
RunStop == Command("stop", FALSE)
RunRestart == Command("stop", TRUE)

\* What the file says: Number('') is 0, and kill(0, ...) finds the caller's group.
Empty == pidFile # None /\ pidFile \notin written

\* process.kill(pid, 0) succeeds.
FoundRunning == Empty \/ (pidFile # None /\ Alive(pidFile))

\* runStart: existsSync ...
LookForPid ==
    /\ cmd = "start"
    /\ GoOn(IF pidFile = None THEN "launch" ELSE "check") /\ Nobody
    /\ Idle

\* ... and readFileSync, which throws if the file has gone.
CheckPid ==
    /\ cmd = "check"
    /\ IF pidFile = None THEN Done("failed")
       ELSE IF FoundRunning THEN Done("refused") ELSE GoOn("launch")
    /\ Nobody
    /\ Idle

\* No unit: a child is forked.  The unit is started, unless it runs.
Launch ==
    /\ cmd = "launch"
    /\ Done("started")
    /\ \/ /\ unit /\ UnitRuns
          /\ Nobody
          /\ UNCHANGED <<vars, systemd, token>>
       \/ /\ ~(unit /\ UnitRuns)
          /\ \E p \in Pids : Launched(p) /\ last' = p /\ managed' = IF unit THEN p ELSE managed
          /\ UNCHANGED <<unit, clean>>

\* SIGTERM: a second one forces the exit, and one that comes before the handler is
\* installed kills.
Terminate(p) == IF phase[p] = "ready" THEN Signal(p) ELSE Kill(p)

Stopped == IF again THEN GoOn("wait") ELSE Done("stopped")
NotStopped == IF again THEN GoOn("wait") ELSE Done("failed")

\* runStop with a unit: systemctl signals the instance it manages ...
UnitStop ==
    /\ cmd = "stop" /\ unit
    /\ IF UnitRuns THEN Terminate(managed) ELSE UNCHANGED vars
    /\ GoOn("signal") /\ last' = managed
    /\ UNCHANGED <<systemd, token>>

\* ... and returns when it has ended.
UnitStopped ==
    /\ cmd = "signal"
    /\ ~UnitRuns
    /\ managed' = None
    /\ Stopped /\ Nobody
    /\ UNCHANGED <<vars, unit, clean, token>>

\* runStop without a unit.  For an empty file the signal ends the command itself.
DirectStop ==
    /\ cmd = "stop" /\ ~unit
    /\ \/ pidFile = None /\ NotStopped /\ Nobody /\ UNCHANGED vars
       \/ Empty /\ Done("failed") /\ Nobody /\ UNCHANGED vars
       \/ /\ pidFile # None /\ ~Empty
          /\ IF Alive(pidFile)
             THEN Stopped /\ Terminate(pidFile) /\ last' = pidFile
             ELSE NotStopped /\ Nobody /\ UNCHANGED vars
    /\ UNCHANGED <<systemd, token>>

\* runRestart waits for the pid file to go, but 3 s at most.
WaitOver ==
    /\ cmd = "wait"
    /\ GoOn("start") /\ Nobody
    /\ Idle

\* installRederService: the unit is written, ...
RunInit ==
    /\ cmd = "none" /\ commands < MaxCommands
    /\ commands' = commands + 1
    /\ cmd' = "enable" /\ again' = FALSE /\ result' = "none" /\ last' = None
    /\ unit' = TRUE
    /\ UNCHANGED <<vars, managed, clean, token>>

\* ... enabled and restarted: the instance it manages is stopped, ...
EnableUnit ==
    /\ cmd = "enable"
    /\ IF UnitRuns THEN Terminate(managed) ELSE UNCHANGED vars
    /\ GoOn("enabling") /\ Nobody
    /\ UNCHANGED <<systemd, token>>

\* ... and one is started, whatever runs beside it.
UnitEnabled ==
    /\ cmd = "enabling" /\ ~UnitRuns
    /\ Done("started")
    /\ \E p \in Pids : Launched(p) /\ managed' = p /\ last' = p
    /\ UNCHANGED <<unit, clean>>

-----------------------------------------------------------------------------
Commands ==
    \/ RunStart \/ RunStop \/ RunRestart \/ RunInit
    \/ LookForPid \/ CheckPid \/ Launch
    \/ UnitStop \/ UnitStopped \/ DirectStop \/ WaitOver \/ EnableUnit \/ UnitEnabled
    \/ Rotate \/ WriteRotated \/ DashboardUrl

InstanceStep(p) == LoadToken(p) \/ CreateToken(p) \/ DaemonStep(p)

ServiceNext ==
    \/ Commands
    \/ \E p \in Pids : InstanceStep(p) \/ Crash(p) \/ SystemdRestart(p)

\* A process goes on.
ServiceSpec ==
    /\ ServiceInit /\ [][ServiceNext]_allVars
    /\ \A p \in Pids : WF_allVars(InstanceStep(p))

-----------------------------------------------------------------------------
(* Safety                                                                  *)

\* An instance started after a URL was printed accepts its token: the file it read
\* was that one's, whatever was removed, made and restarted in between; unless one that
\* had looked for the file before it was there has replaced it by its own since.
PrintedIsAccepted ==
    \A p \in since : handed # 0 /\ hash[p] # 0 => hash[p] = handed \/ spoiled

-----------------------------------------------------------------------------
(* Liveness                                                                *)

Said(what) == cmd = "none" /\ result = what

\* What start, stop and restart report comes true.  Without a unit an instance
\* serves after "started": the one that still held the lock was not taken for a
\* dead one, nor a dead one for it; but for overlapping starts.  The one signalled before "stopped" ends.
CommandsKeepTheirWord ==
    \A p \in Pids :
      /\ Said("started") /\ ~unit /\ last = p /\ phase[p] = "booting"
           ~> (\E q \in Pids : phase[q] = "ready") \/ p \in killed \/ ~apart
      /\ Said("stopped") /\ last = p ~> phase[p] = "gone"

-----------------------------------------------------------------------------
(* What the program says and does not do                                   *)

\* service.ts: already running (pid N).  So a start that is refused for this has
\* an instance that is alive.
RefusedIfRunning ==
    [][cmd = "check" /\ result' = "refused" => \E p \in Pids : Alive(p)]_allVars

\* quickstart.md: `reder dashboard url` prints the URL.
UrlIsPrinted ==
    [][DashboardUrl /\ TokenFound => result' = "printed"]_allVars

\* service.ts: stopped via systemctl --user.  So nothing that served goes on.
StopMeansStopped == Said("stopped") /\ unit ~> \A p \in Pids : phase[p] \notin Serving

\* auth.ts:95 of rotateToken: the next daemon read picks up the new hash.  So an
\* instance that is started after it accepts the token.
NextReadPicksUp == \A p \in since : handed # 0 /\ hash[p] # 0 => hash[p] = handed
=============================================================================
