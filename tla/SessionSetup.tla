---------------------------- MODULE SessionSetup ----------------------------
(***************************************************************************)
(* The commands that set up, repair, remove and start sessions, and the    *)
(* places a session is written down in.  packages/cli/src/commands         *)
(* (sessions-add, sessions-remove, sessions-repair, sessions, config-      *)
(* writer, claude-hooks), core/src/sessions.ts, core/src/tmux.ts and the   *)
(* registration and auto-start in daemon/src/bootstrap.ts.                 *)
(*                                                                         *)
(* A session is an entry of reder.config.yaml, a row with the hash of its  *)
(* token and perhaps bindings, a token file, the one "reder" server of its *)
(* project's .mcp.json, its hooks in the project's settings.local.json,    *)
(* and a tmux session.  Every command is a process of its own; between any *)
(* two of its file and database operations another one may take a step.    *)
(*                                                                         *)
(* Limitations: reading and rewriting one .mcp.json or settings file is a  *)
(* step, and so is filling the temporary file of the config; display names *)
(* and permission modes are carried like auto_start and left out; project  *)
(* directories exist; a session's name is a model value, so it is valid.   *)
(*                                                                         *)
(* No name here is also one of ServiceControl's: one module extends both.  *)
(***************************************************************************)
EXTENDS Naturals, FiniteSets

CONSTANTS
    Sessions,     \* session ids
    Dirs,         \* project directories
    Procs,        \* slots for processes that run at the same time
    Nothing,      \* nothing there
    NoDir,        \* an entry written by hand without workspace_dir
    Broken,       \* a .mcp.json that is not JSON
    BadSettings,  \* projects whose settings.local.json is not JSON
    AutoStart,    \* the values of auto_start that are asked for
    MaxSetups,    \* bound: commands run
    MaxMishaps    \* bound: commands killed, or begun while another runs

ASSUME SessionSetupAssumption ==
    /\ Nothing \notin Sessions \cup 0..MaxSetups \cup [dir : Dirs, claude : BOOLEAN]
    /\ Broken \notin Sessions \cup {Nothing}
    /\ NoDir \notin Dirs
    /\ BadSettings \subseteq Dirs
    /\ AutoStart \subseteq BOOLEAN
    /\ MaxSetups \in Nat /\ MaxMishaps \in Nat

VARIABLES
    yaml,       \* reder.config.yaml: the sessions, and those with a Telegram bot
    draft,      \* what reder.config.yaml.tmp holds, or Nothing
    db,         \* the token whose hash the session's row holds, or Nothing
    bound,      \* sessions with bindings
    tokenFile,  \* the token in the session's token file, or Nothing
    mcp,        \* the session a project's .mcp.json names
    hooks,      \* the sessions with hooks in a project's settings
    tmux,       \* the session's tmux session, or Nothing
    proc,       \* what each process is doing, or Nothing
    spent,      \* commands begun; the latest is also the name of its tokens
    mishaps     \* commands killed, or begun while another ran

files == <<tokenFile, mcp, hooks>>
setupVars == <<yaml, draft, db, bound, tokenFile, mcp, hooks, tmux, proc, spent, mishaps>>

Entries == [dir : Dirs \cup {NoDir}, auto : BOOLEAN]
Documents == [sessions : [Sessions -> Entries \cup {Nothing}], bots : SUBSET Sessions]
Tokens == 0..MaxSetups

Panes == [dir : Dirs, claude : BOOLEAN]

\* A command at work: what it does next and for which session, what it has read,
\* the sessions it still has to see to, and whether no other came between.
Processes ==
    [op : {"add", "repair", "remove", "bot", "up", "restart", "boot"},
     step : {"peek", "write", "rename", "upsert", "hash", "token", "mcp", "hooks", "delete",
             "unmcp", "unhook", "unlist", "untoken", "register", "kill", "start", "new"},
     s : Sessions \cup {Nothing}, entry : Entries \cup {Nothing}, force : BOOLEAN,
     doc : Documents \cup {Nothing}, token : Tokens, todo : SUBSET Sessions, alone : BOOLEAN]

SetupTypeOK ==
    /\ yaml \in Documents
    /\ draft \in Documents \cup {Nothing}
    /\ db \in [Sessions -> Tokens \cup {Nothing}]
    /\ bound \subseteq {s \in Sessions : db[s] # Nothing}
    /\ tokenFile \in [Sessions -> Tokens \cup {Nothing}]
    /\ mcp \in [Dirs -> Sessions \cup {Nothing, Broken}]
    /\ hooks \in [Dirs -> SUBSET Sessions]
    /\ tmux \in [Sessions -> Panes \cup {Nothing}]
    /\ proc \in [Procs -> Processes \cup {Nothing}]
    /\ spent \in 0..MaxSetups /\ mishaps \in 0..MaxMishaps

Configured(doc) == {s \in Sessions : doc.sessions[s] # Nothing}
Placed(doc) == {s \in Configured(doc) : doc.sessions[s].dir # NoDir}
AutoStarted(doc) == {s \in Placed(doc) : doc.sessions[s].auto}

\* Somebody may have written an entry by hand, and started the tmux session.
ByHand == [dir |-> NoDir, auto |-> FALSE]

SetupInit ==
    /\ \E given \in {{}} \cup {{t} : t \in Sessions} :
         yaml = [sessions |-> [s \in Sessions |-> IF s \in given THEN ByHand ELSE Nothing],
                 bots |-> {}]
    /\ tmux \in {[s \in Sessions |-> Nothing]} \cup
                {[s \in Sessions |-> IF yaml.sessions[s] = Nothing THEN Nothing
                                    ELSE [dir |-> d, claude |-> FALSE]] : d \in Dirs}
    /\ draft = Nothing
    /\ db = [s \in Sessions |-> Nothing]
    /\ bound = {}
    /\ tokenFile = [s \in Sessions |-> Nothing]
    /\ mcp = [d \in Dirs |-> Nothing]
    /\ hooks = [d \in Dirs |-> {}]
    /\ proc = [p \in Procs |-> Nothing]
    /\ spent = 0 /\ mishaps = 0

-----------------------------------------------------------------------------
(* Processes                                                               *)

Busy(p) == proc[p] # Nothing
At(p, op, step) == Busy(p) /\ proc[p].op = op /\ proc[p].step = step

Alone == \A r \in Procs : ~Busy(r)

\* A command begins; those that run are no longer alone.
Run(p, cmd) ==
    /\ ~Busy(p) /\ spent < MaxSetups
    /\ Alone \/ mishaps < MaxMishaps
    /\ spent' = spent + 1
    /\ mishaps' = IF Alone THEN mishaps ELSE mishaps + 1
    /\ proc' = [q \in Procs |->
         IF q = p THEN cmd
         ELSE IF Busy(q) THEN [proc[q] EXCEPT !.alone = FALSE] ELSE Nothing]
    /\ UNCHANGED <<yaml, draft, db, bound, files, tmux>>

\* One that edits the session s: force stands for --force-rebind, --keep-mcp.
Begin(p, op, s, entry, force, todo) ==
    Run(p, [op |-> op, step |-> "peek", s |-> s, entry |-> entry, force |-> force,
            doc |-> Nothing, token |-> spent + 1, todo |-> todo, alone |-> Alone])

\* One that starts tmux sessions: it has read doc; todo are still to do.
Starts(p, op, step, s, doc, todo) ==
    Run(p, [op |-> op, step |-> step, s |-> s, entry |-> Nothing, force |-> FALSE,
            doc |-> doc, token |-> spent + 1, todo |-> todo, alone |-> Alone])

GoTo(p, step) == proc' = [proc EXCEPT ![p].step = step]

\* A command is over.  One of repair --all or up goes on to the next session,
\* whatever became of the last one.
Over(p) ==
    IF proc[p].todo = {} THEN proc' = [proc EXCEPT ![p] = Nothing]
    ELSE \E s \in proc[p].todo :
           proc' = [proc EXCEPT ![p].op = "repair", ![p].step = "peek", ![p].s = s,
                                ![p].todo = @ \ {s}, ![p].doc = Nothing]

-----------------------------------------------------------------------------
(* Faults a mutated definition stands for; Next never uses them.           *)

\* The row of a session that exists keeps its hash.
KeepsHash(p) == IF db[proc[p].s] = Nothing THEN proc[p].token ELSE db[proc[p].s]

\* removeSession empties the list.
EmptiedList(doc, s) == [doc EXCEPT !.sessions = [t \in Sessions |-> Nothing]]

\* The token file stays.
LeavesToken(s) == tokenFile

\* restart trusts a session that exists.
NothingToKill(s) == tmux

-----------------------------------------------------------------------------
(* reder.config.yaml: read, write the temporary file, rename it            *)

\* upsertSession's entry, and removeSession's.
Upserted(doc, s, entry) == [doc EXCEPT !.sessions[s] = entry]
Unlisted(doc, s) == [doc EXCEPT !.sessions[s] = Nothing]

\* The command has read the config and made doc of it.  What does not change
\* the config is not written.
Edit(p, doc, next) ==
    proc' = [proc EXCEPT ![p].doc = doc, ![p].step = IF doc = yaml THEN next ELSE "write"]

WriteDraft(p) ==
    /\ Busy(p) /\ proc[p].step = "write"
    /\ draft' = proc[p].doc
    /\ GoTo(p, "rename")
    /\ UNCHANGED <<yaml, db, bound, files, tmux, spent, mishaps>>

\* All commands use the same temporary name: one that finds it gone fails.
Rename(p) ==
    /\ Busy(p) /\ proc[p].step = "rename"
    /\ IF draft = Nothing
       THEN Over(p) /\ UNCHANGED <<yaml, draft>>
       ELSE /\ yaml' = draft
            /\ draft' = Nothing
            /\ CASE proc[p].op = "add" -> GoTo(p, "hash")
                 [] proc[p].op = "remove" -> GoTo(p, "untoken")
                 [] proc[p].op = "bot" -> Over(p)
    /\ UNCHANGED <<db, bound, files, tmux, spent, mishaps>>

-----------------------------------------------------------------------------
(* sessions add, sessions repair                                           *)

\* The user, or the questions asked, choose an id, the project, auto-start, and
\* whether to rebind a session that has another project.
Add(p) ==
    \E s \in Sessions, d \in Dirs, auto \in AutoStart, force \in BOOLEAN :
      Begin(p, "add", s, [dir |-> d, auto |-> auto], force, {})

Repair(p) == \E s \in Sessions : Begin(p, "repair", s, Nothing, TRUE, {})

RepairAll(p) ==
    \E s \in Placed(yaml) : Begin(p, "repair", s, Nothing, TRUE, Placed(yaml) \ {s})

\* repair is add with what the config says, --force-rebind.
RepairPeek(p) ==
    /\ At(p, "repair", "peek")
    /\ LET s == proc[p].s IN
       IF s \in Placed(yaml)
       THEN proc' = [proc EXCEPT ![p].op = "add", ![p].entry = yaml.sessions[s]]
       ELSE Over(p)
    /\ UNCHANGED <<yaml, draft, db, bound, files, tmux, spent, mishaps>>

\* The session belongs to another project.
Mismatch(s, entry) == s \in Placed(yaml) /\ yaml.sessions[s].dir # entry.dir

AddPeek(p) ==
    /\ At(p, "add", "peek")
    /\ IF Mismatch(proc[p].s, proc[p].entry) /\ ~proc[p].force
       THEN Over(p)
       ELSE GoTo(p, "upsert")
    /\ UNCHANGED <<yaml, draft, db, bound, files, tmux, spent, mishaps>>

Upsert(p) ==
    /\ At(p, "add", "upsert")
    /\ Edit(p, Upserted(yaml, proc[p].s, proc[p].entry), "hash")
    /\ UNCHANGED <<yaml, draft, db, bound, files, tmux, spent, mishaps>>

\* createSession gives the row a new token, whether it was there or not.
NewHash(p) == proc[p].token

CreateSession(p) ==
    /\ At(p, "add", "hash")
    /\ db' = [db EXCEPT ![proc[p].s] = NewHash(p)]
    /\ GoTo(p, "token")
    /\ UNCHANGED <<yaml, draft, bound, files, tmux, spent, mishaps>>

WriteToken(p) ==
    /\ At(p, "add", "token")
    /\ tokenFile' = [tokenFile EXCEPT ![proc[p].s] = proc[p].token]
    /\ GoTo(p, "mcp")
    /\ UNCHANGED <<yaml, draft, db, bound, mcp, hooks, tmux, spent, mishaps>>

\* "exists but is not valid JSON; refusing to overwrite".
WriteMcp(p) ==
    /\ At(p, "add", "mcp")
    /\ LET d == proc[p].entry.dir IN
       IF mcp[d] = Broken
       THEN Over(p) /\ UNCHANGED mcp
       ELSE mcp' = [mcp EXCEPT ![d] = proc[p].s] /\ GoTo(p, "hooks")
    /\ UNCHANGED <<yaml, draft, db, bound, tokenFile, hooks, tmux, spent, mishaps>>

\* installClaudeHooks leaves the entries of other sessions alone.
Hooked(old, s) == old \cup {s}

\* A failure is a warning.
InstallHooks(p) ==
    /\ At(p, "add", "hooks")
    /\ LET d == proc[p].entry.dir IN
       hooks' = IF d \in BadSettings THEN hooks
                ELSE [hooks EXCEPT ![d] = Hooked(@, proc[p].s)]
    /\ Over(p)
    /\ UNCHANGED <<yaml, draft, db, bound, tokenFile, mcp, tmux, spent, mishaps>>

-----------------------------------------------------------------------------
(* sessions remove                                                         *)

Remove(p) == \E s \in Sessions, keep \in BOOLEAN : Begin(p, "remove", s, Nothing, keep, {})

RemovePeek(p) ==
    /\ At(p, "remove", "peek")
    /\ LET s == proc[p].s IN
       IF s \in Configured(yaml)
       THEN proc' = [proc EXCEPT ![p].entry = yaml.sessions[s], ![p].step = "delete"]
       ELSE Over(p)
    /\ UNCHANGED <<yaml, draft, db, bound, files, tmux, spent, mishaps>>

Unbound(s) == bound \ {s}

\* One transaction, for bindings refer to the row.
DeleteSession(p) ==
    /\ At(p, "remove", "delete")
    /\ db' = [db EXCEPT ![proc[p].s] = Nothing]
    /\ bound' = Unbound(proc[p].s)
    /\ GoTo(p, IF proc[p].force \/ proc[p].entry.dir = NoDir THEN "unlist" ELSE "unmcp")
    /\ UNCHANGED <<yaml, draft, files, tmux, spent, mishaps>>

\* The "reder" server goes, whosever it is.  A failure is a warning.
RemoveMcp(p) ==
    /\ At(p, "remove", "unmcp")
    /\ LET d == proc[p].entry.dir IN
       mcp' = IF mcp[d] = Broken THEN mcp ELSE [mcp EXCEPT ![d] = Nothing]
    /\ GoTo(p, "unhook")
    /\ UNCHANGED <<yaml, draft, db, bound, tokenFile, hooks, tmux, spent, mishaps>>

RemoveHooks(p) ==
    /\ At(p, "remove", "unhook")
    /\ LET d == proc[p].entry.dir IN
       hooks' = IF d \in BadSettings THEN hooks ELSE [hooks EXCEPT ![d] = @ \ {proc[p].s}]
    /\ GoTo(p, "unlist")
    /\ UNCHANGED <<yaml, draft, db, bound, tokenFile, mcp, tmux, spent, mishaps>>

RemoveSession(p) ==
    /\ At(p, "remove", "unlist")
    /\ Edit(p, Unlisted(yaml, proc[p].s), "untoken")
    /\ UNCHANGED <<yaml, draft, db, bound, files, tmux, spent, mishaps>>

\* rmSync.
WithoutToken(s) == [tokenFile EXCEPT ![s] = Nothing]

RemoveToken(p) ==
    /\ At(p, "remove", "untoken")
    /\ tokenFile' = WithoutToken(proc[p].s)
    /\ Over(p)
    /\ UNCHANGED <<yaml, draft, db, bound, mcp, hooks, tmux, spent, mishaps>>

-----------------------------------------------------------------------------
(* telegram bot add, telegram bot remove                                   *)

\* force stands for add.  The block telegram is made if it is not there.
Bot(p) ==
    \E s \in Sessions, add \in BOOLEAN : Begin(p, "bot", s, Nothing, add, {})

WithBot(doc, s) == [doc EXCEPT !.bots = @ \cup {s}]
WithoutBot(doc, s) == [doc EXCEPT !.bots = @ \ {s}]

\* add writes the file even if nothing changes; remove of no bot does not.
EditBot(p) ==
    /\ At(p, "bot", "peek")
    /\ LET s == proc[p].s IN
       IF proc[p].force
       THEN proc' = [proc EXCEPT ![p].doc = WithBot(yaml, s), ![p].step = "write"]
       ELSE IF s \in yaml.bots
            THEN proc' = [proc EXCEPT ![p].doc = WithoutBot(yaml, s), ![p].step = "write"]
            ELSE Over(p)
    /\ UNCHANGED <<yaml, draft, db, bound, files, tmux, spent, mishaps>>

-----------------------------------------------------------------------------
(* sessions start, up, restart, and the daemon's bootstrap                 *)

StartSession(p) == \E s \in Placed(yaml) : Starts(p, "up", "start", s, yaml, {s})
Up(p) == Starts(p, "up", "start", Nothing, yaml, Placed(yaml))
Restart(p) == \E s \in Placed(yaml) : Starts(p, "restart", "kill", s, yaml, {s})

\* bootstrap: first every configured session gets a row ...
Boot(p) == Starts(p, "boot", "register", Nothing, yaml, Configured(yaml))

BootRegisters(p) ==
    /\ At(p, "boot", "register")
    /\ IF proc[p].todo = {}
       THEN proc' = [proc EXCEPT ![p].step = "start", ![p].todo = AutoStarted(proc[p].doc)]
       ELSE \E s \in proc[p].todo :
              proc' = [proc EXCEPT ![p].todo = @ \ {s}, ![p].s = s,
                                   ![p].step = IF db[s] = Nothing THEN "hash" ELSE "register"]
    /\ UNCHANGED <<yaml, draft, db, bound, files, tmux, spent, mishaps>>

\* ... whose token nobody is told; when argon2 is done, the row may be there.
BootCreates(p) ==
    /\ At(p, "boot", "hash")
    /\ db' = [db EXCEPT ![proc[p].s] = NewHash(p)]
    /\ GoTo(p, "register")
    /\ UNCHANGED <<yaml, draft, bound, files, tmux, spent, mishaps>>

\* kill-session.
Killed(s) == [tmux EXCEPT ![s] = Nothing]

KillSession(p) ==
    /\ At(p, "restart", "kill")
    /\ tmux' = Killed(proc[p].s)
    /\ GoTo(p, "start")
    /\ UNCHANGED <<yaml, draft, db, bound, files, spent, mishaps>>

\* startSession: has-session says that it runs, whatever runs in it.
AlreadyRunning(s) == tmux[s] # Nothing

StartNext(p) ==
    /\ Busy(p) /\ proc[p].step = "start"
    /\ IF proc[p].todo = {}
       THEN proc' = [proc EXCEPT ![p] = Nothing]
       ELSE \E s \in proc[p].todo :
              IF AlreadyRunning(s)
              THEN proc' = [proc EXCEPT ![p].todo = @ \ {s}]
              ELSE proc' = [proc EXCEPT ![p].todo = @ \ {s}, ![p].s = s, ![p].step = "new"]
    /\ UNCHANGED <<yaml, draft, db, bound, files, tmux, spent, mishaps>>

\* new-session fails if another process was faster.
NewSession(p) ==
    /\ Busy(p) /\ proc[p].step = "new"
    /\ LET s == proc[p].s IN
       tmux' = IF tmux[s] # Nothing THEN tmux
               ELSE [tmux EXCEPT ![s] = [dir |-> proc[p].doc.sessions[s].dir, claude |-> TRUE]]
    /\ GoTo(p, "start")
    /\ UNCHANGED <<yaml, draft, db, bound, files, spent, mishaps>>

-----------------------------------------------------------------------------
(* What happens meanwhile                                                  *)

\* The process dies.  A file written in place may be left empty.
KillCommand(p) ==
    /\ Busy(p) /\ mishaps < MaxMishaps
    /\ mishaps' = mishaps + 1
    /\ proc' = [proc EXCEPT ![p] = Nothing]
    /\ \/ UNCHANGED <<tokenFile, mcp>>
       \/ /\ At(p, "add", "token")
          /\ tokenFile' = WithoutToken(proc[p].s)
          /\ UNCHANGED mcp
       \/ /\ At(p, "add", "mcp") \/ At(p, "remove", "unmcp")
          /\ mcp' = [mcp EXCEPT ![proc[p].entry.dir] = Broken]
          /\ UNCHANGED tokenFile
    /\ UNCHANGED <<yaml, draft, db, bound, hooks, tmux, spent>>

\* reder pair: a binding refers to the row.  (Between commands: only remove
\* touches bindings, and what it deletes is deleted in one transaction.)
Pair(s) ==
    /\ Alone /\ db[s] # Nothing /\ s \notin bound
    /\ bound' = bound \cup {s}
    /\ UNCHANGED <<yaml, draft, db, files, tmux, proc, spent, mishaps>>

\* claude ends; its tmux session stays.
ClaudeExits(s) ==
    /\ tmux[s] # Nothing /\ tmux[s].claude
    /\ tmux' = [tmux EXCEPT ![s].claude = FALSE]
    /\ UNCHANGED <<yaml, draft, db, bound, files, proc, spent, mishaps>>

-----------------------------------------------------------------------------
NewCommand(p) ==
    \/ Add(p) \/ Repair(p) \/ RepairAll(p) \/ Remove(p) \/ Bot(p)
    \/ StartSession(p) \/ Up(p) \/ Restart(p) \/ Boot(p)

CommandStep(p) ==
    \/ WriteDraft(p) \/ Rename(p)
    \/ RepairPeek(p) \/ AddPeek(p) \/ Upsert(p) \/ CreateSession(p)
    \/ WriteToken(p) \/ WriteMcp(p) \/ InstallHooks(p)
    \/ RemovePeek(p) \/ DeleteSession(p) \/ RemoveMcp(p) \/ RemoveHooks(p)
    \/ RemoveSession(p) \/ RemoveToken(p) \/ EditBot(p)
    \/ BootRegisters(p) \/ BootCreates(p)
    \/ KillSession(p) \/ StartNext(p) \/ NewSession(p)

SetupNext ==
    \/ \E p \in Procs : NewCommand(p) \/ CommandStep(p) \/ KillCommand(p)
    \/ \E s \in Sessions : Pair(s) \/ ClaudeExits(s)

SetupSpec == SetupInit /\ [][SetupNext]_setupVars

-----------------------------------------------------------------------------
(* Action properties                                                       *)

\* p does its last step here, and no other command ran while it did.
EndsAlone(p, op, step) ==
    /\ At(p, op, step) /\ proc[p].alone
    /\ spent' = spent /\ mishaps' = mishaps /\ proc'[p] # proc[p]

\* An add or repair that nothing came between and that reports success leaves
\* the session usable, whatever commands killed half-way, interleaved ones or
\* removed sessions have left behind before it: its five places agree on its
\* project and its token, so the shim that claude starts there is let in, and
\* so are its hooks.
AddMakesUsable ==
    [][\A p \in Procs :
         EndsAlone(p, "add", "hooks") =>
           LET s == proc[p].s
               e == proc[p].entry IN
           /\ yaml'.sessions[s] = e
           /\ db'[s] # Nothing /\ tokenFile'[s] = db'[s]
           /\ mcp'[e.dir] = s
           /\ e.dir \notin BadSettings => s \in hooks'[e.dir]]_setupVars

\* A remove that nothing came between leaves none of the places it cleans up:
\* not the entry, the row, a binding or the token; nor, without --keep-mcp, the
\* session's name in the files of its project.
RemoveLeavesNothing ==
    [][\A p \in Procs :
         EndsAlone(p, "remove", "untoken") =>
           LET s == proc[p].s
               e == proc[p].entry IN
           /\ yaml'.sessions[s] = Nothing /\ db'[s] = Nothing /\ tokenFile'[s] = Nothing /\ s \notin bound'
           /\ ~proc[p].force /\ e.dir # NoDir =>
                /\ mcp'[e.dir] # s
                /\ e.dir \notin BadSettings => s \notin hooks'[e.dir]]_setupVars

\* A command about one session that nothing comes between leaves the entries,
\* rows, tokens, hooks and bindings of all the others as they are.
OthersKeepTheirs ==
    [][\A p \in Procs : \A t \in Sessions :
         Busy(p) /\ proc[p].alone /\ proc[p].op \in {"add", "remove", "bot"}
           /\ t # proc[p].s /\ spent' = spent =>
           /\ t \in yaml.bots <=> t \in yaml'.bots
           /\ yaml'.sessions[t] = yaml.sessions[t] /\ db'[t] = db[t] /\ tokenFile'[t] = tokenFile[t]
           /\ t \in bound <=> t \in bound'
           /\ \A d \in Dirs : t \in hooks[d] <=> t \in hooks'[d]]_setupVars

\* A restart that nothing comes between leaves the session's tmux session in the
\* project the config names, whatever was there before: one started by hand, one
\* whose claude is gone, one of the project the session had before a rebind.
RestartMoves ==
    [][\A p \in Procs :
         EndsAlone(p, "restart", "start") /\ proc[p].todo = {} =>
           LET s == proc[p].s IN
           tmux[s] # Nothing /\ tmux[s].dir = yaml.sessions[s].dir]_setupVars

-----------------------------------------------------------------------------
(* What the documents say and the code does not do                         *)

\* reder-prd.md, F5.2a: remove cleans up the reder entry in the project's
\* .mcp.json, that of the session removed; so the project's other session keeps
\* the entry it has taken over.
RemoveSparesOthers ==
    [][\A p \in Procs : \A d \in Dirs :
         At(p, "remove", "unmcp") /\ proc[p].alone /\ mcp[d] \in Sessions \ {proc[p].s}
           => mcp'[d] # Nothing]_setupVars
=============================================================================
