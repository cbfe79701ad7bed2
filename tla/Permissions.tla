----------------------------- MODULE Permissions -----------------------------
(***************************************************************************)
(* The relay of one session's permission requests: PermissionManager       *)
(* (packages/core/src/permissions.ts) with the router's permission_request *)
(* handler and clearSession, the pendingPermissions of the activity        *)
(* tracker, and the prompts the adapters show.                             *)
(*                                                                         *)
(* Three kinds of loop await an adapter call at each turn: the sending of  *)
(* a prompt, its cancelling after an answer, and the cancelling of all     *)
(* prompts by clearSession.  Anything may happen while a call is awaited;  *)
(* between two calls of a loop nothing does.  A clear takes the requests   *)
(* in the order of the active map, the model in any order.                 *)
(*                                                                         *)
(* A prompt counts as shown once its adapter has noted where it put it     *)
(* (Telegram stores perm:<id> after sendMessage has returned).  Before, it *)
(* may be on the screen, but a cancel does not find it.                    *)
(***************************************************************************)
EXTENDS Naturals, Sequences

CONSTANTS
    Requests,         \* request ids; claude makes each request once
    Last,             \* the adapters are 1..Last, in their order of registration
    Signature,        \* Signature[r]: tool and input of request r, hashed
    DefaultOnTimeout, \* permissions.defaultOnTimeout: allow or deny
    None,             \* "no request"
    MaxClears,        \* bound: SessionStart hooks that clear the session
    MaxRestarts       \* bound: stops and crashes of rederd

Behaviors == {"allow", "deny"}
Adapters == 1..Last

ASSUME PermissionsAssumption ==
    /\ None \notin Requests
    /\ Last \in Nat \ {0}
    /\ DefaultOnTimeout \in Behaviors
    /\ MaxClears \in Nat
    /\ MaxRestarts \in Nat

VARIABLES
    made,       \* requests claude has made
    entry,      \* PermissionManager.active: none, open, or settled
    timers,     \* requests whose timer is armed
    row,        \* permission_requests: none, open, or the verdict
    approvals,  \* persistent_approvals
    pending,    \* the activity tracker's pendingPermissions
    shown,      \* the adapters that show a prompt of each request
    sendAt,     \* the adapter handleRequest awaits, or 0
    cancelAt,   \* the adapter the cancelling after an answer awaits, or 0
    clearAt,    \* the request clearSession is cancelling, or None
    clearStep,  \* the adapter it awaits, or 0
    clearNext,  \* requests clearSession will cancel after clearAt
    clears, restarts,
    verdicts,   \* history: the verdicts dispatched for each request
    abandoned   \* history: open requests a clear has cancelled

clearVars == <<clearAt, clearStep, clearNext>>
vars == <<made, entry, timers, row, approvals, pending, shown, sendAt, cancelAt,
          clearVars, clears, restarts, verdicts, abandoned>>

TypeOK ==
    /\ made \in SUBSET Requests
    /\ entry \in [Requests -> {"none", "open", "settled"}]
    /\ timers \in SUBSET Requests
    /\ row \in [Requests -> {"none", "open"} \cup Behaviors]
    /\ approvals \in SUBSET {Signature[r] : r \in Requests}
    /\ pending \in SUBSET Requests
    /\ shown \in [Requests -> SUBSET Adapters]
    /\ sendAt \in [Requests -> 0..Last]
    /\ cancelAt \in [Requests -> 0..Last]
    /\ clearAt \in Requests \cup {None}
    /\ clearStep \in 0..Last
    /\ clearNext \in SUBSET Requests
    /\ clears \in 0..MaxClears
    /\ restarts \in 0..MaxRestarts
    /\ verdicts \in [Requests -> Seq(Behaviors)]
    /\ abandoned \in SUBSET Requests

Init ==
    /\ made = {}
    /\ entry = [r \in Requests |-> "none"]
    /\ timers = {}
    /\ row = [r \in Requests |-> "none"]
    /\ approvals = {}
    /\ pending = {}
    /\ shown = [r \in Requests |-> {}]
    /\ sendAt = [r \in Requests |-> 0]
    /\ cancelAt = [r \in Requests |-> 0]
    /\ clearAt = None
    /\ clearStep = 0
    /\ clearNext = {}
    /\ clears = 0
    /\ restarts = 0
    /\ verdicts = [r \in Requests |-> <<>>]
    /\ abandoned = {}

-----------------------------------------------------------------------------
(* Faults a mutated definition stands for; Next never uses them.           *)

\* The settled flag is not looked at.
InMap(r) == entry[r] # "none"

\* No timer is armed.
NoTimer(r) == timers

\* A clear deletes entries one by one and marks none settled beforehand.
DeletesOnly(first, rest) == [entry EXCEPT ![first] = "none"]

\* resetPendingForClear is not called.
KeepPending == pending

\* An approval is stored for any verdict that asks for it.
AnyPersistent(b, persistent) == persistent

-----------------------------------------------------------------------------
(* Helpers                                                                 *)

\* handleVerdict and resolveTimeout go on: the entry is there, not settled.
Answerable(r) == entry[r] = "open"

Settled == "settled"

\* Timers after handleRequest.
Armed(r) == timers \cup {r}

\* The entries when a clear starts with request first and will go on to rest.
SettledByClear(first, rest) ==
    [r \in Requests |-> IF r = first THEN "none"
                        ELSE IF r \in rest THEN Settled ELSE entry[r]]

\* pendingPermissions after resetPendingForClear.
PendingAfterClear == {}

\* A verdict is remembered for the tool and input.
Remembers(b, persistent) == persistent /\ b = "allow"

\* The adapter a loop calls after adapter a.
After(a) == IF a = Last THEN 0 ELSE a + 1

\* settled, the row updated if it is still there, the verdict sent to the shim,
\* onResolved, and the loop of cancels begun.
Resolve(r, b) ==
    /\ entry' = [entry EXCEPT ![r] = Settled]
    /\ row' = [row EXCEPT ![r] = IF @ = "none" THEN @ ELSE b]
    /\ verdicts' = [verdicts EXCEPT ![r] = Append(@, b)]
    /\ pending' = pending \ {r}
    /\ timers' = timers \ {r}
    /\ cancelAt' = [cancelAt EXCEPT ![r] = 1]

-----------------------------------------------------------------------------
(* Requests and answers                                                    *)

\* permission_request for a tool and input that were approved for good.
PreApproved(r) ==
    /\ r \notin made /\ Signature[r] \in approvals
    /\ made' = made \cup {r}
    /\ row' = [row EXCEPT ![r] = "allow"]
    /\ verdicts' = [verdicts EXCEPT ![r] = Append(@, "allow")]
    /\ UNCHANGED <<entry, timers, approvals, pending, shown, sendAt, cancelAt,
                   clearVars, clears, restarts, abandoned>>

\* permission_request: tracked as pending, persisted, entered and timed, and
\* the first adapter called.
Request(r) ==
    /\ r \notin made /\ Signature[r] \notin approvals
    /\ made' = made \cup {r}
    /\ pending' = pending \cup {r}
    /\ row' = [row EXCEPT ![r] = "open"]
    /\ timers' = Armed(r)
    /\ entry' = [entry EXCEPT ![r] = "open"]
    /\ sendAt' = [sendAt EXCEPT ![r] = 1]
    /\ UNCHANGED <<approvals, shown, cancelAt, clearVars, clears, restarts, verdicts, abandoned>>

\* An adapter's sendPermissionPrompt returns, with the prompt shown or not (it
\* logs its own failures), and the loop goes on, settled or not.
Sent(r) ==
    /\ sendAt[r] # 0
    /\ \E S \in {{}, {sendAt[r]}} : shown' = [shown EXCEPT ![r] = @ \cup S]
    /\ sendAt' = [sendAt EXCEPT ![r] = After(@)]
    /\ UNCHANGED <<made, entry, timers, row, approvals, pending, cancelAt, clearVars,
                   clears, restarts, verdicts, abandoned>>

\* A user answers on some adapter: the dashboard knows of a request from its
\* permission.requested event, and a prompt left on a screen can be used at
\* any time.
Answer(r, b, persistent) ==
    /\ r \in made /\ Answerable(r)
    /\ Resolve(r, b)
    /\ approvals' = IF Remembers(b, persistent) THEN approvals \cup {Signature[r]}
                                                ELSE approvals
    /\ UNCHANGED <<made, shown, sendAt, clearVars, clears, restarts, abandoned>>

\* The request's timer: resolveTimeout.
Timeout(r) ==
    /\ r \in timers
    /\ IF Answerable(r)
       THEN Resolve(r, DefaultOnTimeout)
       ELSE /\ timers' = timers \ {r}
            /\ UNCHANGED <<entry, row, verdicts, pending, cancelAt>>
    /\ UNCHANGED <<made, approvals, shown, sendAt, clearVars, clears, restarts, abandoned>>

\* A cancel after an answer returns; after the last one the entry is deleted.
CancelReturns(r) ==
    /\ cancelAt[r] # 0
    /\ shown' = [shown EXCEPT ![r] = @ \ {cancelAt[r]}]
    /\ cancelAt' = [cancelAt EXCEPT ![r] = After(@)]
    /\ entry' = IF cancelAt[r] = Last THEN [entry EXCEPT ![r] = "none"] ELSE entry
    /\ UNCHANGED <<made, timers, row, approvals, pending, sendAt, clearVars, clears,
                   restarts, verdicts, abandoned>>

-----------------------------------------------------------------------------
(* Clearing the session                                                    *)

\* purgeSessionData and resetPendingForClear, and the clear is over.
Purge ==
    /\ row' = [r \in Requests |-> "none"]
    /\ pending' = PendingAfterClear
    /\ clearAt' = None
    /\ clearStep' = 0
    /\ clearNext' = {}

\* A SessionStart hook (startup, clear): cancelForSession settles every entry of
\* the session at once and cancels them one by one.
Clear ==
    LET S == {r \in Requests : entry[r] # "none"}
    IN /\ clearAt = None /\ clears < MaxClears
       /\ clears' = clears + 1
       /\ timers' = timers \ S
       /\ abandoned' = abandoned \cup {r \in S : entry[r] = "open"}
       /\ \/ S = {} /\ Purge /\ UNCHANGED entry
          \/ \E r \in S :
               /\ entry' = SettledByClear(r, S \ {r})
               /\ clearAt' = r
               /\ clearStep' = 1
               /\ clearNext' = S \ {r}
               /\ UNCHANGED <<row, pending>>
       /\ UNCHANGED <<made, approvals, shown, sendAt, cancelAt, restarts, verdicts>>

\* A cancel of the clear returns: the next adapter, the next request, or the
\* purge, of everything the session has by then.
ClearReturns ==
    /\ clearAt # None
    /\ shown' = [shown EXCEPT ![clearAt] = @ \ {clearStep}]
    /\ \/ /\ clearStep # Last
          /\ clearStep' = clearStep + 1
          /\ UNCHANGED <<entry, row, pending, clearAt, clearNext>>
       \/ /\ clearStep = Last
          /\ \E r \in clearNext :
               /\ entry' = [entry EXCEPT ![r] = "none"]
               /\ clearAt' = r
               /\ clearStep' = 1
               /\ clearNext' = clearNext \ {r}
               /\ UNCHANGED <<row, pending>>
       \/ clearStep = Last /\ clearNext = {} /\ Purge /\ UNCHANGED entry
    /\ UNCHANGED <<made, timers, approvals, sendAt, cancelAt, clears, restarts,
                   verdicts, abandoned>>

\* rederd stops or crashes, and starts again: what was in memory is gone, rows,
\* approvals and prompts on screens stay.
Restart ==
    /\ restarts < MaxRestarts
    /\ restarts' = restarts + 1
    /\ entry' = [r \in Requests |-> "none"]
    /\ timers' = {}
    /\ pending' = {}
    /\ sendAt' = [r \in Requests |-> 0]
    /\ cancelAt' = [r \in Requests |-> 0]
    /\ clearAt' = None
    /\ clearStep' = 0
    /\ clearNext' = {}
    /\ UNCHANGED <<made, row, approvals, shown, clears, verdicts, abandoned>>

-----------------------------------------------------------------------------
Next ==
    \/ \E r \in Requests : PreApproved(r)
    \/ \E r \in Requests : Request(r)
    \/ \E r \in Requests : Sent(r)
    \/ \E r \in Requests, b \in Behaviors, persistent \in BOOLEAN : Answer(r, b, persistent)
    \/ \E r \in Requests : Timeout(r)
    \/ \E r \in Requests : CancelReturns(r)
    \/ Clear
    \/ ClearReturns
    \/ Restart

\* Timers fire and the adapters' calls return (Telegram's transport times out).
\* claude, the user, the hooks and the restarts are not fair.
Fairness ==
    /\ \A r \in Requests :
         WF_vars(Timeout(r)) /\ WF_vars(Sent(r)) /\ WF_vars(CancelReturns(r))
    /\ WF_vars(ClearReturns)

Safety == Init /\ [][Next]_vars
Spec == Safety /\ Fairness

-----------------------------------------------------------------------------
(* Safety                                                                  *)

\* The first answer wins: however users, timer and clear race, claude is told
\* one verdict at most, and the row that remains says that very verdict.
FirstAnswerWins ==
    \A r \in Requests :
      /\ Len(verdicts[r]) <= 1
      /\ row[r] \in Behaviors => verdicts[r] = <<row[r]>>

\* A request that a clear has cancelled is never answered, not even while the
\* clear still awaits the cancelling of another request's prompt.
AbandonedStaysSilent == \A r \in abandoned : verdicts[r] = <<>>

\* Outside a clear, the session awaits its user only for requests that an
\* answer or the timer can still resolve.
AwaitsAnswerableOnly == clearAt = None => \A r \in pending : Answerable(r) /\ r \in timers

\* A tool is approved for good only where claude was told "allow" by a user: a
\* late "always allow" on a request that was denied or timed out is ignored.
ApprovedWasAllowed ==
    \A s \in approvals : \E r \in Requests : Signature[r] = s /\ verdicts[r] = <<"allow">>

-----------------------------------------------------------------------------
(* Liveness                                                                *)

\* No request stays open: a user, the timer, a clear or a restart ends it.
NoneStaysOpen == \A r \in Requests : entry[r] = "open" ~> entry[r] # "open"

-----------------------------------------------------------------------------
(* What the documents say and the code does not do                         *)

\* permissions.ts:277, cancelForSession: adapter prompts are cancelled so that
\* the user-visible UI disappears.
AbandonedDisappears ==
    \A r \in Requests, a \in Adapters :
      <>[](r \in abandoned /\ restarts = 0 => a \notin shown[r])
=============================================================================
