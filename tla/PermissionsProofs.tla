-------------------------- MODULE PermissionsProofs --------------------------
(***************************************************************************)
(* Theorems about Permissions, for every set of requests, any number of    *)
(* adapters, clears and restarts.  What the safety properties lack to be   *)
(* inductive is what an entry of the active map says about the rest of the *)
(* state: an open one has no verdict, was not abandoned and has no cancel  *)
(* under way (OpenIsUndecided).                                            *)
(***************************************************************************)
EXTENDS Permissions, TLAPS

\* A request that claude has not made yet is known nowhere.
Unmade ==
    \A r \in Requests : r \notin made =>
      /\ entry[r] = "none" /\ row[r] = "none" /\ verdicts[r] = <<>>
      /\ cancelAt[r] = 0 /\ r \notin abandoned /\ r \notin pending

\* An open entry stands for a request nothing was decided about.
OpenIsUndecided ==
    \A r \in Requests : entry[r] = "open" =>
      verdicts[r] = <<>> /\ cancelAt[r] = 0 /\ r \notin abandoned

IInv ==
    /\ TypeOK
    /\ Unmade
    /\ OpenIsUndecided
    /\ FirstAnswerWins
    /\ AbandonedStaysSilent
    /\ AwaitsAnswerableOnly
    /\ ApprovedWasAllowed

-----------------------------------------------------------------------------
(* Types                                                                   *)

\* The adapter after an adapter is an adapter, or none.
LEMMA AfterType == \A a \in 1..Last : After(a) \in 0..Last
BY PermissionsAssumption DEF After

\* Resolving a request keeps the types of what it changes.
LEMMA ResolveType ==
  ASSUME TypeOK, NEW r \in Requests, NEW b \in Behaviors, Resolve(r, b)
  PROVE  /\ entry' \in [Requests -> {"none", "open", "settled"}]
         /\ row' \in [Requests -> {"none", "open"} \cup Behaviors]
         /\ verdicts' \in [Requests -> Seq(Behaviors)]
         /\ pending' \in SUBSET Requests
         /\ timers' \in SUBSET Requests
         /\ cancelAt' \in [Requests -> 0..Last]
BY PermissionsAssumption DEF TypeOK, Resolve, Settled

\* What the end of a clear leaves.
LEMMA PurgeType ==
  ASSUME Purge
  PROVE  /\ row' \in [Requests -> {"none", "open"} \cup Behaviors]
         /\ pending' \in SUBSET Requests
         /\ clearAt' \in Requests \cup {None}
         /\ clearStep' \in 0..Last
         /\ clearNext' \in SUBSET Requests
BY PermissionsAssumption DEF Purge, PendingAfterClear

\* Every step keeps the types.
LEMMA NextType == TypeOK /\ [Next]_vars => TypeOK'
<1> SUFFICES ASSUME TypeOK, [Next]_vars PROVE TypeOK'
  OBVIOUS
<1> USE PermissionsAssumption
<1>1. ASSUME NEW r \in Requests, PreApproved(r) PROVE TypeOK'
  <2>1. "allow" \in Behaviors
    BY DEF Behaviors
  <2>2. verdicts[r] \in Seq(Behaviors)
    BY DEF TypeOK
  <2>3. verdicts' \in [Requests -> Seq(Behaviors)]
    BY <1>1, <2>1, <2>2 DEF TypeOK, PreApproved
  <2>4. row' \in [Requests -> {"none", "open"} \cup Behaviors]
    BY <1>1, <2>1 DEF TypeOK, PreApproved
  <2> QED BY <1>1, <2>3, <2>4 DEF TypeOK, PreApproved, clearVars
<1>2. ASSUME NEW r \in Requests, Request(r) PROVE TypeOK'
  BY <1>2 DEF TypeOK, Request, Armed, clearVars
<1>3. ASSUME NEW r \in Requests, Sent(r) PROVE TypeOK'
  <2>1. sendAt[r] \in 1..Last
    BY <1>3 DEF TypeOK, Sent
  <2>2. sendAt' \in [Requests -> 0..Last]
    BY <1>3, <2>1, AfterType DEF TypeOK, Sent
  <2>3. shown' \in [Requests -> SUBSET Adapters]
    BY <1>3, <2>1 DEF TypeOK, Sent, Adapters
  <2> QED BY <1>3, <2>2, <2>3 DEF TypeOK, Sent, clearVars
<1>4. ASSUME NEW r \in Requests, NEW b \in Behaviors, NEW persistent \in BOOLEAN,
             Answer(r, b, persistent)
      PROVE  TypeOK'
  <2>1. Resolve(r, b)
    BY <1>4 DEF Answer
  <2>2. approvals' \in SUBSET {Signature[q] : q \in Requests}
    BY <1>4 DEF TypeOK, Answer
  <2> QED BY <1>4, <2>1, <2>2, ResolveType DEF TypeOK, Answer, clearVars
<1>5. ASSUME NEW r \in Requests, Timeout(r) PROVE TypeOK'
  <2>1. CASE Answerable(r)
    BY <1>5, <2>1, ResolveType DEF TypeOK, Timeout, clearVars
  <2>2. CASE ~Answerable(r)
    BY <1>5, <2>2 DEF TypeOK, Timeout, clearVars
  <2> QED BY <2>1, <2>2
<1>6. ASSUME NEW r \in Requests, CancelReturns(r) PROVE TypeOK'
  <2>1. cancelAt[r] \in 1..Last
    BY <1>6 DEF TypeOK, CancelReturns
  <2>2. cancelAt' \in [Requests -> 0..Last]
    BY <1>6, <2>1, AfterType DEF TypeOK, CancelReturns
  <2>3. shown' \in [Requests -> SUBSET Adapters]
    BY <1>6 DEF TypeOK, CancelReturns
  <2> QED BY <1>6, <2>2, <2>3 DEF TypeOK, CancelReturns, clearVars
<1>7. CASE Clear
  <2> DEFINE S == {r \in Requests : entry[r] # "none"}
  <2>1. /\ clears' \in 0..MaxClears
        /\ timers' \in SUBSET Requests
        /\ abandoned' \in SUBSET Requests
    BY <1>7 DEF TypeOK, Clear
  <2>2. CASE Purge /\ UNCHANGED entry
    BY <1>7, <2>1, <2>2, PurgeType DEF TypeOK, Clear
  <2>3. ASSUME NEW r \in S, entry' = SettledByClear(r, S \ {r}), clearAt' = r,
               clearStep' = 1, clearNext' = S \ {r}, UNCHANGED <<row, pending>>
        PROVE  TypeOK'
    <3>1. entry' \in [Requests -> {"none", "open", "settled"}]
      BY <2>3 DEF TypeOK, SettledByClear, Settled
    <3> QED BY <1>7, <2>1, <2>3, <3>1 DEF TypeOK, Clear
  <2> QED BY <1>7, <2>2, <2>3 DEF Clear
<1>8. CASE ClearReturns
  <2>1. shown' \in [Requests -> SUBSET Adapters]
    BY <1>8 DEF TypeOK, ClearReturns
  <2>2. CASE /\ clearStep # Last /\ clearStep' = clearStep + 1
             /\ UNCHANGED <<entry, row, pending, clearAt, clearNext>>
    BY <1>8, <2>1, <2>2 DEF TypeOK, ClearReturns
  <2>3. ASSUME NEW r \in clearNext, entry' = [entry EXCEPT ![r] = "none"], clearAt' = r,
               clearStep' = 1, clearNext' = clearNext \ {r}, UNCHANGED <<row, pending>>
        PROVE  TypeOK'
    BY <1>8, <2>1, <2>3 DEF TypeOK, ClearReturns
  <2>4. CASE Purge /\ UNCHANGED entry
    BY <1>8, <2>1, <2>4, PurgeType DEF TypeOK, ClearReturns
  <2> QED BY <1>8, <2>2, <2>3, <2>4 DEF ClearReturns
<1>9. CASE Restart
  BY <1>9 DEF TypeOK, Restart
<1>10. CASE UNCHANGED vars
  BY <1>10 DEF TypeOK, vars, clearVars
<1> QED BY <1>1, <1>2, <1>3, <1>4, <1>5, <1>6, <1>7, <1>8, <1>9, <1>10 DEF Next

\* Before the first request everything is empty.
LEMMA InitType == Init => TypeOK
BY PermissionsAssumption DEF Init, TypeOK

\* Every variable keeps its type.
THEOREM TypeCorrect == Safety => []TypeOK
BY InitType, NextType, PTL DEF Safety

-----------------------------------------------------------------------------
(* Safety                                                                  *)

\* Before the first request nothing was decided.
LEMMA InitIInv == Init => IInv
BY InitType DEF Init, IInv, Unmade, OpenIsUndecided, FirstAnswerWins,
   AbandonedStaysSilent, AwaitsAnswerableOnly, ApprovedWasAllowed, Behaviors

\* The first verdict of a request.
LEMMA FirstVerdict ==
  ASSUME NEW b \in Behaviors
  PROVE  Append(<<>>, b) = <<b>> /\ Len(<<b>>) = 1 /\ <<b>> # <<>>
OBVIOUS

\* A verdict on request r, the first one: whether a user gives it, the timer or
\* an earlier approval, it is the only one, and it is remembered if "allow".
LEMMA VerdictKeepsIInv ==
  ASSUME IInv, TypeOK', NEW r \in Requests, NEW b \in Behaviors,
         verdicts[r] = <<>>, r \notin abandoned, r \in made', made \subseteq made',
         entry' \in {entry, [entry EXCEPT ![r] = "settled"]}, entry'[r] # "open",
         row' \in {row, [row EXCEPT ![r] = b]}, row'[r] \in {"none", b},
         verdicts' = [verdicts EXCEPT ![r] = Append(@, b)],
         approvals' \subseteq approvals \cup {Signature[r]},
         Signature[r] \in approvals' => Signature[r] \in approvals \/ b = "allow",
         pending' = pending \ {r}, timers' \in {timers, timers \ {r}},
         \A q \in Requests \ {r} : cancelAt'[q] = cancelAt[q],
         UNCHANGED <<clearAt, abandoned>>
  PROVE  IInv'
<1>1. verdicts'[r] = <<b>> /\ Len(verdicts'[r]) = 1
  BY FirstVerdict DEF IInv, TypeOK
<1>2. \A q \in Requests \ {r} :
        entry'[q] = entry[q] /\ row'[q] = row[q] /\ verdicts'[q] = verdicts[q]
  BY DEF IInv, TypeOK
<1>3. Unmade'
  BY <1>2 DEF IInv, Unmade
<1>4. OpenIsUndecided'
  BY <1>2 DEF IInv, OpenIsUndecided
<1>5. FirstAnswerWins'
  <2>1. ASSUME NEW q \in Requests \ {r}
        PROVE  /\ Len(verdicts'[q]) <= 1
               /\ row'[q] \in Behaviors => verdicts'[q] = <<row'[q]>>
    BY <1>2 DEF IInv, FirstAnswerWins
  <2>2. row'[r] \in Behaviors => row'[r] = b
    BY DEF Behaviors
  <2> QED BY <1>1, <2>1, <2>2 DEF FirstAnswerWins
<1>6. AbandonedStaysSilent'
  BY <1>2 DEF IInv, AbandonedStaysSilent
<1>7. AwaitsAnswerableOnly'
  BY <1>2 DEF IInv, AwaitsAnswerableOnly, Answerable, TypeOK
<1>8. ApprovedWasAllowed'
  <2>1. ASSUME NEW s \in approvals
        PROVE  \E q \in Requests : Signature[q] = s /\ verdicts'[q] = <<"allow">>
    <3>1. PICK q \in Requests : Signature[q] = s /\ verdicts[q] = <<"allow">>
      BY <2>1 DEF IInv, ApprovedWasAllowed
    <3>2. q # r
      BY <3>1, FirstVerdict DEF Behaviors
    <3> QED BY <1>2, <3>1, <3>2
  <2>2. b = "allow" => verdicts'[r] = <<"allow">>
    BY <1>1
  <2> QED BY <2>1, <2>2 DEF ApprovedWasAllowed
<1> QED BY <1>3, <1>4, <1>5, <1>6, <1>7, <1>8 DEF IInv

\* handleVerdict and resolveTimeout, from the settled flag to the first cancel.
LEMMA ResolveKeepsIInv ==
  ASSUME IInv, TypeOK', NEW r \in Requests, NEW b \in Behaviors,
         Answerable(r), Resolve(r, b),
         \/ approvals' = approvals
         \/ b = "allow" /\ approvals' = approvals \cup {Signature[r]},
         UNCHANGED <<made, clearAt, abandoned>>
  PROVE  IInv'
<1>1. verdicts[r] = <<>> /\ r \notin abandoned /\ r \in made
  BY DEF IInv, Answerable, OpenIsUndecided, Unmade
<1>2. row[r] \notin Behaviors
  BY <1>1 DEF IInv, FirstAnswerWins
<1>3. row' \in {row, [row EXCEPT ![r] = b]} /\ row'[r] \in {"none", b}
  BY <1>2 DEF IInv, TypeOK, Resolve
<1>4. /\ entry' = [entry EXCEPT ![r] = "settled"] /\ entry'[r] # "open"
      /\ verdicts' = [verdicts EXCEPT ![r] = Append(@, b)]
      /\ pending' = pending \ {r} /\ timers' = timers \ {r}
      /\ \A q \in Requests \ {r} : cancelAt'[q] = cancelAt[q]
  BY DEF IInv, TypeOK, Resolve, Settled
<1> QED BY <1>1, <1>3, <1>4, VerdictKeepsIInv

\* A request that was approved for good is answered at once.
LEMMA PreApprovedKeepsIInv ==
  ASSUME IInv, TypeOK', NEW r \in Requests, PreApproved(r)
  PROVE  IInv'
<1>1. /\ verdicts[r] = <<>> /\ r \notin abandoned /\ entry[r] = "none"
      /\ r \notin pending /\ "allow" \in Behaviors
  BY DEF IInv, Unmade, PreApproved, Behaviors
<1>2. /\ r \in made' /\ made \subseteq made'
      /\ row' = [row EXCEPT ![r] = "allow"] /\ row'[r] = "allow"
      /\ verdicts' = [verdicts EXCEPT ![r] = Append(@, "allow")]
      /\ UNCHANGED <<entry, timers, approvals, pending, cancelAt, clearAt, abandoned>>
  BY DEF IInv, TypeOK, PreApproved, clearVars
<1>3. pending' = pending \ {r} /\ entry'[r] # "open"
  BY <1>1, <1>2
<1> QED BY <1>1, <1>2, <1>3, VerdictKeepsIInv

\* A new request is open, timed and pending, and nothing is decided about it.
LEMMA RequestKeepsIInv ==
  ASSUME IInv, TypeOK', NEW r \in Requests, Request(r)
  PROVE  IInv'
<1>1. /\ verdicts[r] = <<>> /\ cancelAt[r] = 0 /\ r \notin abandoned /\ r \in made'
      /\ made \subseteq made'
  BY DEF IInv, Unmade, Request
<1>2. /\ \A q \in Requests \ {r} : entry'[q] = entry[q] /\ row'[q] = row[q]
      /\ entry'[r] = "open" /\ row'[r] = "open"
  BY DEF IInv, TypeOK, Request
<1>3. pending' = pending \cup {r} /\ timers' = timers \cup {r}
  BY DEF Request, Armed
<1>4. UNCHANGED <<approvals, cancelAt, clearAt, verdicts, abandoned>>
  BY DEF Request, clearVars
<1>5. Unmade'
  BY <1>1, <1>2, <1>3, <1>4 DEF IInv, Unmade
<1>6. OpenIsUndecided'
  BY <1>1, <1>2, <1>4 DEF IInv, OpenIsUndecided
<1>7. FirstAnswerWins'
  BY <1>2, <1>4 DEF IInv, FirstAnswerWins, Behaviors
<1>8. AbandonedStaysSilent' /\ ApprovedWasAllowed'
  BY <1>4 DEF IInv, AbandonedStaysSilent, ApprovedWasAllowed
<1>9. AwaitsAnswerableOnly'
  BY <1>2, <1>3, <1>4 DEF IInv, AwaitsAnswerableOnly, Answerable, TypeOK
<1> QED BY <1>5, <1>6, <1>7, <1>8, <1>9 DEF IInv

\* A step that decides nothing: entries, rows, pending requests and cancels
\* lapse, and those abandoned were open.
Lapses ==
    /\ UNCHANGED <<made, approvals, verdicts>>
    /\ pending' \subseteq pending
    /\ \A q \in Requests :
         /\ entry'[q] = "open" => entry[q] = "open"
         /\ entry[q] = "none" => entry'[q] = "none"
         /\ row'[q] \in {"none", row[q]}
         /\ cancelAt[q] = 0 => cancelAt'[q] = 0
         /\ q \in abandoned' => q \in abandoned \/ (entry[q] = "open" /\ entry'[q] # "open")

\* Such a step keeps IInv if it keeps what is pending answerable.
LEMMA NoVerdictKeepsIInv ==
  ASSUME IInv, TypeOK', Lapses, AwaitsAnswerableOnly'
  PROVE  IInv'
<1> USE DEF Lapses
<1>1. Unmade'
  BY DEF IInv, Unmade
<1>2. OpenIsUndecided'
  BY DEF IInv, OpenIsUndecided
<1>3. FirstAnswerWins'
  BY DEF IInv, FirstAnswerWins, Behaviors
<1>4. AbandonedStaysSilent'
  BY DEF IInv, AbandonedStaysSilent, OpenIsUndecided, TypeOK
<1>5. ApprovedWasAllowed'
  BY DEF IInv, ApprovedWasAllowed
<1> QED BY <1>1, <1>2, <1>3, <1>4, <1>5 DEF IInv

\* A prompt was sent, or its cancel returned.  A cancel whose request is done
\* deletes an entry that is not open.
LEMMA PromptKeepsIInv ==
  ASSUME IInv, TypeOK', NEW r \in Requests, Sent(r) \/ CancelReturns(r)
  PROVE  IInv'
<1>1. /\ UNCHANGED <<made, approvals, verdicts, row, pending, timers, clearAt, abandoned>>
      /\ \A q \in Requests : cancelAt[q] = 0 => cancelAt'[q] = 0
  BY DEF Sent, CancelReturns, IInv, TypeOK, clearVars
<1>2. \A q \in Requests :
        /\ entry'[q] \in {entry[q], "none"}
        /\ entry[q] = "open" => entry'[q] = "open"
  BY DEF Sent, CancelReturns, IInv, TypeOK, OpenIsUndecided
<1>3. AwaitsAnswerableOnly'
  BY <1>1, <1>2 DEF IInv, AwaitsAnswerableOnly, Answerable, TypeOK
<1>4. Lapses
  BY <1>1, <1>2 DEF Lapses
<1> QED BY <1>3, <1>4, NoVerdictKeepsIInv

\* The timer of an answered request does nothing.
LEMMA TimeoutKeepsIInv ==
  ASSUME IInv, TypeOK', NEW r \in Requests, Timeout(r)
  PROVE  IInv'
<1>1. CASE Answerable(r)
  <2>1. Resolve(r, DefaultOnTimeout) /\ UNCHANGED <<made, approvals, clearAt, abandoned>>
    BY <1>1 DEF Timeout, clearVars
  <2> QED BY <1>1, <2>1, ResolveKeepsIInv, PermissionsAssumption
<1>2. CASE ~Answerable(r)
  <2>1. /\ UNCHANGED <<made, entry, approvals, verdicts, row, pending, cancelAt, clearAt, abandoned>>
        /\ timers' = timers \ {r}
    BY <1>2 DEF Timeout, clearVars
  <2>2. AwaitsAnswerableOnly'
    BY <1>2, <2>1 DEF IInv, AwaitsAnswerableOnly, Answerable
  <2>3. Lapses
    BY <2>1 DEF Lapses
  <2> QED BY <2>2, <2>3, NoVerdictKeepsIInv
<1> QED BY <1>1, <1>2

\* The end of a clear: no row is left and nothing is pending.
LEMMA PurgeKeepsIInv ==
  ASSUME IInv, TypeOK', Purge,
         \A q \in abandoned' : q \in abandoned,
         UNCHANGED <<made, entry, approvals, cancelAt, verdicts>>
  PROVE  IInv'
<1>1. pending' = {} /\ \A q \in Requests : row'[q] = "none"
  BY DEF Purge, PendingAfterClear
<1>2. AwaitsAnswerableOnly'
  BY <1>1 DEF AwaitsAnswerableOnly
<1>3. Lapses
  BY <1>1 DEF Lapses
<1> QED BY <1>2, <1>3, NoVerdictKeepsIInv

\* cancelForSession: every entry of the session is settled before the first
\* adapter is awaited, so none of those abandoned can be answered.
LEMMA ClearKeepsIInv ==
  ASSUME IInv, TypeOK', Clear
  PROVE  IInv'
<1> DEFINE S == {r \in Requests : entry[r] # "none"}
<1>1. /\ UNCHANGED <<made, approvals, cancelAt, verdicts>>
      /\ abandoned' = abandoned \cup {r \in S : entry[r] = "open"}
  BY DEF Clear
<1>2. CASE S = {} /\ Purge /\ UNCHANGED entry
  BY <1>1, <1>2, PurgeKeepsIInv
<1>3. ASSUME NEW r \in S, entry' = SettledByClear(r, S \ {r}), clearAt' = r,
             UNCHANGED <<row, pending>>
      PROVE  IInv'
  <2>1. \A q \in Requests :
          /\ entry'[q] # "open"
          /\ entry[q] = "none" => entry'[q] = "none"
    BY <1>3 DEF SettledByClear, Settled
  <2>2. AwaitsAnswerableOnly'
    BY <1>3, PermissionsAssumption DEF AwaitsAnswerableOnly
  <2>3. Lapses
    BY <1>1, <1>3, <2>1 DEF Lapses
  <2> QED BY <2>2, <2>3, NoVerdictKeepsIInv
<1> QED BY <1>2, <1>3 DEF Clear

\* The clear goes on, or ends.
LEMMA ClearReturnsKeepsIInv ==
  ASSUME IInv, TypeOK', ClearReturns
  PROVE  IInv'
<1>1. UNCHANGED <<made, approvals, cancelAt, verdicts, abandoned>> /\ clearAt # None
  BY DEF ClearReturns
<1>2. CASE Purge /\ UNCHANGED entry
  BY <1>1, <1>2, PurgeKeepsIInv
<1>3. CASE UNCHANGED <<entry, row, pending, clearAt>>
  <2>1. AwaitsAnswerableOnly'
    BY <1>1, <1>3 DEF AwaitsAnswerableOnly
  <2>2. Lapses
    BY <1>1, <1>3 DEF Lapses
  <2> QED BY <2>1, <2>2, NoVerdictKeepsIInv
<1>4. ASSUME NEW r \in clearNext, entry' = [entry EXCEPT ![r] = "none"], clearAt' = r,
             UNCHANGED <<row, pending>>
      PROVE  IInv'
  <2>1. r \in Requests
    BY DEF IInv, TypeOK
  <2>2. AwaitsAnswerableOnly'
    BY <1>4, <2>1, PermissionsAssumption DEF AwaitsAnswerableOnly
  <2>3. \A q \in Requests : entry'[q] \in {"none", entry[q]}
    BY <1>4 DEF IInv, TypeOK
  <2>4. Lapses
    BY <1>1, <1>4, <2>3 DEF Lapses
  <2> QED BY <2>2, <2>4, NoVerdictKeepsIInv
<1> QED BY <1>2, <1>3, <1>4 DEF ClearReturns

\* A restart forgets every entry, and with it every pending request.
LEMMA RestartKeepsIInv ==
  ASSUME IInv, TypeOK', Restart
  PROVE  IInv'
<1>1. /\ \A q \in Requests : entry'[q] = "none" /\ cancelAt'[q] = 0
      /\ pending' = {}
      /\ UNCHANGED <<made, row, approvals, verdicts, abandoned>>
  BY DEF Restart
<1>2. AwaitsAnswerableOnly'
  BY <1>1 DEF AwaitsAnswerableOnly
<1>3. Lapses
  BY <1>1 DEF Lapses
<1> QED BY <1>2, <1>3, NoVerdictKeepsIInv

\* Every step keeps IInv: one case per action of Next.
LEMMA NextKeepsIInv == IInv /\ [Next]_vars => IInv'
<1> SUFFICES ASSUME IInv, [Next]_vars PROVE IInv'
  OBVIOUS
<1>1. TypeOK'
  BY NextType DEF IInv
<1>2. ASSUME NEW r \in Requests, PreApproved(r) \/ Request(r) PROVE IInv'
  BY <1>1, <1>2, PreApprovedKeepsIInv, RequestKeepsIInv
<1>3. ASSUME NEW r \in Requests, Sent(r) \/ CancelReturns(r) PROVE IInv'
  BY <1>1, <1>3, PromptKeepsIInv
<1>4. ASSUME NEW r \in Requests, NEW b \in Behaviors, NEW persistent \in BOOLEAN,
             Answer(r, b, persistent)
      PROVE  IInv'
  BY <1>1, <1>4, ResolveKeepsIInv DEF Answer, Remembers, clearVars
<1>5. ASSUME NEW r \in Requests, Timeout(r) PROVE IInv'
  BY <1>1, <1>5, TimeoutKeepsIInv
<1>6. CASE Clear \/ ClearReturns \/ Restart
  BY <1>1, <1>6, ClearKeepsIInv, ClearReturnsKeepsIInv, RestartKeepsIInv
<1>7. CASE UNCHANGED vars
  <2>1. UNCHANGED <<made, entry, timers, row, approvals, pending, cancelAt, clearAt,
                    verdicts, abandoned>>
    BY <1>7 DEF vars, clearVars
  <2> QED BY <1>1, <2>1 DEF IInv, Unmade, OpenIsUndecided, FirstAnswerWins,
             AbandonedStaysSilent, AwaitsAnswerableOnly, ApprovedWasAllowed, Answerable
<1> QED BY <1>2, <1>3, <1>4, <1>5, <1>6, <1>7 DEF Next

\* IInv is inductive: it holds in every reachable state.
THEOREM Inductive == Safety => []IInv
BY InitIInv, NextKeepsIInv, PTL DEF Safety

\* One verdict per request at most, whoever gives it, and the row agrees.
THEOREM OneVerdict == Safety => []FirstAnswerWins
<1>1. IInv => FirstAnswerWins
  BY DEF IInv
<1> QED BY Inductive, <1>1, PTL

\* What a clear has cancelled is never answered afterwards.
THEOREM AbandonedIsSilent == Safety => []AbandonedStaysSilent
<1>1. IInv => AbandonedStaysSilent
  BY DEF IInv
<1> QED BY Inductive, <1>1, PTL

\* Outside a clear, what the session waits for can still be answered and will
\* be timed out.
THEOREM PendingIsAnswerable == Safety => []AwaitsAnswerableOnly
<1>1. IInv => AwaitsAnswerableOnly
  BY DEF IInv
<1> QED BY Inductive, <1>1, PTL

\* A lasting approval goes back to a request that was answered "allow".
THEOREM ApprovalIsAllowed == Safety => []ApprovedWasAllowed
<1>1. IInv => ApprovedWasAllowed
  BY DEF IInv
<1> QED BY Inductive, <1>1, PTL
=============================================================================
