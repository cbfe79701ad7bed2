------------------------- MODULE OutboundReplyProofs -------------------------
(***************************************************************************)
(* Proofs about OutboundReply, for any number of replies, parts, senders,  *)
(* attempts, clears and crashes.                                           *)
(***************************************************************************)
EXTENDS OutboundReply, TLAPS

-----------------------------------------------------------------------------
(* Types                                                                   *)

\* The types of the handlers' locals and of the rows.
LocalsOK ==
    /\ stage \in [Replies -> {"none", "staging", "sending", "backoff", "over"}]
    /\ attempt \in [Replies -> 0..MaxAttempts]
    /\ part \in [Replies -> 0..MaxParts]
    /\ got \in [Replies -> BOOLEAN]
    /\ again \in [Replies -> BOOLEAN]
    /\ row \in [Replies -> Rows]

\* A handler that sends is in an attempt of those allowed and at a part of the
\* reply, and no part has been posted more often than it was tried; one that
\* waits has an attempt left; one that has not begun has posted nothing.
CountedAt(r) ==
    /\ stage[r] \in {"none", "staging"} => \A p \in 1..MaxParts : copies[r][p] = 0
    /\ stage[r] = "sending" =>
         /\ attempt[r] \in 1..MaxAttempts
         /\ part[r] \in 1..Parts[r]
         /\ \A p \in 1..MaxParts :
              /\ copies[r][p] <= attempt[r]
              /\ p >= part[r] => copies[r][p] < attempt[r]
    /\ stage[r] = "backoff" =>
         /\ attempt[r] \in 1..(MaxAttempts - 1)
         /\ \A p \in 1..MaxParts : copies[r][p] <= attempt[r]

Counted == \A r \in Replies : CountedAt(r)

\* All locals and the row are typed when a handler dispatches its reply.
LEMMA DispatchType ==
    ASSUME TypeOK, NEW r \in Replies, Dispatch(r)
    PROVE  LocalsOK'
<1> USE OutboundAssumption DEF OutboundAssumption, TypeOK, Dispatch
<1>1. row' \in [Replies -> Rows]
  BY DEF Rows
<1>2. part' \in [Replies -> 0..MaxParts]
  <2>1. 1 \in 0..MaxParts
    OBVIOUS
  <2>2. QED
    BY <2>1
<1>3. attempt' \in [Replies -> 0..MaxAttempts]
  OBVIOUS
<1>4. stage' \in [Replies -> {"none", "staging", "sending", "backoff", "over"}]
  OBVIOUS
<1>5. QED
  BY <1>1, <1>2, <1>3, <1>4, Zenon DEF LocalsOK

\* A handler that returns leaves typed locals.
LEMMA ReturnType ==
    ASSUME TypeOK, NEW r \in Replies, Return(r), row' \in [Replies -> Rows]
    PROVE  LocalsOK'
<1> USE OutboundAssumption DEF OutboundAssumption, TypeOK, Return
<1>1. attempt' \in [Replies -> 0..MaxAttempts]
  OBVIOUS
<1>2. part' \in [Replies -> 0..MaxParts]
  OBVIOUS
<1>3. got' \in [Replies -> BOOLEAN] /\ again' \in [Replies -> BOOLEAN]
  OBVIOUS
<1>4. stage' \in [Replies -> {"none", "staging", "sending", "backoff", "over"}]
  OBVIOUS
<1>5. QED
  BY <1>1, <1>2, <1>3, <1>4 DEF LocalsOK

\* Refusing keeps the types of locals, rows and results.
LEMMA RefuseType ==
    ASSUME TypeOK, NEW r \in Replies, Refuse(r)
    PROVE  LocalsOK' /\ results' \in SUBSET (Replies \X Verdicts)
<1>1. results' \in SUBSET (Replies \X Verdicts)
  BY DEF TypeOK, Refuse, SendResult, Verdicts
<1>2. row' \in [Replies -> Rows]
  BY DEF TypeOK, Refuse
<1>3. QED
  BY <1>1, <1>2, ReturnType DEF Refuse

\* Deciding a reply does too.
LEMMA DecideType ==
    ASSUME TypeOK, NEW r \in Replies, NEW v \in Verdicts, Decide(r, v)
    PROVE  LocalsOK' /\ results' \in SUBSET (Replies \X Verdicts)
<1>1. results' \in SUBSET (Replies \X Verdicts)
  BY DEF TypeOK, Decide, SendResult
<1>2. row' \in [Replies -> Rows]
  BY DEF TypeOK, Decide, RowAfter, Rows
<1>3. QED
  BY <1>1, <1>2, ReturnType DEF Decide

\* Every state has the types, and the counts that they rest on.
LEMMA InitType == Init => TypeOK /\ Counted
  BY OutboundAssumption DEF OutboundAssumption, Init, TypeOK, Rows, Counted, CountedAt

LEMMA NextType == TypeOK /\ Counted /\ [Next]_vars => TypeOK'
<1> SUFFICES ASSUME TypeOK, Counted, [Next]_vars PROVE TypeOK'
  OBVIOUS
<1>1. ASSUME NEW s \in Senders, Ingest(s) PROVE TypeOK'
  <2>1. newest' \in SUBSET Senders /\ top' \in Senders \cup {None} /\ last' \in Senders
    BY <1>1 DEF Ingest, NewRow, TypeOK
  <2>2. QED
    BY <1>1, <2>1, Zenon DEF Ingest, handlerVars, TypeOK
<1>3. ASSUME NEW r \in Replies, Call(r) PROVE TypeOK'
  <2>1. call' \in [Replies -> {"idle", "waiting", "sent", "error"}]
    BY <1>3 DEF Call, TypeOK
  <2>2. toDaemon' \in Seq(Replies)
    <3>1. toDaemon \in Seq(Replies) /\ Append(toDaemon, r) \in Seq(Replies)
      BY DEF TypeOK
    <3>2. QED
      BY <1>3, <3>1 DEF Call
  <2>3. QED
    BY <1>3, <2>1, <2>2, Zenon DEF Call, inboundVars, handlerVars, TypeOK
<1>4. ASSUME NEW r \in Replies, CallFails(r) PROVE TypeOK'
  <2>1. call' \in [Replies -> {"idle", "waiting", "sent", "error"}]
    BY <1>4 DEF CallFails, TypeOK
  <2>2. QED
    BY <1>4, <2>1, Zenon DEF CallFails, inboundVars, handlerVars, TypeOK
<1>5. ASSUME NEW r \in Replies, NEW v \in Verdicts, ReadResult(r, v) PROVE TypeOK'
  <2>1. call' \in [Replies -> {"idle", "waiting", "sent", "error"}]
    BY <1>5 DEF ReadResult, TypeOK
  <2>2. results' \in SUBSET (Replies \X Verdicts)
    BY <1>5 DEF ReadResult, TypeOK
  <2>3. QED
    BY <1>5, <2>1, <2>2, Zenon DEF ReadResult, inboundVars, handlerVars, TypeOK
<1>6. ASSUME NEW r \in Replies, Accept(r) PROVE TypeOK'
  <2>1. toDaemon' \in Seq(Replies)
    BY <1>6 DEF Accept, TypeOK
  <2>2. LocalsOK' /\ results' \in SUBSET (Replies \X Verdicts)
    <3>1. CASE Resolved = None /\ Refuse(r)
      BY <3>1, RefuseType
    <3>2. CASE /\ UNCHANGED results
               /\ stage' = [stage EXCEPT ![r] = "staging"]
               /\ UNCHANGED <<attempt, part, got, again, row>>
      <4>1. stage' \in [Replies -> {"none", "staging", "sending", "backoff", "over"}]
        BY <3>2 DEF TypeOK
      <4>2. QED
        BY <3>2, <4>1, Zenon DEF TypeOK, LocalsOK
    <3>3. CASE Dispatch(r) /\ UNCHANGED results
      BY <3>3, DispatchType DEF TypeOK
    <3>4. QED
      BY <1>6, <3>1, <3>2, <3>3 DEF Accept
  <2>3. QED
    BY <1>6, <2>1, <2>2, Zenon DEF Accept, inboundVars, TypeOK, LocalsOK
<1>7. ASSUME NEW r \in Replies, Staged(r) PROVE TypeOK'
  <2>1. LocalsOK' /\ results' \in SUBSET (Replies \X Verdicts)
    <3>1. CASE Refuse(r)
      BY <3>1, RefuseType
    <3>2. CASE Dispatch(r) /\ UNCHANGED results
      BY <3>2, DispatchType DEF TypeOK
    <3>3. QED
      BY <1>7, <3>1, <3>2 DEF Staged
  <2>2. QED
    BY <1>7, <2>1, Zenon DEF Staged, inboundVars, TypeOK, LocalsOK
<1>8. ASSUME NEW r \in Replies, NEW ok \in BOOLEAN, NEW posted \in BOOLEAN, NEW may \in BOOLEAN,
             SendReturns(r, ok, posted, may)
      PROVE TypeOK'
  <2>1. copies' \in [Replies -> [1..MaxParts -> 0..MaxAttempts]]
    <3>1. part[r] \in 1..MaxParts /\ copies[r][part[r]] + 1 \in 0..MaxAttempts
      <4>1. stage[r] = "sending"
        BY <1>8 DEF SendReturns
      <4>2. part[r] \in 1..Parts[r]
        BY <4>1, Zenon DEF Counted, CountedAt
      <4>3. part[r] \in 1..MaxParts
        BY <4>2, OutboundAssumption DEF OutboundAssumption
      <4>4. copies[r][part[r]] < attempt[r] /\ attempt[r] \in 1..MaxAttempts
        <5>1. attempt[r] \in 1..MaxAttempts
          BY <4>1, Zenon DEF Counted, CountedAt
        <5>2. part[r] >= part[r] => copies[r][part[r]] < attempt[r]
          BY <4>1, <4>3, Zenon DEF Counted, CountedAt
        <5>3. part[r] >= part[r]
          BY <4>3, OutboundAssumption DEF OutboundAssumption
        <5>4. QED
          BY <5>1, <5>2, <5>3
      <4>5. copies[r][part[r]] \in Nat
        <5>1. copies[r] \in [1..MaxParts -> 0..MaxAttempts]
          BY DEF TypeOK
        <5>2. copies[r][part[r]] \in 0..MaxAttempts
          BY <4>3, <5>1
        <5>3. QED
          BY <5>2, OutboundAssumption DEF OutboundAssumption
      <4>6. QED
        BY <4>3, <4>4, <4>5, OutboundAssumption DEF OutboundAssumption
    <3>2. QED
      BY <1>8, <3>1 DEF SendReturns, TypeOK
  <2>2. LocalsOK' /\ results' \in SUBSET (Replies \X Verdicts)
    <3>1. CASE GoesOn(r, ok)
      <4>1. /\ part' = [part EXCEPT ![r] = @ + 1]
            /\ got' = [got EXCEPT ![r] = @ \/ ok]
            /\ again' = [again EXCEPT ![r] = IF ok THEN @ ELSE may]
            /\ UNCHANGED <<stage, attempt, row, results>>
        BY <1>8, <3>1, Zenon DEF SendReturns
      <4>2. part' \in [Replies -> 0..MaxParts]
        <5>1. part[r] + 1 \in 0..MaxParts
          BY <3>1, OutboundAssumption DEF OutboundAssumption, GoesOn, TypeOK
        <5>2. QED
          BY <4>1, <5>1 DEF TypeOK
      <4>3. got' \in [Replies -> BOOLEAN]
        BY <4>1 DEF TypeOK
      <4>4. again' \in [Replies -> BOOLEAN]
        BY <4>1 DEF TypeOK
      <4>5. QED
        BY <4>1, <4>2, <4>3, <4>4, Zenon DEF TypeOK, LocalsOK
    <3>2. ASSUME NEW v \in Verdicts, Decide(r, v)
          PROVE  LocalsOK' /\ results' \in SUBSET (Replies \X Verdicts)
      BY <3>2, DecideType
    <3>3. ASSUME stage' = [stage EXCEPT ![r] = "backoff"],
                 part' = [part EXCEPT ![r] = 0],
                 got' = [got EXCEPT ![r] = FALSE],
                 again' = [again EXCEPT ![r] = FALSE],
                 UNCHANGED <<attempt, row, results>>
          PROVE  LocalsOK' /\ results' \in SUBSET (Replies \X Verdicts)
      <4>1. stage' \in [Replies -> {"none", "staging", "sending", "backoff", "over"}]
        BY <3>3 DEF TypeOK
      <4>2. part' \in [Replies -> 0..MaxParts]
        BY <3>3, OutboundAssumption DEF OutboundAssumption, TypeOK
      <4>3. got' \in [Replies -> BOOLEAN] /\ again' \in [Replies -> BOOLEAN]
        BY <3>3 DEF TypeOK
      <4>4. QED
        BY <3>3, <4>1, <4>2, <4>3, Zenon DEF TypeOK, LocalsOK
    <3>4. QED
      BY <1>8, <3>1, <3>2, <3>3 DEF SendReturns, AttemptEnds, Verdicts
  <2>3. QED
    BY <1>8, <2>1, <2>2, Zenon DEF SendReturns, inboundVars, TypeOK, LocalsOK
<1>9. ASSUME NEW r \in Replies, Retry(r) PROVE TypeOK'
  <2>1. stage' \in [Replies -> {"none", "staging", "sending", "backoff", "over"}]
    BY <1>9 DEF Retry, TypeOK
  <2>2. attempt' \in [Replies -> 0..MaxAttempts]
    <3>1. attempt[r] + 1 \in 0..MaxAttempts
      BY <1>9, OutboundAssumption DEF OutboundAssumption, Retry, TypeOK, Counted, CountedAt
    <3>2. QED
      BY <1>9, <3>1 DEF Retry, TypeOK
  <2>3. part' \in [Replies -> 0..MaxParts]
    BY <1>9, OutboundAssumption DEF OutboundAssumption, Retry, TypeOK
  <2>4. QED
    BY <1>9, <2>1, <2>2, <2>3, Zenon DEF Retry, inboundVars, TypeOK
<1>10. CASE Clear
  <2>1. newest' \in SUBSET Senders /\ top' \in Senders \cup {None}
    BY <1>10 DEF Clear
  <2>2. clears' \in 0..MaxClears
    BY <1>10, OutboundAssumption DEF OutboundAssumption, Clear, TypeOK
  <2>3. row' \in [Replies -> Rows]
    BY <1>10 DEF Clear, Rows
  <2>4. last' \in Senders \cup {None}
    BY <1>10 DEF Clear, LastAfterClear
  <2>5. QED
    BY <1>10, <2>1, <2>2, <2>3, <2>4, Zenon DEF Clear, handlerVars, TypeOK
<1>11. CASE LinkBreaks
  <2>1. toDaemon' \in Seq(Replies) /\ results' \in SUBSET (Replies \X Verdicts)
    BY <1>11 DEF LinkBreaks
  <2>2. QED
    BY <1>11, <2>1, Zenon DEF LinkBreaks, inboundVars, handlerVars, TypeOK
<1>12. CASE Crash
  <2>1. toDaemon' \in Seq(Replies) /\ results' \in SUBSET (Replies \X Verdicts)
    BY <1>12 DEF Crash
  <2>2. LocalsOK'
    <3>1. stage' \in [Replies -> {"none", "staging", "sending", "backoff", "over"}]
      BY <1>12 DEF Crash, TypeOK
    <3>2. attempt' \in [Replies -> 0..MaxAttempts] /\ part' \in [Replies -> 0..MaxParts]
      BY <1>12, OutboundAssumption DEF OutboundAssumption, Crash
    <3>3. got' \in [Replies -> BOOLEAN] /\ again' \in [Replies -> BOOLEAN]
      BY <1>12 DEF Crash
    <3>4. QED
      BY <1>12, <3>1, <3>2, <3>3, Zenon DEF Crash, TypeOK, LocalsOK
  <2>3. crashes' \in 0..MaxCrashes
    BY <1>12, OutboundAssumption DEF OutboundAssumption, Crash, TypeOK
  <2>4. last' \in Senders \cup {None}
    BY <1>12 DEF Crash
  <2>5. QED
    BY <1>12, <2>1, <2>2, <2>3, <2>4, Zenon DEF Crash, TypeOK, LocalsOK
<1>13. CASE UNCHANGED vars
  BY <1>13, Zenon DEF vars, inboundVars, handlerVars, TypeOK
<1>14. QED
  BY <1>1, <1>3, <1>4, <1>5, <1>6, <1>7, <1>8, <1>9, <1>10, <1>11, <1>12, <1>13
  DEF Next, Exchange, Handler

-----------------------------------------------------------------------------
(* The inductive invariant                                                 *)

\* A handler that sends a text has posted the chunks before the one it is at;
\* what it has noted as delivered is there.
ProgressAt(r) ==
    /\ stage[r] = "sending" /\ r \notin Files => \A p \in 1..(part[r] - 1) : copies[r][p] > 0
    /\ got[r] => stage[r] = "sending" /\ \E p \in 1..Parts[r] : copies[r][p] > 0

\* claude, the wire and the row speak of success only where the reply is posted,
\* and results exist only of handlers that are over.
ToldAt(r) ==
    /\ call[r] = "idle" => stage[r] = "none"
    /\ call[r] = "sent" => stage[r] = "over" /\ Promise!Whole(r)
    /\ \A v \in Verdicts : <<r, v>> \in results => stage[r] = "over"
    /\ <<r, "sent">> \in results => Promise!Whole(r)
    /\ row[r] = "sent" => Promise!Whole(r)

SoundAt(r) == CountedAt(r) /\ ProgressAt(r) /\ ToldAt(r)

\* A frame on the way is the only one of its call, which nobody has handled.
Queue ==
    /\ \A i \in 1..Len(toDaemon) :
         stage[toDaemon[i]] = "none" /\ call[toDaemon[i]] # "idle"
    /\ \A i, j \in 1..Len(toDaemon) : toDaemon[i] = toDaemon[j] => i = j

IInv == TypeOK /\ (\A r \in Replies : SoundAt(r)) /\ Queue

\* The invariant holds initially.
LEMMA InitInv == Init => IInv
<1> SUFFICES ASSUME Init PROVE IInv
  OBVIOUS
<1>1. TypeOK
  BY InitType
<1>2. ASSUME NEW r \in Replies PROVE SoundAt(r)
  BY OutboundAssumption DEF OutboundAssumption, Init, SoundAt, CountedAt, ProgressAt, ToldAt
<1>3. Queue
  BY DEF Init, Queue
<1>4. QED
  BY <1>1, <1>2, <1>3 DEF IInv

\* What is sound of a reply stays so while its handler, call and copies stay as
\* they are, its row stays or is deleted, and no result is added.
LEMMA Frame ==
    ASSUME NEW q \in Replies, SoundAt(q),
           call'[q] = call[q], stage'[q] = stage[q], attempt'[q] = attempt[q],
           part'[q] = part[q], got'[q] = got[q], copies'[q] = copies[q],
           row'[q] \in {row[q], "none"},
           \A v \in Verdicts : <<q, v>> \in results' => <<q, v>> \in results
    PROVE  SoundAt(q)'
<1>1. CountedAt(q)'
  BY DEF SoundAt, CountedAt
<1>2. ProgressAt(q)'
  BY DEF SoundAt, ProgressAt
<1>3. ToldAt(q)'
  BY DEF SoundAt, ToldAt, Promise!Whole, Verdicts
<1>4. QED
  BY <1>1, <1>2, <1>3 DEF SoundAt

\* A handler that dispatches its reply for the first time is sound.
LEMMA DispatchSound ==
    ASSUME TypeOK, NEW r \in Replies, SoundAt(r), stage[r] \in {"none", "staging"},
           Dispatch(r), call[r] # "idle", UNCHANGED <<call, results, copies>>
    PROVE  SoundAt(r)'
<1> USE OutboundAssumption DEF OutboundAssumption, TypeOK
<1>1. stage'[r] = "sending" /\ attempt'[r] = 1 /\ part'[r] = 1 /\ row'[r] = "pending"
  BY DEF Dispatch
<1>2. got'[r] = got[r] /\ ~got[r]
  BY DEF Dispatch, SoundAt, ProgressAt
<1>3. \A p \in 1..MaxParts : copies[r][p] = 0
  BY DEF SoundAt, CountedAt
<1>4. CountedAt(r)'
  BY <1>1, <1>3 DEF CountedAt
<1>5. ProgressAt(r)'
  BY <1>1, <1>2 DEF ProgressAt
<1>6. ToldAt(r)'
  BY <1>1 DEF SoundAt, ToldAt, Verdicts
<1>7. QED
  BY <1>4, <1>5, <1>6 DEF SoundAt

\* A handler that is over is sound when what is said of its reply is.
LEMMA ReturnSound ==
    ASSUME TypeOK, NEW r \in Replies, Return(r), call'[r] # "idle",
           call'[r] = "sent" => Promise!Whole(r)',
           <<r, "sent">> \in results' => Promise!Whole(r)',
           row'[r] = "sent" => Promise!Whole(r)'
    PROVE  SoundAt(r)'
<1>1. stage'[r] = "over" /\ got'[r] = FALSE
  BY DEF Return, TypeOK
<1>2. CountedAt(r)' /\ ProgressAt(r)'
  BY <1>1 DEF CountedAt, ProgressAt
<1>3. ToldAt(r)'
  BY <1>1 DEF ToldAt
<1>4. QED
  BY <1>2, <1>3 DEF SoundAt

\* A reply that is refused is sound.
LEMMA RefuseSound ==
    ASSUME TypeOK, NEW r \in Replies, SoundAt(r), stage[r] \in {"none", "staging"},
           Refuse(r), call[r] # "idle", UNCHANGED <<call, copies>>
    PROVE  SoundAt(r)'
<1>1. call'[r] # "sent" /\ call'[r] # "idle"
  BY DEF SoundAt, ToldAt
<1>2. <<r, "sent">> \notin results'
  BY DEF Refuse, SendResult, SoundAt, ToldAt, Verdicts
<1>3. row'[r] = "sent" => Promise!Whole(r)'
  BY DEF Refuse, SoundAt, ToldAt, Promise!Whole
<1>4. QED
  BY <1>1, <1>2, <1>3, ReturnSound DEF Refuse

\* What a request to Telegram does to the copies of its own reply.
LEMMA SendCopies ==
    ASSUME TypeOK, NEW r \in Replies, NEW ok \in BOOLEAN, NEW posted \in BOOLEAN, NEW may \in BOOLEAN,
           SoundAt(r), SendReturns(r, ok, posted, may)
    PROVE  /\ stage[r] = "sending"
           /\ part[r] \in 1..Parts[r] /\ Parts[r] \in 1..MaxParts /\ part[r] \in 1..MaxParts
           /\ attempt[r] \in 1..MaxAttempts
           /\ copies' \in [Replies -> [1..MaxParts -> Nat]]
           /\ \A p \in 1..MaxParts :
                /\ copies[r][p] \in Nat
                /\ copies'[r][p] = IF posted /\ p = part[r] THEN copies[r][p] + 1 ELSE copies[r][p]
           /\ \A q \in Replies : q # r => copies'[q] = copies[q]
<1> USE OutboundAssumption DEF OutboundAssumption
<1>1. stage[r] = "sending"
  BY DEF SendReturns
<1>2. part[r] \in 1..Parts[r] /\ attempt[r] \in 1..MaxAttempts
  BY <1>1, Zenon DEF SoundAt, CountedAt
<1>3. Parts[r] \in 1..MaxParts
  OBVIOUS
<1>4. part[r] \in 1..MaxParts
  BY <1>2, <1>3
<1>5. copies[r] \in [1..MaxParts -> 0..MaxAttempts]
  BY DEF TypeOK
<1>6. \A p \in 1..MaxParts : copies[r][p] \in Nat
  BY <1>5
<1>7. copies' = IF posted THEN [copies EXCEPT ![r][part[r]] = @ + 1] ELSE copies
  BY DEF SendReturns
<1>8. copies \in [Replies -> [1..MaxParts -> Nat]]
  BY DEF TypeOK
<1>9. copies' \in [Replies -> [1..MaxParts -> Nat]]
  <2>1. CASE ~posted
    BY <1>7, <1>8, <2>1
  <2>2. CASE posted
    <3>1. copies[r][part[r]] + 1 \in Nat
      BY <1>4, <1>6
    <3>2. [copies[r] EXCEPT ![part[r]] = copies[r][part[r]] + 1] \in [1..MaxParts -> Nat]
      BY <1>4, <1>5, <1>6, <3>1
    <3>3. copies' = [copies EXCEPT ![r] = [copies[r] EXCEPT ![part[r]] = copies[r][part[r]] + 1]]
      BY <1>7, <2>2
    <3>4. QED
      BY <1>8, <3>2, <3>3
  <2>3. QED
    BY <2>1, <2>2
<1>10. \A p \in 1..MaxParts :
         copies'[r][p] = IF posted /\ p = part[r] THEN copies[r][p] + 1 ELSE copies[r][p]
  BY <1>4, <1>7, <1>8
<1>11. \A q \in Replies : q # r => copies'[q] = copies[q]
  BY <1>7, <1>8
<1>12. QED
  BY <1>1, <1>2, <1>3, <1>4, <1>6, <1>9, <1>10, <1>11

\* A handler stays sound as its requests to Telegram return.
LEMMA SendSound ==
    ASSUME TypeOK, NEW r \in Replies, NEW ok \in BOOLEAN, NEW posted \in BOOLEAN, NEW may \in BOOLEAN,
           SoundAt(r), SendReturns(r, ok, posted, may)
    PROVE  SoundAt(r)'
<1> USE OutboundAssumption DEF OutboundAssumption
<1> DEFINE k == part[r]
           new == copies'[r]
<1>1. /\ stage[r] = "sending"
      /\ k \in 1..Parts[r] /\ Parts[r] \in 1..MaxParts /\ k \in 1..MaxParts
      /\ attempt[r] \in 1..MaxAttempts
      /\ \A p \in 1..MaxParts :
           /\ copies[r][p] \in Nat
           /\ new[p] = IF posted /\ p = k THEN copies[r][p] + 1 ELSE copies[r][p]
  BY SendCopies
<1>2. \A p \in 1..MaxParts : new[p] \in Nat /\ new[p] >= copies[r][p]
  BY <1>1
<1>3. \A p \in 1..MaxParts : new[p] <= attempt[r] /\ (p > k => new[p] < attempt[r])
  <2>1. \A p \in 1..MaxParts :
          copies[r][p] <= attempt[r] /\ (p >= k => copies[r][p] < attempt[r])
    BY <1>1, Zenon DEF SoundAt, CountedAt
  <2>2. QED
    BY <1>1, <2>1
<1>4. ok => new[k] > 0
  <2>1. ok => posted
    BY DEF SendReturns
  <2>2. QED
    BY <1>1, <2>1
<1>5. r \notin Files => \A p \in 1..(k - 1) : new[p] > 0
  <2>1. r \notin Files => \A p \in 1..(k - 1) : copies[r][p] > 0
    BY <1>1, Zenon DEF SoundAt, ProgressAt
  <2>2. QED
    BY <1>1, <2>1
<1>6. got[r] => \E p \in 1..Parts[r] : new[p] > 0
  <2>1. got[r] => \E p \in 1..Parts[r] : copies[r][p] > 0
    BY Zenon DEF SoundAt, ProgressAt
  <2>2. \A p \in 1..Parts[r] : p \in 1..MaxParts
    BY <1>1
  <2>3. QED
    BY <1>2, <1>1, <2>1, <2>2
<1>7. Promise!Whole(r) => Promise!Whole(r)'
  <2>1. \A p \in 1..Parts[r] : p \in 1..MaxParts
    BY <1>1
  <2>2. \A p \in 1..Parts[r] : copies[r][p] > 0 => new[p] > 0
    BY <1>1, <1>2, <2>1
  <2>3. QED
    BY <2>2 DEF Promise!Whole
<1>8. call'[r] = call[r] /\ call[r] # "idle" /\ call[r] # "sent"
  BY <1>1 DEF SendReturns, SoundAt, ToldAt
<1>9. \A v \in Verdicts : <<r, v>> \notin results
  BY <1>1 DEF SoundAt, ToldAt
<1>10. CASE GoesOn(r, ok)
  <2>1. /\ part'[r] = k + 1 /\ got'[r] = (got[r] \/ ok) /\ stage'[r] = stage[r]
        /\ attempt'[r] = attempt[r] /\ row'[r] = row[r] /\ results' = results
    BY <1>10 DEF SendReturns, TypeOK
  <2>2. k < Parts[r] /\ (ok \/ r \in Files)
    BY <1>10 DEF GoesOn
  <2>3. CountedAt(r)'
    <3>1. \A p \in 1..MaxParts : p >= k + 1 => new[p] < attempt[r]
      BY <1>1, <1>3
    <3>2. k + 1 \in 1..Parts[r]
      BY <1>1, <2>2
    <3>3. QED
      BY <1>1, <1>3, <2>1, <3>1, <3>2 DEF CountedAt
  <2>4. ProgressAt(r)'
    <3>1. r \notin Files => \A p \in 1..(k + 1 - 1) : new[p] > 0
      BY <1>1, <1>4, <1>5, <2>2
    <3>2. got'[r] => \E p \in 1..Parts[r] : new[p] > 0
      BY <1>1, <1>4, <1>6, <2>1
    <3>3. QED
      BY <1>1, <2>1, <3>1, <3>2 DEF ProgressAt
  <2>5. ToldAt(r)'
    BY <1>1, <1>7, <1>8, <1>9, <2>1 DEF SoundAt, ToldAt, Verdicts
  <2>6. QED
    BY <2>3, <2>4, <2>5 DEF SoundAt
<1>11. ASSUME ~GoesOn(r, ok), Success(r, ok), Decide(r, "sent")
       PROVE  SoundAt(r)'
  <2>1. Promise!Whole(r)'
    <3>1. CASE r \in Files
      BY <1>1, <1>4, <1>6, <1>11, <3>1 DEF Success, Promise!Whole
    <3>2. CASE r \notin Files
      <4>1. ok /\ k = Parts[r]
        BY <1>1, <1>11, <3>2 DEF Success, GoesOn
      <4>2. \A p \in 1..Parts[r] : new[p] > 0
        BY <1>1, <1>4, <1>5, <3>2, <4>1
      <4>3. QED
        BY <3>2, <4>2 DEF Promise!Whole
    <3>3. QED
      BY <3>1, <3>2
  <2>2. QED
    BY <1>8, <1>11, <2>1, ReturnSound DEF Decide
<1>12. ASSUME Decide(r, "failed")
       PROVE  SoundAt(r)'
  <2>1. <<r, "sent">> \notin results'
    BY <1>9, <1>12 DEF Decide, SendResult, Verdicts
  <2>2. row'[r] = "sent" => Promise!Whole(r)'
    BY <1>7, <1>12 DEF Decide, RowAfter, TypeOK, SoundAt, ToldAt
  <2>3. QED
    BY <1>8, <1>12, <2>1, <2>2, ReturnSound DEF Decide
<1>13. ASSUME stage' = [stage EXCEPT ![r] = "backoff"], MayRetry(r),
              part' = [part EXCEPT ![r] = 0],
              got' = [got EXCEPT ![r] = FALSE],
              UNCHANGED <<attempt, row, results>>
       PROVE  SoundAt(r)'
  <2>1. stage'[r] = "backoff" /\ ~got'[r]
    BY <1>13 DEF TypeOK
  <2>2. CountedAt(r)'
    BY <1>1, <1>3, <1>13, <2>1 DEF CountedAt, MayRetry
  <2>3. ProgressAt(r)'
    BY <2>1 DEF ProgressAt
  <2>4. ToldAt(r)'
    BY <1>7, <1>8, <1>9, <1>13 DEF SoundAt, ToldAt, Verdicts
  <2>5. QED
    BY <2>2, <2>3, <2>4 DEF SoundAt
<1>14. QED
  BY <1>10, <1>11, <1>12, <1>13 DEF SendReturns, AttemptEnds

\* A handler that waited starts its next attempt soundly.
LEMMA RetrySound ==
    ASSUME TypeOK, NEW r \in Replies, SoundAt(r), Retry(r)
    PROVE  SoundAt(r)'
<1> USE OutboundAssumption DEF OutboundAssumption, TypeOK
<1>1. /\ stage[r] = "backoff" /\ stage'[r] = "sending" /\ attempt'[r] = attempt[r] + 1
      /\ part'[r] = 1 /\ got'[r] = got[r] /\ copies' = copies
      /\ call' = call /\ results' = results /\ row' = row
  BY DEF Retry
<1>2. attempt[r] \in 1..(MaxAttempts - 1) /\ \A p \in 1..MaxParts : copies[r][p] <= attempt[r]
  BY <1>1, Zenon DEF SoundAt, CountedAt
<1>3. CountedAt(r)'
  <2>1. \A p \in 1..MaxParts : copies[r][p] \in Nat
    OBVIOUS
  <2>2. \A p \in 1..MaxParts : copies[r][p] < attempt[r] + 1
    BY <1>2, <2>1
  <2>3. 1 \in 1..Parts[r] /\ attempt[r] + 1 \in 1..MaxAttempts
    BY <1>2
  <2>4. QED
    BY <1>1, <1>2, <2>1, <2>2, <2>3 DEF CountedAt
<1>4. ProgressAt(r)'
  BY <1>1 DEF SoundAt, ProgressAt
<1>5. ToldAt(r)'
  BY <1>1 DEF SoundAt, ToldAt, Verdicts, Promise!Whole
<1>6. QED
  BY <1>3, <1>4, <1>5 DEF SoundAt

\* Every step keeps every reply sound: the one it is about by the lemmas above,
\* the others because it leaves them alone.
LEMMA NextSound == IInv /\ [Next]_vars => \A q \in Replies : SoundAt(q)'
<1> SUFFICES ASSUME IInv, [Next]_vars, NEW q \in Replies PROVE SoundAt(q)'
  OBVIOUS
<1>0. TypeOK /\ SoundAt(q)
  BY DEF IInv
<1> USE <1>0
<1>1. ASSUME NEW s \in Senders, Ingest(s) PROVE SoundAt(q)'
  BY <1>1, Frame DEF Ingest, handlerVars
<1>3. ASSUME NEW r \in Replies, Call(r) PROVE SoundAt(q)'
  <2>1. CASE q # r
    BY <1>3, <2>1, Frame DEF Call, handlerVars, TypeOK
  <2>2. CASE q = r
    <3>1. call[q] = "idle" /\ call'[q] = "waiting"
      BY <1>3, <2>2 DEF Call, TypeOK
    <3>2. UNCHANGED <<results, stage, attempt, part, got, row, copies>>
      BY <1>3 DEF Call, handlerVars
    <3>3. CountedAt(q)' /\ ProgressAt(q)'
      BY <3>2 DEF SoundAt, CountedAt, ProgressAt
    <3>4. ToldAt(q)'
      BY <3>1, <3>2 DEF SoundAt, ToldAt, Verdicts, Promise!Whole
    <3>5. QED
      BY <3>3, <3>4 DEF SoundAt
  <2>3. QED
    BY <2>1, <2>2
<1>4. ASSUME NEW r \in Replies, CallFails(r) PROVE SoundAt(q)'
  <2>1. CASE q # r
    BY <1>4, <2>1, Frame DEF CallFails, handlerVars, TypeOK
  <2>2. CASE q = r
    <3>1. call'[q] = "error"
      BY <1>4, <2>2 DEF CallFails, TypeOK
    <3>2. UNCHANGED <<results, stage, attempt, part, got, row, copies>>
      BY <1>4 DEF CallFails, handlerVars
    <3>3. CountedAt(q)' /\ ProgressAt(q)'
      BY <3>2 DEF SoundAt, CountedAt, ProgressAt
    <3>4. ToldAt(q)'
      BY <3>1, <3>2 DEF SoundAt, ToldAt, Verdicts, Promise!Whole
    <3>5. QED
      BY <3>3, <3>4 DEF SoundAt
  <2>3. QED
    BY <2>1, <2>2
<1>5. ASSUME NEW r \in Replies, NEW v \in Verdicts, ReadResult(r, v) PROVE SoundAt(q)'
  <2>1. CASE q # r
    BY <1>5, <2>1, Frame DEF ReadResult, handlerVars, TypeOK
  <2>2. CASE q = r
    <3>1. call'[q] = call[q] \/ call'[q] = "error" \/ (call'[q] = "sent" /\ v = "sent")
      BY <1>5, <2>2 DEF ReadResult, TypeOK
    <3>2. UNCHANGED <<stage, attempt, part, got, row, copies>> /\ results' \subseteq results
      BY <1>5 DEF ReadResult, handlerVars
    <3>3. <<q, v>> \in results
      BY <1>5, <2>2 DEF ReadResult
    <3>4. CountedAt(q)' /\ ProgressAt(q)'
      BY <3>2 DEF SoundAt, CountedAt, ProgressAt
    <3>5. ToldAt(q)'
      BY <3>1, <3>2, <3>3 DEF SoundAt, ToldAt, Verdicts, Promise!Whole
    <3>6. QED
      BY <3>4, <3>5 DEF SoundAt
  <2>3. QED
    BY <2>1, <2>2
<1>6. ASSUME NEW r \in Replies, Accept(r) PROVE SoundAt(q)'
  <2>1. SoundAt(r)
    BY DEF IInv
  <2>2. stage[r] = "none" /\ call[r] # "idle"
    <3>1. 1 \in 1..Len(toDaemon) /\ r = toDaemon[1]
      BY <1>6 DEF Accept, TypeOK
    <3>2. QED
      BY <3>1 DEF IInv, Queue
  <2>3. UNCHANGED <<call, copies>>
    BY <1>6 DEF Accept
  <2>4. CASE Refuse(r)
    <3>1. CASE q # r
      BY <2>3, <2>4, <3>1, Frame DEF Refuse, Return, SendResult, TypeOK
    <3>2. QED
      BY <2>1, <2>2, <2>3, <2>4, <3>1, RefuseSound
  <2>5. CASE Dispatch(r) /\ UNCHANGED results
    <3>1. CASE q # r
      BY <2>3, <2>5, <3>1, Frame DEF Dispatch, TypeOK
    <3>2. QED
      BY <2>1, <2>2, <2>3, <2>5, <3>1, DispatchSound
  <2>6. ASSUME stage' = [stage EXCEPT ![r] = "staging"],
               UNCHANGED <<attempt, part, got, again, row, results>>
        PROVE  SoundAt(q)'
    <3>1. CASE q # r
      BY <2>3, <2>6, <3>1, Frame DEF TypeOK
    <3>2. CASE q = r
      <4>1. stage'[q] = "staging"
        BY <2>6, <3>2 DEF TypeOK
      <4>2. CountedAt(q)' /\ ProgressAt(q)'
        BY <2>2, <2>3, <2>6, <3>2, <4>1 DEF SoundAt, CountedAt, ProgressAt
      <4>3. ToldAt(q)'
        BY <2>2, <2>3, <2>6, <3>2, <4>1 DEF SoundAt, ToldAt, Verdicts, Promise!Whole
      <4>4. QED
        BY <4>2, <4>3 DEF SoundAt
    <3>3. QED
      BY <3>1, <3>2
  <2>7. QED
    BY <1>6, <2>4, <2>5, <2>6 DEF Accept
<1>7. ASSUME NEW r \in Replies, Staged(r) PROVE SoundAt(q)'
  <2>1. SoundAt(r)
    BY DEF IInv
  <2>2. stage[r] = "staging" /\ call[r] # "idle"
    BY <1>7, <2>1 DEF Staged, SoundAt, ToldAt
  <2>3. UNCHANGED <<call, copies>>
    BY <1>7 DEF Staged
  <2>4. CASE Refuse(r)
    <3>1. CASE q # r
      BY <2>3, <2>4, <3>1, Frame DEF Refuse, Return, SendResult, TypeOK
    <3>2. QED
      BY <2>1, <2>2, <2>3, <2>4, <3>1, RefuseSound
  <2>5. CASE Dispatch(r) /\ UNCHANGED results
    <3>1. CASE q # r
      BY <2>3, <2>5, <3>1, Frame DEF Dispatch, TypeOK
    <3>2. QED
      BY <2>1, <2>2, <2>3, <2>5, <3>1, DispatchSound
  <2>6. QED
    BY <1>7, <2>4, <2>5 DEF Staged
<1>8. ASSUME NEW r \in Replies, NEW ok \in BOOLEAN, NEW posted \in BOOLEAN, NEW may \in BOOLEAN,
             SendReturns(r, ok, posted, may)
      PROVE SoundAt(q)'
  <2>1. SoundAt(r)
    BY DEF IInv
  <2>2. CASE q # r
    <3>1. copies'[q] = copies[q] /\ call' = call
      BY <1>8, <2>1, <2>2, SendCopies DEF SendReturns
    <3>2. stage'[q] = stage[q] /\ attempt'[q] = attempt[q] /\ part'[q] = part[q]
      BY <1>8, <2>2 DEF SendReturns, AttemptEnds, Decide, Return, TypeOK
    <3>3. got'[q] = got[q]
      BY <1>8, <2>2 DEF SendReturns, AttemptEnds, Decide, Return, TypeOK
    <3>4. row'[q] = row[q]
      BY <1>8, <2>2 DEF SendReturns, AttemptEnds, Decide, RowAfter, TypeOK
    <3>5. \A v \in Verdicts : <<q, v>> \in results' => <<q, v>> \in results
      BY <1>8, <2>2 DEF SendReturns, AttemptEnds, Decide, SendResult
    <3>6. QED
      BY <3>1, <3>2, <3>3, <3>4, <3>5, Frame
  <2>3. QED
    BY <1>8, <2>1, <2>2, SendSound
<1>9. ASSUME NEW r \in Replies, Retry(r) PROVE SoundAt(q)'
  <2>1. CASE q # r
    BY <1>9, <2>1, Frame DEF Retry, TypeOK
  <2>2. QED
    BY <1>9, <2>1, RetrySound
<1>10. CASE Clear
  <2>1. row'[q] = "none" /\ UNCHANGED <<call, results, handlerVars, copies>>
    BY <1>10 DEF Clear
  <2>2. QED
    BY <2>1, Frame DEF handlerVars
<1>11. CASE LinkBreaks
  BY <1>11, Frame DEF LinkBreaks, handlerVars
<1>12. CASE Crash
  <2>1. /\ stage'[q] = IF stage[q] = "none" THEN "none" ELSE "over"
        /\ got'[q] = FALSE /\ results' = {} /\ UNCHANGED <<call, row, copies>>
    BY <1>12 DEF Crash
  <2>2. CountedAt(q)' /\ ProgressAt(q)'
    BY <2>1 DEF SoundAt, CountedAt, ProgressAt
  <2>3. ToldAt(q)'
    BY <2>1 DEF SoundAt, ToldAt, Verdicts, Promise!Whole
  <2>4. QED
    BY <2>2, <2>3 DEF SoundAt
<1>13. CASE UNCHANGED vars
  BY <1>13, Frame DEF vars, handlerVars
<1>14. QED
  BY <1>1, <1>3, <1>4, <1>5, <1>6, <1>7, <1>8, <1>9, <1>10, <1>11, <1>12, <1>13
  DEF Next, Exchange, Handler

\* Frames stay where nothing touches the queue, the calls that are made stay made
\* and the handlers that have not begun do not begin.
LEMMA QueueFrame ==
    ASSUME Queue, UNCHANGED toDaemon, TypeOK,
           \A r \in Replies : call[r] # "idle" => call'[r] # "idle",
           \A r \in Replies : stage[r] = "none" /\ call[r] # "idle" => stage'[r] = "none"
    PROVE  Queue'
<1>1. \A i \in 1..Len(toDaemon) : toDaemon[i] \in Replies
  BY DEF TypeOK
<1>2. QED
  BY <1>1 DEF Queue

\* Every step keeps the queue as it should be.
LEMMA NextQueue == IInv /\ [Next]_vars => Queue'
<1> SUFFICES ASSUME IInv, [Next]_vars PROVE Queue'
  OBVIOUS
<1>0. TypeOK /\ Queue
  BY DEF IInv
<1>1. ASSUME NEW s \in Senders, Ingest(s) PROVE Queue'
  BY <1>0, <1>1 DEF Ingest, handlerVars, Queue
<1>3. ASSUME NEW r \in Replies, Call(r) PROVE Queue'
  <2>1. \A q \in Replies : call[q] # "idle" => call'[q] # "idle"
    BY <1>0, <1>3 DEF Call, TypeOK
  <2>2. stage' = stage /\ stage[r] = "none" /\ call'[r] = "waiting" /\ call[r] = "idle"
    BY <1>0, <1>3 DEF Call, handlerVars, IInv, SoundAt, ToldAt, CountedAt, TypeOK
  <2>3. CASE toDaemon' = toDaemon
    BY <1>0, <2>1, <2>2, <2>3, QueueFrame
  <2>4. CASE toDaemon' = Append(toDaemon, r)
    <3>1. /\ Len(toDaemon') = Len(toDaemon) + 1
          /\ \A i \in 1..Len(toDaemon) : toDaemon'[i] = toDaemon[i] /\ toDaemon[i] \in Replies
          /\ toDaemon'[Len(toDaemon) + 1] = r
          /\ Len(toDaemon) \in Nat
      BY <1>0, <2>4 DEF TypeOK
    <3>2. \A i \in 1..Len(toDaemon) : toDaemon[i] # r
      BY <1>0, <2>2 DEF Queue
    <3>3. ASSUME NEW i \in 1..Len(toDaemon')
          PROVE  stage'[toDaemon'[i]] = "none" /\ call'[toDaemon'[i]] # "idle"
      <4>1. CASE i = Len(toDaemon) + 1
        BY <2>2, <3>1, <4>1
      <4>2. CASE i \in 1..Len(toDaemon)
        BY <1>0, <2>1, <2>2, <3>1, <4>2 DEF Queue
      <4>3. QED
        BY <3>1, <4>1, <4>2
    <3>4. ASSUME NEW i \in 1..Len(toDaemon'), NEW j \in 1..Len(toDaemon'), toDaemon'[i] = toDaemon'[j]
          PROVE  i = j
      <4>1. CASE i \in 1..Len(toDaemon) /\ j \in 1..Len(toDaemon)
        BY <1>0, <3>1, <3>4, <4>1 DEF Queue
      <4>2. CASE i = Len(toDaemon) + 1 \/ j = Len(toDaemon) + 1
        BY <3>1, <3>2, <3>4, <4>2
      <4>3. QED
        BY <3>1, <4>1, <4>2
    <3>5. QED
      BY <3>3, <3>4 DEF Queue
  <2>5. QED
    BY <1>3, <2>3, <2>4 DEF Call
<1>4. ASSUME NEW r \in Replies, CallFails(r) PROVE Queue'
  BY <1>0, <1>4, QueueFrame DEF CallFails, handlerVars, TypeOK
<1>5. ASSUME NEW r \in Replies, NEW v \in Verdicts, ReadResult(r, v) PROVE Queue'
  BY <1>0, <1>5, QueueFrame DEF ReadResult, handlerVars, TypeOK
<1>6. ASSUME NEW r \in Replies, Accept(r) PROVE Queue'
  <2>1. /\ Len(toDaemon') = Len(toDaemon) - 1 /\ Len(toDaemon) \in Nat \ {0}
        /\ \A i \in 1..Len(toDaemon') : toDaemon'[i] = toDaemon[i + 1]
        /\ r = toDaemon[1]
    BY <1>0, <1>6 DEF Accept, TypeOK
  <2>2. \A i \in 1..Len(toDaemon) : toDaemon[i] \in Replies
    BY <1>0 DEF TypeOK
  <2>3. \A q \in Replies : q # r => stage'[q] = stage[q]
    BY <1>0, <1>6 DEF Accept, Refuse, Return, Dispatch, TypeOK
  <2>4. call' = call
    BY <1>6 DEF Accept
  <2>5. \A i \in 2..Len(toDaemon) : toDaemon[i] # r
    BY <1>0, <2>1 DEF Queue
  <2>6. ASSUME NEW i \in 1..Len(toDaemon')
        PROVE  stage'[toDaemon'[i]] = "none" /\ call'[toDaemon'[i]] # "idle"
    <3>1. i + 1 \in 2..Len(toDaemon) /\ i + 1 \in 1..Len(toDaemon)
      BY <2>1
    <3>2. QED
      BY <1>0, <2>1, <2>2, <2>3, <2>4, <2>5, <3>1 DEF Queue
  <2>7. ASSUME NEW i \in 1..Len(toDaemon'), NEW j \in 1..Len(toDaemon'), toDaemon'[i] = toDaemon'[j]
        PROVE  i = j
    <3>1. i + 1 \in 1..Len(toDaemon) /\ j + 1 \in 1..Len(toDaemon)
      BY <2>1
    <3>2. i + 1 = j + 1
      BY <1>0, <2>1, <2>7, <3>1 DEF Queue
    <3>3. QED
      BY <2>1, <3>2
  <2>8. QED
    BY <2>6, <2>7 DEF Queue
<1>7. ASSUME NEW r \in Replies, Staged(r) PROVE Queue'
  <2>1. \A q \in Replies : stage[q] = "none" => stage'[q] = "none"
    BY <1>0, <1>7 DEF Staged, Refuse, Return, Dispatch, TypeOK
  <2>2. QED
    BY <1>0, <1>7, <2>1, QueueFrame DEF Staged
<1>8. ASSUME NEW r \in Replies, NEW ok \in BOOLEAN, NEW posted \in BOOLEAN, NEW may \in BOOLEAN,
             SendReturns(r, ok, posted, may)
      PROVE Queue'
  <2>1. \A q \in Replies : stage[q] = "none" => stage'[q] = "none"
    BY <1>0, <1>8 DEF SendReturns, AttemptEnds, Decide, Return, TypeOK
  <2>2. QED
    BY <1>0, <1>8, <2>1, QueueFrame DEF SendReturns
<1>9. ASSUME NEW r \in Replies, Retry(r) PROVE Queue'
  BY <1>0, <1>9, QueueFrame DEF Retry, TypeOK
<1>10. CASE Clear
  BY <1>0, <1>10 DEF Clear, handlerVars, Queue
<1>11. CASE LinkBreaks
  BY <1>11 DEF LinkBreaks, Queue
<1>12. CASE Crash
  BY <1>12 DEF Crash, Queue
<1>13. CASE UNCHANGED vars
  BY <1>0, <1>13 DEF vars, handlerVars, Queue
<1>14. QED
  BY <1>1, <1>3, <1>4, <1>5, <1>6, <1>7, <1>8, <1>9, <1>10, <1>11, <1>12, <1>13
  DEF Next, Exchange, Handler

-----------------------------------------------------------------------------
(* Theorems                                                                *)

\* Every step keeps the invariant, and so every reachable state has it.
LEMMA NextInv == IInv /\ [Next]_vars => IInv'
<1> SUFFICES ASSUME IInv, [Next]_vars PROVE IInv'
  OBVIOUS
<1>1. TypeOK'
  BY NextType DEF IInv, SoundAt, Counted
<1>2. QED
  BY <1>1, NextSound, NextQueue DEF IInv

\* The invariant holds in every reachable state.
THEOREM Inductive == Safety => []IInv
<1>1. Init => IInv
  BY InitInv
<1>2. IInv /\ [Next]_vars => IInv'
  BY NextInv
<1>3. QED
  BY <1>1, <1>2, PTL DEF Safety

\* The types hold, attempts never exceed outboundMaxAttempts and no part of a
\* reply is posted more often.
THEOREM TypeCorrect == Spec => []TypeOK
<1>1. IInv => TypeOK
  BY DEF IInv
<1>2. QED
  BY <1>1, Inductive, PTL DEF Spec

\* A row says "sent" only of a reply that has been posted: for any number of
\* replies, retries, clears and crashes.
THEOREM SentIsPosted == Spec => []SentRowWasPosted
<1>1. IInv => SentRowWasPosted
  BY DEF IInv, SoundAt, ToldAt, SentRowWasPosted
<1>2. QED
  BY <1>1, Inductive, PTL DEF Spec

\* Whom memory and rows name has a row of the newest millisecond.
THEOREM RecipientAgrees == Spec => []RecipientIsNewest
<1>1. Init => RecipientIsNewest
  BY DEF Init, RecipientIsNewest
<1>2. TypeOK /\ RecipientIsNewest /\ [Next]_vars => RecipientIsNewest'
  <2> SUFFICES ASSUME TypeOK, RecipientIsNewest, [Next]_vars PROVE RecipientIsNewest'
    OBVIOUS
  <2>1. ASSUME NEW s \in Senders, Ingest(s) PROVE RecipientIsNewest'
    <3>1. s # None
      BY OutboundAssumption DEF OutboundAssumption
    <3>2. last' = s /\ s \in newest' /\ top' \in newest' /\ top' # None
      BY <2>1, <3>1 DEF Ingest, NewRow, RecipientIsNewest
    <3>3. QED
      BY <3>2 DEF RecipientIsNewest
  <2>2. CASE Clear
    BY <2>2 DEF Clear, LastAfterClear, RecipientIsNewest
  <2>3. CASE Crash
    BY <2>3 DEF Crash, RecipientIsNewest
  <2>4. CASE UNCHANGED inboundVars
    BY <2>4 DEF inboundVars, RecipientIsNewest
  <2>5. QED
    BY <2>1, <2>2, <2>3, <2>4
    DEF Next, Exchange, Handler, Call, CallFails, ReadResult, Accept, Staged, SendReturns,
        Retry, LinkBreaks, vars
<1>3. QED
  BY <1>1, <1>2, TypeCorrect, PTL DEF Spec, Safety

-----------------------------------------------------------------------------
(* Refinement                                                              *)

\* A step that changes neither what claude knows nor the copies is a stutter of
\* the promise.
LEMMA Unseen ==
    ASSUME UNCHANGED <<call, copies>>
    PROVE  [Promise!Next]_(Promise!vars)
  BY DEF Promise!vars

\* A request to Telegram that is posted is a Post of the promise.
LEMMA SendPosts ==
    ASSUME IInv, NEW r \in Replies, NEW ok \in BOOLEAN, NEW posted \in BOOLEAN, NEW may \in BOOLEAN,
           SendReturns(r, ok, posted, may)
    PROVE  [Promise!Next]_(Promise!vars)
<1>1. CASE ~posted
  BY <1>1, Unseen DEF SendReturns
<1>2. CASE posted
  <2>1. TypeOK /\ SoundAt(r)
    BY DEF IInv
  <2>2. /\ stage[r] = "sending" /\ part[r] \in 1..Parts[r] /\ part[r] \in 1..MaxParts
        /\ attempt[r] \in 1..MaxAttempts
        /\ \A p \in 1..MaxParts : copies[r][p] \in Nat
    BY <2>1, SendCopies
  <2>3. call[r] \in {"waiting", "error"}
    BY <2>1, <2>2 DEF SoundAt, ToldAt, TypeOK
  <2>4. copies[r][part[r]] < MaxAttempts
    <3>1. part[r] >= part[r] => copies[r][part[r]] < attempt[r]
      BY <2>1, <2>2, Zenon DEF SoundAt, CountedAt
    <3>2. QED
      BY <2>2, <3>1, OutboundAssumption DEF OutboundAssumption
  <2>5. r \notin Files => \A q \in 1..(part[r] - 1) : copies[r][q] > 0
    BY <2>1, <2>2, Zenon DEF SoundAt, ProgressAt
  <2>6. copies' = [copies EXCEPT ![r][part[r]] = @ + 1] /\ UNCHANGED call
    BY <1>2 DEF SendReturns
  <2>7. Promise!Post(r, part[r])
    BY <2>3, <2>4, <2>5, <2>6 DEF Promise!Post
  <2>8. QED
    BY <2>2, <2>7 DEF Promise!Next
<1>3. QED
  BY <1>1, <1>2

\* Every step is one of the promise or a stutter.
LEMMA NextKeepsPromise == IInv /\ [Next]_vars => [Promise!Next]_(Promise!vars)
<1> SUFFICES ASSUME IInv, [Next]_vars PROVE [Promise!Next]_(Promise!vars)
  OBVIOUS
<1>1. ASSUME NEW r \in Replies, Call(r) PROVE [Promise!Next]_(Promise!vars)
  BY <1>1 DEF Call, Promise!Next, Promise!MakeCall
<1>2. ASSUME NEW r \in Replies, CallFails(r) PROVE [Promise!Next]_(Promise!vars)
  BY <1>2 DEF CallFails, Promise!Next, Promise!TellError
<1>3. ASSUME NEW r \in Replies, NEW v \in Verdicts, ReadResult(r, v)
      PROVE  [Promise!Next]_(Promise!vars)
  <2>1. copies' = copies /\ <<r, v>> \in results
    BY <1>3 DEF ReadResult
  <2>2. CASE call[r] # "waiting"
    <3>1. call' = call
      BY <1>3, <2>2 DEF ReadResult, IInv, TypeOK
    <3>2. QED
      BY <2>1, <3>1, Unseen
  <2>3. CASE call[r] = "waiting" /\ v = "sent"
    <3>1. call' = [call EXCEPT ![r] = "sent"]
      BY <1>3, <2>3 DEF ReadResult
    <3>2. Promise!Whole(r)
      BY <2>1, <2>3 DEF IInv, SoundAt, ToldAt
    <3>3. QED
      BY <2>1, <2>3, <3>1, <3>2 DEF Promise!Next, Promise!TellSent
  <2>4. CASE call[r] = "waiting" /\ v # "sent"
    <3>1. call' = [call EXCEPT ![r] = "error"]
      BY <1>3, <2>4 DEF ReadResult
    <3>2. QED
      BY <2>1, <2>4, <3>1 DEF Promise!Next, Promise!TellError
  <2>5. QED
    BY <2>2, <2>3, <2>4
<1>4. ASSUME NEW r \in Replies, NEW ok \in BOOLEAN, NEW posted \in BOOLEAN, NEW may \in BOOLEAN,
             SendReturns(r, ok, posted, may)
      PROVE  [Promise!Next]_(Promise!vars)
  BY <1>4, SendPosts
<1>5. CASE UNCHANGED <<call, copies>>
  BY <1>5, Unseen
<1>6. QED
  BY <1>1, <1>2, <1>3, <1>4, <1>5
  DEF Next, Exchange, Handler, Ingest, Accept, Staged, Retry, Clear, LinkBreaks, Crash, vars

\* The handlers, with their retries, lost frames, clears and crashes, implement
\* what the reply tool promises.
THEOREM Refinement == Spec => KeepsPromise
<1>1. Init => Promise!Init
  BY DEF Init, Promise!Init
<1>2. IInv /\ [Next]_vars => [Promise!Next]_(Promise!vars)
  BY NextKeepsPromise
<1>3. QED
  BY <1>1, <1>2, Inductive, PTL DEF Spec, Safety, KeepsPromise, Promise!Spec
=============================================================================
