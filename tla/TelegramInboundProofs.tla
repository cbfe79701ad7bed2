------------------------ MODULE TelegramInboundProofs ------------------------
(***************************************************************************)
(* Theorems about TelegramInbound, for any number of bots, people, updates, *)
(* limits and restarts: that an update is stored once and before the       *)
(* offset passes it, where bindings come from, and that limits hold.       *)
(***************************************************************************)
EXTENDS TelegramInbound, FiniteSetTheorems, TLAPS

\* Where each loop is: it works on an update that Telegram has, knows how it
\* dealt with it before it writes the offset, and has not touched later ones.
Progress ==
    \A b \in Bots:
      /\ Len(queue[b]) <= MaxUpdates
      /\ offset[b] <= Len(queue[b]) /\ upTo[b] <= Len(queue[b])
      /\ stage[b] \in {"download", "handled"} => offset[b] < Len(queue[b])
      /\ stage[b] = "handled" => fate[b][offset[b] + 1] # "new"
      /\ stage[b] # "off" => up

\* A message is stored once at most, under a key that is in inbound_messages;
\* what the loop has passed it has dealt with; what has not come it has not.
Stored(b, i) ==
    /\ queue[b][i].kind # "command" =>
          got[b][i] <= 1 /\ (got[b][i] > 0 => KeyOf(b, i, queue[b][i]) \in keys)
    /\ i <= offset[b] => fate[b][i] # "new"
    /\ fate[b][i] = "kept" => got[b][i] > 0
Storing ==
    \A b \in Bots: \A i \in Ids:
      IF i <= Len(queue[b]) THEN Stored(b, i) ELSE got[b][i] = 0 /\ fate[b][i] = "new"

\* The row of a redeemed code is gone.
RedeemedIsGone == \A r \in redeemed: ~codes[r.code].live

\* A stamp is of the past and of an update that the loop is done with, so the next one
\* is another; the limiter still has those whose window is open, and no others than
\* what passed it.
Stamped(p, b) ==
    LET all == admitted[<<p, b>>]
        kept == msgWindows[<<p, b>>]
    IN /\ IsFiniteSet(all)
       /\ \A s \in all: /\ s.at <= now
                        /\ s.no <= offset[b] \/ (s.no = offset[b] + 1 /\ stage[b] # "poll")
       /\ Recent(all, MsgWindow) \subseteq kept /\ kept \subseteq all
Stamps == \A p \in Senders, b \in Bots: Stamped(p, b)

IInv ==
    /\ TypeOK
    /\ Progress
    /\ Storing
    /\ RedeemedIsGone
    /\ BindingsAreProven
    /\ ListIsObeyed
    /\ Stamps
    /\ RateHeld

-----------------------------------------------------------------------------
(* One update handled                                                      *)

\* The position of the update that the loop of b works on.
At(b) == offset[b] + 1

\* What inbound_messages gets of it: nothing, or a row under a key of its own.
StoresNothing == UNCHANGED <<keys, got>>
StoresRow(b) ==
    /\ KeyOf(b, At(b), Current(b)) \notin keys
    /\ keys' = keys \cup {KeyOf(b, At(b), Current(b))}
    /\ got' = [got EXCEPT ![b][At(b)] = @ + 1]

\* The loop waits for a download, or has dealt with the update.
Waits(b) ==
    /\ stage' = [stage EXCEPT ![b] = "download"]
    /\ fate' = fate
    /\ StoresNothing
Deals(b) ==
    /\ stage' = [stage EXCEPT ![b] = "handled"]
    /\ \E how \in Fates \ {"new"}:
         /\ fate' = [fate EXCEPT ![b][At(b)] = how]
         /\ \/ how = "kept" /\ StoresRow(b)
            \/ how # "kept" /\ StoresNothing

\* Who is bound by it, and who has decided a request.
Binds(b) ==
    \/ bindings' = bindings
    \/ /\ loaded.mode = "allowlist"
       /\ \E p \in Senders: p \in loaded.allow /\ bindings' = bindings \cup {<<p, b>>}
Decides(b) ==
    \/ verdicts' = verdicts
    \/ \E p \in Senders: /\ verdicts' = verdicts \cup {<<p, b>>}
                         /\ loaded.mode = "allowlist" => p \in loaded.allow
AddsCode ==
    \/ codes' = codes
    \/ \E p \in Senders: codes' = Append(codes, [of |-> p, at |-> now, live |-> TRUE])


\* What the limiters count: a message of the update, or a code asked for.
CountsMessage(b) ==
    \/ UNCHANGED <<msgWindows, admitted>>
    \/ \E p \in Senders:
         /\ stage[b] = "poll" /\ stage' = [stage EXCEPT ![b] = "handled"]
         /\ Allowed(msgWindows[<<p, b>>], MsgLimit, MsgWindow)
         /\ msgWindows' = [msgWindows EXCEPT ![<<p, b>>] = Counted(@, MsgWindow, At(b))]
         /\ admitted' = [admitted EXCEPT ![<<p, b>>] = @ \cup {[no |-> At(b), at |-> now]}]
CountsCode ==
    \/ pairWindows' = pairWindows
    \/ \E p \in Senders, n \in Nat:
         pairWindows' = [pairWindows EXCEPT ![p] = Counted(@, PairWindow, n)]

Handling(b) ==
    /\ stage[b] \in {"poll", "download"}
    /\ At(b) \in DOMAIN queue[b] /\ At(b) \in Ids
    /\ Waits(b) \/ Deals(b)
    /\ Binds(b) /\ Decides(b) /\ AddsCode
    /\ CountsMessage(b) /\ CountsCode
    /\ UNCHANGED <<up, queue, offset, upTo, redeemed, config, loaded, now, stops, edits>>

\* An end other than a stored row deals with the update.
LEMMA HandledDeals ==
    ASSUME NEW b \in Bots, NEW how \in Fates \ {"new", "kept"},
           Handled(b, how), UNCHANGED <<keys, got>>
    PROVE  Deals(b) /\ UNCHANGED <<up, offset, upTo>>
<1>1. how \in Fates \ {"new"} /\ how # "kept"
  OBVIOUS
<1>2. fate' = [fate EXCEPT ![b][At(b)] = how]
  BY DEF Handled, At
<1> QED BY <1>1, <1>2 DEF Deals, Handled, StoresNothing

\* ingestInbound stores a row or does not, and the loop has dealt with it.
LEMMA IngestDeals ==
    ASSUME NEW b \in Bots, Ingest(b, Current(b))
    PROVE  Deals(b) /\ UNCHANGED <<up, offset, upTo>>
<1>1. {"duplicate", "failed"} \subseteq Fates \ {"new", "kept"}
  BY DEF Fates
<1>2. CASE StoresRow(b) /\ Handled(b, "kept")
  <2>1. "kept" \in Fates \ {"new"}
    BY DEF Fates
  <2>2. fate' = [fate EXCEPT ![b][At(b)] = "kept"]
    BY <1>2 DEF Handled, At
  <2> QED BY <1>2, <2>1, <2>2 DEF Deals, Handled
<1>3. CASE \E how \in {"duplicate", "failed"}: Handled(b, how) /\ UNCHANGED <<keys, got>>
  BY <1>1, <1>3, HandledDeals
<1> QED BY <1>2, <1>3 DEF Ingest, StoresRow, At

\* Whatever becomes of an update, handling it is this.
LEMMA HandlingOne ==
    ASSUME TypeOK, Progress, NEW b \in Bots, HandleUpdate(b) \/ Downloaded(b)
    PROVE  Handling(b)
<1>1. /\ At(b) \in DOMAIN queue[b] /\ At(b) \in Ids
      /\ stage[b] \in {"poll", "download"}
  <2>1. /\ Len(queue[b]) \in Nat /\ offset[b] \in Nat /\ upTo[b] \in Nat
        /\ DOMAIN queue[b] = 1..Len(queue[b])
    BY DEF TypeOK
  <2>2. offset[b] < Len(queue[b]) /\ Len(queue[b]) <= MaxUpdates
    BY <2>1 DEF HandleUpdate, Downloaded, Progress
  <2>3. At(b) \in 1..Len(queue[b]) /\ At(b) \in 1..MaxUpdates
    BY <2>1, <2>2, TelegramAssumption DEF At
  <2> QED BY <2>1, <2>3 DEF Ids, HandleUpdate, Downloaded
<1>2. Current(b) \in Update
  BY <1>1 DEF Current, At, TypeOK
<1> DEFINE u == Current(b)
<1>3. u.from \in Senders
  BY <1>2 DEF Update
<1>6. {"answered", "refused", "limited"} \subseteq Fates \ {"new", "kept"}
  BY DEF Fates
<1>4. CASE Downloaded(b)
  <2>1. Deals(b) /\ UNCHANGED <<up, offset, upTo>>
    <3>1. CASE Ingest(b, Current(b))
      BY <3>1, IngestDeals
    <3>2. CASE Handled(b, "answered") /\ UNCHANGED <<keys, got>>
      BY <3>2, <1>6, HandledDeals
    <3> QED BY <1>4, <3>1, <3>2 DEF Downloaded
  <2> QED BY <1>1, <1>4, <2>1
          DEF Downloaded, Handling, Binds, Decides, AddsCode, CountsMessage, CountsCode,
              accessVars, limitVars, boundVars
<1>5. CASE HandleUpdate(b)
  <2> SUFFICES ASSUME UNCHANGED <<queue, config, loaded, now, boundVars>>
               PROVE  /\ Waits(b) \/ Deals(b)
                      /\ Binds(b) /\ Decides(b) /\ AddsCode
                      /\ CountsMessage(b) /\ CountsCode
                      /\ UNCHANGED <<up, offset, upTo, redeemed>>
    BY <1>1, <1>5 DEF HandleUpdate, Handling, boundVars
  <2> USE DEF Binds, Decides, AddsCode, CountsCode, accessVars, limitVars
  <2>1. CASE TurnedAway(b, u.from)
    <3>1. Deals(b) /\ UNCHANGED <<up, offset, upTo>>
      BY <2>1, <1>6, HandledDeals DEF TurnedAway
    <3>2. Len(codes) + 1 \in Nat
      BY DEF TypeOK
    <3> QED BY <1>3, <2>1, <3>1, <3>2 DEF TurnedAway, CountsMessage
  <2>2. ASSUME Admitted(b, u.from), bindings' = BindingsAfterGate(b, u.from)
        PROVE  Binds(b)
    BY <1>3, <2>2 DEF Admitted, BindingsAfterGate
  <2>3. CASE Message(b, u)
    <3>1. Deals(b) /\ UNCHANGED <<up, offset, upTo>>
      <4>1. CASE Ingest(b, u)
        BY <4>1, IngestDeals
      <4>2. CASE Handled(b, "limited") /\ UNCHANGED <<keys, got>>
        BY <4>2, <1>6, HandledDeals
      <4> QED BY <2>3, <4>1, <4>2 DEF Message
    <3>2. CountsMessage(b)
      <4>1. CASE Allowed(msgWindows[<<u.from, b>>], MsgLimit, MsgWindow)
        <5>1. stage' = [stage EXCEPT ![b] = "handled"]
          BY <2>3, <4>1 DEF Message, Ingest, Handled
        <5> QED BY <1>3, <1>5, <2>3, <4>1, <5>1 DEF Message, HandleUpdate, CountsMessage, At
      <4>2. CASE ~Allowed(msgWindows[<<u.from, b>>], MsgLimit, MsgWindow)
        BY <2>3, <4>2 DEF Message, CountsMessage
      <4> QED BY <4>1, <4>2
    <3> QED BY <2>2, <2>3, <3>1, <3>2 DEF Message
  <2>4. CASE Download(b, u)
    BY <2>2, <2>4 DEF Download, Waits, StoresNothing, CountsMessage
  <2>5. CASE Document(b, u) /\ ~Download(b, u)
    <3>1. Deals(b) /\ UNCHANGED <<up, offset, upTo>>
      BY <2>5, <1>6, HandledDeals DEF Document
    <3> QED BY <2>2, <2>5, <3>1 DEF Document, CountsMessage
  <2>6. CASE Callback(b, u) \/ Other(b, u)
    <3>1. Deals(b) /\ UNCHANGED <<up, offset, upTo>>
      BY <2>6, <1>6, HandledDeals DEF Callback, Other
    <3>2. Decides(b)
      BY <1>3, <2>6 DEF Callback, Other, MayDecide
    <3> QED BY <2>6, <3>1, <3>2 DEF Callback, Other, CountsMessage
  <2> QED BY <1>5, <2>1, <2>3, <2>4, <2>5, <2>6 DEF HandleUpdate, Photo, Document
<1> QED BY <1>4, <1>5

-----------------------------------------------------------------------------
(* Type correctness                                                        *)

\* The initial state is well typed.
LEMMA InitType == Init => TypeOK
<1> SUFFICES ASSUME Init PROVE TypeOK
  OBVIOUS
<1> USE DEF Init
<1>1. /\ queue \in [Bots -> Seq(Update)] /\ codes \in Seq(Code)
      /\ offset \in [Bots -> 0..MaxUpdates] /\ upTo \in [Bots -> 0..MaxUpdates]
      /\ now \in 0..MaxTime /\ stops \in 0..MaxStops
  BY TelegramAssumption
<1>2. /\ stage \in [Bots -> {"off", "poll", "download", "handled"}]
      /\ got \in [Bots -> [Ids -> Nat]] /\ fate \in [Bots -> [Ids -> Fates]]
  BY DEF Fates
<1> QED BY <1>1, <1>2 DEF TypeOK

\* A longer list of codes is one, and so is one with a code marked.
LEMMA CodesType ==
    ASSUME TypeOK, AddsCode \/ \E c \in DOMAIN codes: codes' = CodesAfter(c)
    PROVE  /\ codes' \in Seq(Code)
           /\ DOMAIN codes \subseteq DOMAIN codes'
           /\ \A c \in DOMAIN codes: /\ codes'[c].of = codes[c].of
                                     /\ codes'[c].at = codes[c].at
                                     /\ codes'[c].live => codes[c].live
<1>1. now \in Nat /\ codes \in Seq(Code)
  BY TelegramAssumption DEF TypeOK
<1>2. CASE codes' = codes
  BY <1>1, <1>2
<1>3. ASSUME NEW p \in Senders,
             codes' = Append(codes, [of |-> p, at |-> now, live |-> TRUE])
      PROVE  /\ codes' \in Seq(Code)
             /\ DOMAIN codes \subseteq DOMAIN codes'
             /\ \A c \in DOMAIN codes: codes'[c] = codes[c]
  <2>1. [of |-> p, at |-> now, live |-> TRUE] \in Code
    BY <1>1 DEF Code
  <2> QED BY <1>1, <1>3, <2>1
<1>4. ASSUME NEW c \in DOMAIN codes, codes' = CodesAfter(c)
      PROVE  /\ codes' \in Seq(Code)
             /\ DOMAIN codes \subseteq DOMAIN codes'
             /\ \A d \in DOMAIN codes: /\ codes'[d].of = codes[d].of
                                       /\ codes'[d].at = codes[d].at
                                       /\ codes'[d].live => codes[d].live
                                       /\ codes'[d].live => codes[d].live /\ d # c
  <2>1. codes[c] \in Code
    BY <1>1
  <2>2. [codes[c] EXCEPT !.live = FALSE] \in Code
    BY <2>1 DEF Code
  <2>3. codes' = [codes EXCEPT ![c] = [codes[c] EXCEPT !.live = FALSE]]
    BY <1>4 DEF CodesAfter
  <2>4. codes' \in Seq(Code) /\ DOMAIN codes' = DOMAIN codes
    BY <1>1, <2>2, <2>3
  <2>5. \A d \in DOMAIN codes:
          codes'[d] = IF d = c THEN [codes[c] EXCEPT !.live = FALSE] ELSE codes[d]
    BY <2>3
  <2>6. /\ [codes[c] EXCEPT !.live = FALSE].of = codes[c].of
        /\ [codes[c] EXCEPT !.live = FALSE].at = codes[c].at
        /\ ~[codes[c] EXCEPT !.live = FALSE].live
    BY <2>1 DEF Code
  <2> QED BY <2>4, <2>5, <2>6
<1> QED BY <1>2, <1>3, <1>4 DEF AddsCode

\* Stamps are added with a number, and at a time the clock has shown.
LEMMA StampsType ==
    ASSUME TypeOK, NEW b \in Bots, At(b) \in Nat, CountsMessage(b), CountsCode
    PROVE  /\ msgWindows' \in [Senders \X Bots -> SUBSET Stamp]
           /\ admitted' \in [Senders \X Bots -> SUBSET Stamp]
           /\ pairWindows' \in [Senders -> SUBSET Stamp]
<1>1. \A n \in Nat: [no |-> n, at |-> now] \in Stamp
  BY DEF TypeOK, Stamp
<1>2. ASSUME NEW window \in SUBSET Stamp, NEW n \in Nat, NEW size
      PROVE  Counted(window, size, n) \in SUBSET Stamp
  BY <1>1 DEF Counted, Recent
<1>3. ASSUME NEW D, NEW windows \in [D -> SUBSET Stamp], NEW d \in D, NEW n \in Nat, NEW size
      PROVE  [windows EXCEPT ![d] = Counted(@, size, n)] \in [D -> SUBSET Stamp]
  <2>1. Counted(windows[d], size, n) \in SUBSET Stamp
    BY <1>2
  <2> QED BY <2>1
<1>4. ASSUME NEW w \in Senders \X Bots
      PROVE  [admitted EXCEPT ![w] = @ \cup {[no |-> At(b), at |-> now]}]
               \in [Senders \X Bots -> SUBSET Stamp]
  <2>1. admitted[w] \cup {[no |-> At(b), at |-> now]} \in SUBSET Stamp
    BY <1>1 DEF TypeOK
  <2> QED BY <2>1 DEF TypeOK
<1>5. \A p \in Senders: <<p, b>> \in Senders \X Bots
  OBVIOUS
<1>6. pairWindows' \in [Senders -> SUBSET Stamp]
  <2>1. ASSUME NEW p \in Senders, NEW n \in Nat,
               pairWindows' = [pairWindows EXCEPT ![p] = Counted(@, PairWindow, n)]
        PROVE  pairWindows' \in [Senders -> SUBSET Stamp]
    <3>1. pairWindows \in [Senders -> SUBSET Stamp]
      BY DEF TypeOK
    <3> QED BY <1>3, <2>1, <3>1
  <2> QED BY <2>1 DEF CountsCode, TypeOK
<1>7. /\ msgWindows' \in [Senders \X Bots -> SUBSET Stamp]
      /\ admitted' \in [Senders \X Bots -> SUBSET Stamp]
  <2>1. CASE UNCHANGED <<msgWindows, admitted>>
    BY <2>1 DEF TypeOK
  <2>2. ASSUME NEW p \in Senders,
               msgWindows' = [msgWindows EXCEPT ![<<p, b>>] = Counted(@, MsgWindow, At(b))],
               admitted' = [admitted EXCEPT ![<<p, b>>] = @ \cup {[no |-> At(b), at |-> now]}]
        PROVE  /\ msgWindows' \in [Senders \X Bots -> SUBSET Stamp]
               /\ admitted' \in [Senders \X Bots -> SUBSET Stamp]
    <3>1. <<p, b>> \in Senders \X Bots /\ msgWindows \in [Senders \X Bots -> SUBSET Stamp]
      BY DEF TypeOK
    <3>2. msgWindows' \in [Senders \X Bots -> SUBSET Stamp]
      BY <1>3, <2>2, <3>1
    <3>3. admitted' \in [Senders \X Bots -> SUBSET Stamp]
      BY <1>4, <2>2, <3>1
    <3> QED BY <3>2, <3>3
  <2> QED BY <2>1, <2>2 DEF CountsMessage
<1> QED BY <1>6, <1>7

\* Every step keeps the types.
LEMMA NextType == TypeOK /\ Progress /\ [Next]_vars => TypeOK'
<1> SUFFICES ASSUME TypeOK, Progress, [Next]_vars PROVE TypeOK'
  OBVIOUS
<1> USE DEF TypeOK
<1>1. CASE UNCHANGED vars
  BY <1>1 DEF vars, loopVars, accessVars, limitVars, boundVars
<1>2. ASSUME NEW b \in Bots, Handling(b) PROVE TypeOK'
  <2>1. codes' \in Seq(Code) /\ \A r \in redeemed: r.code \in DOMAIN codes'
    BY <1>2, CodesType DEF Handling
  <2>2. bindings' \subseteq Senders \X Bots /\ verdicts' \subseteq Senders \X Bots
    BY <1>2 DEF Handling, Binds, Decides
  <2>3. /\ stage' \in [Bots -> {"off", "poll", "download", "handled"}]
        /\ got' \in [Bots -> [Ids -> Nat]] /\ fate' \in [Bots -> [Ids -> Fates]]
    <3>1. At(b) \in Ids /\ got[b][At(b)] \in Nat
      BY <1>2 DEF Handling
    <3>2. CASE Waits(b)
      BY <3>2 DEF Waits, StoresNothing
    <3>3. ASSUME NEW how \in Fates, fate' = [fate EXCEPT ![b][At(b)] = how]
          PROVE  fate' \in [Bots -> [Ids -> Fates]]
      BY <3>1, <3>3
    <3>4. ASSUME StoresRow(b) \/ StoresNothing PROVE got' \in [Bots -> [Ids -> Nat]]
      <4>1. got[b][At(b)] + 1 \in Nat
        BY <3>1
      <4>2. [got[b] EXCEPT ![At(b)] = got[b][At(b)] + 1] \in [Ids -> Nat]
        BY <4>1
      <4>3. CASE StoresRow(b)
        BY <4>2, <4>3 DEF StoresRow
      <4>4. CASE StoresNothing
        BY <4>4 DEF StoresNothing
      <4> QED BY <3>4, <4>3, <4>4
    <3>5. CASE Deals(b)
      <4>1. stage' \in [Bots -> {"off", "poll", "download", "handled"}]
        BY <3>5 DEF Deals
      <4>2. fate' \in [Bots -> [Ids -> Fates]]
        BY <3>3, <3>5 DEF Deals
      <4>3. StoresRow(b) \/ StoresNothing
        BY <3>5 DEF Deals
      <4> QED BY <3>4, <4>1, <4>2, <4>3
    <3> QED BY <1>2, <3>2, <3>5 DEF Handling
  <2>4. /\ msgWindows' \in [Senders \X Bots -> SUBSET Stamp]
        /\ admitted' \in [Senders \X Bots -> SUBSET Stamp]
        /\ pairWindows' \in [Senders -> SUBSET Stamp]
    <3>1. At(b) \in Nat
      BY <1>2 DEF Handling, At
    <3> QED BY <1>2, <3>1, StampsType DEF Handling
  <2> QED BY <1>2, <2>1, <2>2, <2>3, <2>4 DEF Handling
<1>3. ASSUME NEW b \in Bots, Poll(b) PROVE TypeOK'
  <2>1. Len(queue[b]) \in 0..MaxUpdates
    BY TelegramAssumption DEF Progress
  <2> QED BY <1>3, <2>1 DEF Poll, accessVars, limitVars, boundVars
<1>4. ASSUME NEW b \in Bots, WriteOffset(b) PROVE TypeOK'
  <2>1. NextOffset(b) \in 0..MaxUpdates
    BY <1>4, TelegramAssumption DEF WriteOffset, Progress, NextOffset
  <2> QED BY <1>4, <2>1 DEF WriteOffset, accessVars, limitVars, boundVars
<1>5. ASSUME NEW b \in Bots, NEW c \in DOMAIN codes, Redeem(b, c) PROVE TypeOK'
  <2>1. codes' \in Seq(Code) /\ DOMAIN codes \subseteq DOMAIN codes'
    BY <1>5, CodesType DEF Redeem
  <2>2. [code |-> c, by |-> b, at |-> now, run |-> stops] \in Redemption
    BY TelegramAssumption DEF Redemption
  <2>3. redeemed' \subseteq Redemption /\ \A r \in redeemed': r.code \in DOMAIN codes'
    BY <1>5, <2>1, <2>2 DEF Redeem
  <2>4. codes[c].of \in Senders
    <3>1. codes[c] \in Code
      OBVIOUS
    <3> QED BY <3>1 DEF Code
  <2> QED BY <1>5, <2>1, <2>3, <2>4 DEF Redeem, loopVars, limitVars, boundVars
<1>6. ASSUME NEW b \in Bots, NEW u \in Updates(b), Send(b, u) PROVE TypeOK'
  <2>1. u \in Update
    <3>1. Len(queue[b]) + 1 \in Ids /\ 1..Len(queue[b]) \subseteq Ids
      BY <1>6, TelegramAssumption DEF Send, Ids
    <3> QED BY <3>1 DEF Updates, Update
  <2> QED BY <1>6, <2>1 DEF Send, loopVars, accessVars, limitVars, boundVars
<1>7. CASE (\E c \in Configs: Edit(c)) \/ Tick
  <2>1. now < MaxTime => now + 1 \in 0..MaxTime
    BY TelegramAssumption
  <2>2. config' \in Configs /\ now' \in 0..MaxTime
    BY <1>7, <2>1 DEF Edit, Tick
  <2>3. UNCHANGED <<up, queue, offset, upTo, stage, got, fate, bindings, codes,
                    redeemed, verdicts, loaded, stops, msgWindows, pairWindows, admitted>>
    BY <1>7 DEF Edit, Tick, loopVars, accessVars, limitVars, boundVars
  <2> QED BY <2>2, <2>3
<1>8. CASE Start
  <2>1. bindings' \subseteq Senders \X Bots
    BY <1>8 DEF Start, Reconciled
  <2>2. stage' \in [Bots -> {"off", "poll", "download", "handled"}]
    BY <1>8 DEF Start
  <2> QED BY <1>8, <2>1, <2>2, TelegramAssumption DEF Start, boundVars
<1>9. CASE Stop
  <2>1. stops' \in 0..MaxStops
    BY <1>9, TelegramAssumption DEF Stop
  <2>2. stage' \in [Bots -> {"off", "poll", "download", "handled"}] /\ up' \in BOOLEAN
    BY <1>9 DEF Stop
  <2>3. UNCHANGED <<queue, offset, upTo, got, fate, bindings, codes, redeemed,
                    verdicts, config, loaded, now, msgWindows, pairWindows, admitted>>
    BY <1>9 DEF Stop, accessVars, limitVars
  <2> QED BY <2>1, <2>2, <2>3
<1> QED BY <1>1, <1>2, <1>3, <1>4, <1>5, <1>6, <1>7, <1>8, <1>9, HandlingOne DEF Next, Loop

-----------------------------------------------------------------------------
(* Stored once, and before the offset                                      *)

\* Handling an update moves the loop no further than that update.
LEMMA HandlingProgress ==
    ASSUME TypeOK, Progress, NEW b \in Bots, Handling(b)
    PROVE  Progress'
<1> SUFFICES ASSUME NEW d \in Bots
             PROVE  /\ stage'[d] \in {"download", "handled"} => offset[d] < Len(queue[d])
                    /\ stage'[d] = "handled" => fate'[d][offset[d] + 1] # "new"
                    /\ stage'[d] # "off" => up
  BY DEF Handling, Progress, Waits, Deals
<1>1. CASE d # b
  BY <1>1 DEF TypeOK, Progress, Handling, Waits, Deals
<1>2. CASE d = b
  <2>1. offset[b] < Len(queue[b]) /\ At(b) \in Ids /\ up
    BY DEF Handling, At, TypeOK, Progress
  <2>2. CASE Waits(b)
    BY <1>2, <2>1, <2>2 DEF Waits, TypeOK
  <2>3. CASE Deals(b)
    <3>1. PICK how \in Fates \ {"new"}: fate' = [fate EXCEPT ![b][At(b)] = how]
      BY <2>3 DEF Deals
    <3>2. fate'[b][At(b)] = how
      BY <2>1, <3>1 DEF TypeOK
    <3> QED BY <1>2, <2>1, <3>2 DEF At
  <2> QED BY <2>2, <2>3 DEF Handling
<1> QED BY <1>1, <1>2

\* Every step keeps the loops where they can be.
LEMMA NextProgress == TypeOK /\ Progress /\ [Next]_vars => Progress'
<1> SUFFICES ASSUME TypeOK, Progress, [Next]_vars PROVE Progress'
  OBVIOUS
<1>1. CASE UNCHANGED <<up, queue, offset, upTo, stage, fate>>
  BY <1>1 DEF Progress
<1>2. ASSUME NEW b \in Bots, Poll(b) PROVE Progress'
  <2>1. upTo' = [upTo EXCEPT ![b] = Len(queue[b])] /\ UNCHANGED <<up, queue, offset, stage, fate>>
    BY <1>2 DEF Poll
  <2> QED BY <2>1 DEF Progress, TypeOK
<1>3. ASSUME NEW b \in Bots, WriteOffset(b) PROVE Progress'
  <2>1. /\ offset' = [offset EXCEPT ![b] = offset[b] + 1]
        /\ stage' = [stage EXCEPT ![b] = "poll"]
        /\ UNCHANGED <<up, queue, upTo, fate>>
        /\ up
        /\ offset[b] + 1 <= Len(queue[b])
    BY <1>3 DEF WriteOffset, NextOffset, Progress, TypeOK
  <2> QED BY <2>1 DEF Progress, TypeOK
<1>4. ASSUME NEW b \in Bots, NEW u \in Updates(b), Send(b, u) PROVE Progress'
  <2>1. /\ queue' \in [Bots -> Seq(Update)]
        /\ \A d \in Bots: Len(queue'[d]) >= Len(queue[d]) /\ Len(queue'[d]) <= MaxUpdates
    <3>1. TypeOK'
      BY NextType DEF Next
    <3>2. Len(queue'[b]) = Len(queue[b]) + 1
      BY <1>4 DEF Send, TypeOK
    <3>3. \A d \in Bots \ {b}: queue'[d] = queue[d]
      BY <1>4 DEF Send, TypeOK
    <3>4. Len(queue[b]) < MaxUpdates /\ MaxUpdates \in Nat
      BY <1>4, TelegramAssumption DEF Send
    <3>5. queue' \in [Bots -> Seq(Update)]
      BY <3>1 DEF TypeOK
    <3>6. \A d \in Bots: Len(queue[d]) \in Nat /\ Len(queue[d]) <= MaxUpdates
      BY DEF TypeOK, Progress
    <3> QED BY <3>2, <3>3, <3>4, <3>5, <3>6
  <2>2. UNCHANGED <<up, offset, upTo, stage, fate>>
    BY <1>4 DEF Send, loopVars
  <2> QED BY <2>1, <2>2 DEF Progress, TypeOK
<1>5. CASE Start
  <2>1. /\ upTo' = [b \in Bots |-> 0] /\ up'
        /\ \A b \in Bots: stage'[b] \in {"poll", "off"}
        /\ UNCHANGED <<queue, offset, fate>>
    BY <1>5 DEF Start
  <2>2. \A b \in Bots: /\ offset[b] <= Len(queue[b]) /\ Len(queue[b]) <= MaxUpdates
                      /\ 0 <= Len(queue[b])
    BY DEF Progress, TypeOK
  <2>3. \A b \in Bots: /\ stage'[b] # "download" /\ stage'[b] # "handled"
                      /\ upTo'[b] = 0
    BY <2>1
  <2> QED BY <2>1, <2>2, <2>3, Zenon DEF Progress
<1>6. CASE Stop
  <2>1. /\ stage' = [b \in Bots |-> "off"]
        /\ UNCHANGED <<queue, offset, upTo, fate>>
    BY <1>6 DEF Stop
  <2> QED BY <2>1 DEF Progress, TypeOK
<1>7. CASE \/ UNCHANGED vars \/ Tick
           \/ \E b \in Bots, c \in DOMAIN codes: Redeem(b, c)
           \/ \E c \in Configs: Edit(c)
  BY <1>1, <1>7 DEF vars, loopVars, Redeem, Edit, Tick
<1> QED BY <1>2, <1>3, <1>4, <1>5, <1>6, <1>7, HandlingOne, HandlingProgress DEF Next, Loop

\* The key of what is no command does not depend on the state.
LEMMA KeyStays ==
    ASSUME NEW b, NEW i, NEW u, u.kind # "command"
    PROVE  KeyOf(b, i, u)' = KeyOf(b, i, u)
BY DEF KeyOf

\* Handling an update stores it if its key is new, which it is only if no row
\* was stored of it before.
LEMMA HandlingStores ==
    ASSUME TypeOK, Progress, Storing, NEW b \in Bots, Handling(b)
    PROVE  Storing'
<1> SUFFICES ASSUME NEW d \in Bots, NEW i \in Ids
             PROVE  IF i <= Len(queue[d]) THEN Stored(d, i)'
                    ELSE got'[d][i] = 0 /\ fate'[d][i] = "new"
  BY DEF Storing, Handling
<1>0. UNCHANGED <<queue, offset>> /\ At(b) \in Ids /\ got[d][i] \in Nat
  BY DEF Handling, TypeOK
<1>7. CASE ~(i <= Len(queue[d]))
  <2>1. got[d][i] = 0 /\ fate[d][i] = "new"
    BY <1>7 DEF Storing
  <2>2. ~(d = b /\ i = At(b))
    BY <1>7 DEF Handling, TypeOK
  <2>3. got'[d][i] = got[d][i]
    BY <1>0, <2>2 DEF Handling, Waits, Deals, StoresRow, StoresNothing, TypeOK
  <2>4. fate'[d][i] = fate[d][i]
    BY <1>0, <2>2 DEF Handling, Waits, Deals, TypeOK
  <2> QED BY <1>7, <2>1, <2>3, <2>4
<1> SUFFICES ASSUME i <= Len(queue[d]) PROVE Stored(d, i)'
  BY <1>7
<1>1. Stored(d, i)
  BY DEF Storing
<1>2. UNCHANGED <<queue, offset>> /\ At(b) \in Ids /\ got[d][i] \in Nat
  BY <1>0
<1>3. CASE StoresNothing /\ (fate'[d][i] = fate[d][i] \/ fate'[d][i] \notin {"new", "kept"})
  BY <1>1, <1>2, <1>3, KeyStays DEF Stored, StoresNothing
<1>4. CASE /\ StoresRow(b) /\ fate' = [fate EXCEPT ![b][At(b)] = "kept"]
  <2>1. keys \subseteq keys'
    BY <1>4 DEF StoresRow
  <2>2. CASE d = b /\ i = At(b)
    <3>1. got'[d][i] = got[d][i] + 1 /\ fate'[d][i] = "kept"
      BY <1>2, <1>4, <2>2 DEF StoresRow, TypeOK
    <3>2. Current(b) = queue[d][i]
      BY <2>2 DEF Current, At
    <3>3. KeyOf(d, i, queue[d][i]) \notin keys /\ KeyOf(d, i, queue[d][i]) \in keys'
      BY <1>4, <2>2, <3>2 DEF StoresRow
    <3>4. queue[d][i].kind # "command" => got[d][i] = 0
      BY <1>1, <1>2, <3>3 DEF Stored
    <3> QED BY <1>1, <1>2, <3>1, <3>3, <3>4, KeyStays DEF Stored
  <2>3. CASE ~(d = b /\ i = At(b))
    <3>1. got'[d][i] = got[d][i] /\ fate'[d][i] = fate[d][i]
      BY <1>1, <1>2, <1>4, <2>3 DEF StoresRow, TypeOK
    <3>2. queue[d][i].kind # "command" =>
            KeyOf(d, i, queue[d][i])' = KeyOf(d, i, queue[d][i])
      BY <1>2, KeyStays
    <3> QED BY <1>1, <1>2, <2>1, <3>1, <3>2 DEF Stored
  <2> QED BY <2>2, <2>3
<1>5. CASE Waits(b)
  BY <1>3, <1>5 DEF Waits
<1>6. CASE Deals(b)
  <2>1. PICK how \in Fates \ {"new"}:
             /\ fate' = [fate EXCEPT ![b][At(b)] = how]
             /\ \/ how = "kept" /\ StoresRow(b)
                \/ how # "kept" /\ StoresNothing
    BY <1>6 DEF Deals
  <2>2. fate'[d][i] = fate[d][i] \/ fate'[d][i] = how
    BY <1>2, <2>1 DEF TypeOK
  <2>3. CASE how = "kept"
    BY <1>4, <2>1, <2>3
  <2>4. CASE how # "kept"
    <3>1. how \notin {"new", "kept"} /\ StoresNothing
      BY <2>1, <2>4
    <3> QED BY <1>3, <2>2, <3>1
  <2> QED BY <2>3, <2>4
<1> QED BY <1>5, <1>6 DEF Handling

\* Every step keeps what is known of stored updates.
LEMMA NextStores == TypeOK /\ Progress /\ Storing /\ [Next]_vars => Storing'
<1> SUFFICES ASSUME TypeOK, Progress, Storing, [Next]_vars PROVE Storing'
  OBVIOUS
<1>1. CASE UNCHANGED <<queue, offset, got, fate, keys>>
  <2> SUFFICES ASSUME NEW b \in Bots, NEW i \in Ids, Stored(b, i) PROVE Stored(b, i)'
    BY <1>1 DEF Storing
  <2> QED BY <1>1, KeyStays DEF Stored
<1>2. ASSUME NEW b \in Bots, WriteOffset(b) PROVE Storing'
  <2>1. /\ offset' = [offset EXCEPT ![b] = offset[b] + 1]
        /\ UNCHANGED <<queue, got, fate, keys>>
        /\ fate[b][offset[b] + 1] # "new"
    BY <1>2 DEF WriteOffset, NextOffset, Progress
  <2> SUFFICES ASSUME NEW d \in Bots, NEW i \in Ids, Stored(d, i) PROVE Stored(d, i)'
    BY <2>1 DEF Storing
  <2>2. i <= offset'[d] => i <= offset[d] \/ (d = b /\ i = offset[b] + 1)
    BY <2>1 DEF TypeOK, Ids
  <2> QED BY <2>1, <2>2, KeyStays DEF Stored
<1>3. ASSUME NEW b \in Bots, NEW u \in Updates(b), Send(b, u) PROVE Storing'
  <2>1. /\ queue' = [queue EXCEPT ![b] = Append(queue[b], u)]
        /\ UNCHANGED <<offset, got, fate, keys>>
    BY <1>3 DEF Send, loopVars
  <2> SUFFICES ASSUME NEW d \in Bots, NEW i \in Ids
               PROVE  IF i <= Len(queue'[d]) THEN Stored(d, i)'
                      ELSE got[d][i] = 0 /\ fate[d][i] = "new"
    BY <2>1 DEF Storing
  <2>2. i <= Len(queue[d]) => i <= Len(queue'[d]) /\ queue'[d][i] = queue[d][i]
    BY <2>1 DEF TypeOK, Ids
  <2>3. CASE i <= Len(queue[d])
    <3>1. Stored(d, i)
      BY <2>3 DEF Storing
    <3>2. queue'[d][i] = queue[d][i] /\ i <= Len(queue'[d])
      BY <2>2, <2>3
    <3>3. queue[d][i].kind # "command" =>
            KeyOf(d, i, queue[d][i])' = KeyOf(d, i, queue[d][i])
      BY <3>2, KeyStays
    <3>4. UNCHANGED <<offset, got, fate, keys>>
      BY <2>1
    <3>5. Stored(d, i)'
      BY <3>1, <3>2, <3>3, <3>4 DEF Stored
    <3> QED BY <3>2, <3>5
  <2>4. CASE ~(i <= Len(queue[d]))
    <3>1. got[d][i] = 0 /\ fate[d][i] = "new"
      BY <2>4 DEF Storing
    <3>2. ~(i <= offset[d])
      BY <2>4 DEF Progress, TypeOK, Ids
    <3> QED BY <2>1, <3>1, <3>2 DEF Stored
  <2> QED BY <2>3, <2>4
<1>4. CASE \/ UNCHANGED vars \/ Tick \/ Start \/ Stop
           \/ \E b \in Bots: Poll(b)
           \/ \E b \in Bots, c \in DOMAIN codes: Redeem(b, c)
           \/ \E c \in Configs: Edit(c)
  BY <1>1, <1>4 DEF vars, loopVars, Redeem, Edit, Tick, Start, Stop, Poll
<1> QED BY <1>2, <1>3, <1>4, HandlingOne, HandlingStores DEF Next, Loop

-----------------------------------------------------------------------------
(* Who is bound                                                            *)

\* A binding that is not new, or that a list gives, is proven.
LEMMA AccessKept ==
    ASSUME TypeOK, RedeemedIsGone, BindingsAreProven, AddsCode,
           redeemed' = redeemed,
           \A w \in bindings': \/ w \in bindings
                               \/ \E c \in Configs: c.mode = "allowlist" /\ w[1] \in c.allow
    PROVE  RedeemedIsGone' /\ BindingsAreProven'
<1>1. \A r \in redeemed: /\ r.code \in DOMAIN codes
                         /\ codes'[r.code].of = codes[r.code].of
                         /\ codes'[r.code].at = codes[r.code].at
                         /\ codes'[r.code].live => codes[r.code].live
  BY CodesType DEF TypeOK
<1>2. RedeemedIsGone'
  BY <1>1 DEF RedeemedIsGone
<1>3. BindingsAreProven'
  BY <1>1 DEF BindingsAreProven
<1> QED BY <1>2, <1>3

\* A redemption proves the binding it makes, and no code is redeemed twice.
LEMMA RedeemProves ==
    ASSUME TypeOK, RedeemedIsGone, BindingsAreProven,
           NEW b \in Bots, NEW c \in DOMAIN codes, Redeem(b, c)
    PROVE  RedeemedIsGone' /\ BindingsAreProven'
<1>1. \A d \in DOMAIN codes: /\ codes'[d].of = codes[d].of
                             /\ codes'[d].at = codes[d].at
                             /\ codes'[d].live => codes[d].live
  BY CodesType DEF Redeem
<1>2. ~codes'[c].live
  <2>1. codes[c] \in Code
    BY DEF TypeOK
  <2> QED BY <2>1 DEF Redeem, CodesAfter, Code, TypeOK
<1>3. PICK r0: /\ r0.code = c /\ r0.by = b /\ r0.at = now
               /\ redeemed' = redeemed \cup {r0}
               /\ bindings' = bindings \cup {<<codes[c].of, b>>}
  <2>1. /\ redeemed' = redeemed \cup {[code |-> c, by |-> b, at |-> now, run |-> stops]}
        /\ bindings' = bindings \cup {<<codes[c].of, b>>}
    BY DEF Redeem
  <2> QED BY <2>1
<1>4. \A r \in redeemed: r.code \in DOMAIN codes /\ r.code # c
  BY DEF TypeOK, RedeemedIsGone, Redeem
<1>5. RedeemedIsGone'
  BY <1>1, <1>2, <1>3, <1>4 DEF RedeemedIsGone
<1>6. \A r \in redeemed': r.at < codes'[r.code].at + CodeLife
  <2>1. now < codes[c].at + CodeLife
    <3>1. codes[c] \in Code
      BY DEF TypeOK
    <3> QED BY <3>1, TelegramAssumption DEF Redeem, Code, TypeOK
  <2> QED BY <1>1, <1>3, <1>4, <2>1 DEF BindingsAreProven
<1>7. \A r, q \in redeemed': r.code = q.code => r = q
  BY <1>3, <1>4 DEF BindingsAreProven
<1>8. \A w \in bindings':
         \/ \E r \in redeemed': r.by = w[2] /\ codes'[r.code].of = w[1]
         \/ \E d \in Configs: d.mode = "allowlist" /\ w[1] \in d.allow
  <2> SUFFICES ASSUME NEW w \in bindings'
               PROVE  \/ \E r \in redeemed': r.by = w[2] /\ codes'[r.code].of = w[1]
                      \/ \E d \in Configs: d.mode = "allowlist" /\ w[1] \in d.allow
    OBVIOUS
  <2>1. CASE w \in bindings
    BY <1>1, <1>3, <1>4, <2>1 DEF BindingsAreProven
  <2>2. CASE w = <<codes[c].of, b>>
    BY <1>1, <1>3, <2>2
  <2> QED BY <1>3, <2>1, <2>2
<1> QED BY <1>5, <1>6, <1>7, <1>8 DEF BindingsAreProven

\* Every step keeps it so.
LEMMA NextAccess ==
    TypeOK /\ Progress /\ RedeemedIsGone /\ BindingsAreProven /\ [Next]_vars
      => RedeemedIsGone' /\ BindingsAreProven'
<1> SUFFICES ASSUME TypeOK, Progress, RedeemedIsGone, BindingsAreProven, [Next]_vars
             PROVE  RedeemedIsGone' /\ BindingsAreProven'
  OBVIOUS
<1>1. ASSUME NEW b \in Bots, Handling(b) PROVE RedeemedIsGone' /\ BindingsAreProven'
  <2>1. \A w \in bindings': \/ w \in bindings
                            \/ \E c \in Configs: c.mode = "allowlist" /\ w[1] \in c.allow
    BY <1>1 DEF Handling, Binds, TypeOK
  <2> QED BY <1>1, <2>1, AccessKept DEF Handling
<1>2. CASE Start
  <2>1. bindings' \subseteq bindings /\ UNCHANGED <<codes, redeemed>>
    BY <1>2 DEF Start, Reconciled
  <2> QED BY <2>1, AccessKept DEF AddsCode
<1>3. CASE \/ UNCHANGED vars \/ Tick \/ Stop
           \/ \E b \in Bots: Poll(b) \/ WriteOffset(b) \/ \E u \in Updates(b): Send(b, u)
           \/ \E c \in Configs: Edit(c)
  <2>1. UNCHANGED <<bindings, codes, redeemed>>
    BY <1>3 DEF vars, accessVars, Tick, Stop, Poll, WriteOffset, Send, Edit
  <2> QED BY <2>1, AccessKept DEF AddsCode
<1> QED BY <1>1, <1>2, <1>3, HandlingOne, RedeemProves DEF Next, Loop

\* While rederd runs with a list, what is decided and bound without a code
\* comes from the list.
LEMMA ListKept ==
    ASSUME TypeOK, ListIsObeyed, UNCHANGED <<loaded, stops>>, up' => up,
           AddsCode \/ \E c \in DOMAIN codes: codes' = CodesAfter(c),
           redeemed \subseteq redeemed',
           loaded.mode = "allowlist" => \A v \in verdicts': v \in verdicts \/ v[1] \in loaded.allow,
           \A w \in bindings':
             \/ w \in bindings
             \/ loaded.mode = "allowlist" /\ w[1] \in loaded.allow
             \/ \E r \in redeemed': r.by = w[2] /\ codes'[r.code].of = w[1] /\ r.run = stops
    PROVE  ListIsObeyed'
<1>1. \A r \in redeemed: r.code \in DOMAIN codes /\ codes'[r.code].of = codes[r.code].of
  BY CodesType DEF TypeOK
<1> SUFFICES ASSUME up, loaded.mode = "allowlist"
             PROVE  /\ \A v \in verdicts': v[1] \in loaded.allow
                    /\ \A w \in bindings': w[1] \notin loaded.allow =>
                          \E r \in redeemed': /\ r.by = w[2] /\ codes'[r.code].of = w[1]
                                              /\ r.run = stops
  BY DEF ListIsObeyed
<1> QED BY <1>1 DEF ListIsObeyed

\* Every step keeps to the list.
LEMMA NextList == TypeOK /\ Progress /\ ListIsObeyed /\ [Next]_vars => ListIsObeyed'
<1> SUFFICES ASSUME TypeOK, Progress, ListIsObeyed, [Next]_vars PROVE ListIsObeyed'
  OBVIOUS
<1>1. ASSUME NEW b \in Bots, Handling(b) PROVE ListIsObeyed'
  <2>1. up
    BY <1>1 DEF Handling, Progress
  <2>2. UNCHANGED <<loaded, stops, redeemed>> /\ AddsCode
    BY <1>1 DEF Handling, boundVars
  <2>3. loaded.mode = "allowlist" => \A v \in verdicts': v \in verdicts \/ v[1] \in loaded.allow
    BY <1>1 DEF Handling, Decides
  <2>4. \A w \in bindings': \/ w \in bindings
                            \/ loaded.mode = "allowlist" /\ w[1] \in loaded.allow
    <3>1. CASE bindings' = bindings
      BY <3>1
    <3>2. ASSUME NEW p \in Senders, p \in loaded.allow, bindings' = bindings \cup {<<p, b>>}
          PROVE  \A w \in bindings': w \in bindings \/ w[1] \in loaded.allow
      <4>1. \A w \in bindings': w \in bindings \/ w[1] = p
        BY <3>2
      <4> QED BY <3>2, <4>1
    <3> QED BY <1>1, <3>1, <3>2 DEF Handling, Binds
  <2> QED BY <2>1, <2>2, <2>3, <2>4, ListKept
<1>2. ASSUME NEW b \in Bots, NEW c \in DOMAIN codes, Redeem(b, c) PROVE ListIsObeyed'
  <2> DEFINE r0 == [code |-> c, by |-> b, at |-> now, run |-> stops]
  <2>1. /\ up /\ UNCHANGED <<loaded, stops, verdicts>>
        /\ redeemed' = redeemed \cup {r0} /\ codes' = CodesAfter(c)
        /\ bindings' = bindings \cup {<<codes[c].of, b>>}
    BY <1>2 DEF Redeem, boundVars
  <2>2. codes'[c].of = codes[c].of
    BY <2>1, CodesType
  <2>3. \A w \in bindings':
          \/ w \in bindings
          \/ \E r \in redeemed': r.by = w[2] /\ codes'[r.code].of = w[1] /\ r.run = stops
    <3>1. r0 \in redeemed' /\ r0.by = b /\ codes'[r0.code].of = codes[c].of /\ r0.run = stops
      BY <2>1, <2>2
    <3> HIDE DEF r0
    <3>2. \A w \in bindings': w \in bindings \/ (w[1] = codes[c].of /\ w[2] = b)
      BY <2>1
    <3> QED BY <3>1, <3>2
  <2> QED BY <2>1, <2>3, ListKept
<1>3. CASE Start
  <2>1. /\ loaded' = config /\ verdicts' = {} /\ bindings' = Reconciled(config)
    BY <1>3 DEF Start
  <2> QED BY <2>1 DEF ListIsObeyed, Reconciled
<1>4. CASE Stop
  BY <1>4 DEF Stop, ListIsObeyed
<1>5. CASE \/ UNCHANGED vars \/ Tick
           \/ \E b \in Bots: Poll(b) \/ WriteOffset(b) \/ \E u \in Updates(b): Send(b, u)
           \/ \E c \in Configs: Edit(c)
  <2>1. UNCHANGED <<bindings, codes, redeemed, loaded, stops, verdicts>>
    BY <1>5 DEF vars, accessVars, boundVars, Tick, Poll, WriteOffset, Send, Edit
  <2>2. up' => up
    BY <1>5 DEF vars, loopVars, Tick, Poll, WriteOffset, Send, Edit
  <2> QED BY <2>1, <2>2, ListKept DEF AddsCode
<1> QED BY <1>1, <1>2, <1>3, <1>4, <1>5, HandlingOne DEF Next, Loop

-----------------------------------------------------------------------------
(* The limits                                                              *)

\* Time goes on and the loops do, and the limiter counts nothing.
LEMMA StillStamps ==
    ASSUME TypeOK, Stamps, RateHeld, UNCHANGED <<msgWindows, admitted>>,
           now' \in Nat, now <= now',
           \A b \in Bots: \/ offset'[b] = offset[b] /\ (stage'[b] = "poll" => stage[b] = "poll")
                         \/ offset'[b] = offset[b] + 1
    PROVE  Stamps' /\ RateHeld'
<1>1. RateHeld'
  BY DEF RateHeld
<1>2. ASSUME NEW p \in Senders, NEW b \in Bots
      PROVE  LET all == admitted[<<p, b>>] IN
             /\ Recent(all, MsgWindow)' \subseteq Recent(all, MsgWindow)
             /\ \A s \in all: /\ s.at <= now'
                              /\ s.no <= offset'[b] \/ (s.no = offset'[b] + 1 /\ stage'[b] # "poll")
  <2>1. now \in Nat /\ offset[b] \in Nat /\ MsgWindow \in Nat
    BY TelegramAssumption DEF TypeOK
  <2>2. \A s \in admitted[<<p, b>>]: s.at \in Nat /\ s.no \in Nat
    BY TelegramAssumption DEF TypeOK, Stamp
  <2>3. Recent(admitted[<<p, b>>], MsgWindow)' \subseteq Recent(admitted[<<p, b>>], MsgWindow)
    BY <2>1, <2>2 DEF Recent
  <2> QED BY <2>1, <2>2, <2>3 DEF Stamps, Stamped
<1> QED BY <1>1, <1>2 DEF Stamps, Stamped

\* One element more.
LEMMA Added ==
    ASSUME NEW S, IsFiniteSet(S), NEW x
    PROVE  /\ IsFiniteSet(S \cup {x}) /\ Cardinality(S \cup {x}) \in Nat
           /\ Cardinality(S \cup {x}) <= Cardinality(S) + 1
<1>1. IsFiniteSet(S \cup {x}) /\ Cardinality(S) \in Nat
  BY FS_AddElement, FS_CardinalityType
<1>2. Cardinality(S \cup {x}) = IF x \in S THEN Cardinality(S) ELSE Cardinality(S) + 1
  BY FS_AddElement
<1> QED BY <1>1, <1>2

\* A message is counted: what could share a window with it is still counted, and is
\* less than the limit.
LEMMA CountedStamps ==
    ASSUME TypeOK, Stamps, RateHeld, NEW b \in Bots, NEW p \in Senders, UNCHANGED <<offset, now>>,
           stage[b] = "poll", stage' = [stage EXCEPT ![b] = "handled"],
           Allowed(msgWindows[<<p, b>>], MsgLimit, MsgWindow),
           msgWindows' = [msgWindows EXCEPT ![<<p, b>>] = Counted(@, MsgWindow, At(b))],
           admitted' = [admitted EXCEPT ![<<p, b>>] = @ \cup {[no |-> At(b), at |-> now]}]
    PROVE  Stamps' /\ RateHeld'
<1> DEFINE w == <<p, b>>
           new == [no |-> At(b), at |-> now]
<1>1. /\ w \in Senders \X Bots /\ now \in Nat /\ offset[b] \in Nat
      /\ MsgWindow \in Nat \ {0} /\ MsgLimit \in Nat \ {0}
  BY TelegramAssumption DEF TypeOK
<1>2. /\ admitted'[w] = admitted[w] \cup {new}
      /\ msgWindows'[w] = Recent(msgWindows[w], MsgWindow) \cup {new}
      /\ \A v \in Senders \X Bots: v # w =>
           admitted'[v] = admitted[v] /\ msgWindows'[v] = msgWindows[v]
  BY <1>1 DEF TypeOK, Counted
<1>3. new.no = offset[b] + 1 /\ new.at = now
  BY DEF At
<1> HIDE DEF new, w
<1>4. /\ IsFiniteSet(admitted[w]) /\ msgWindows[w] \subseteq admitted[w]
      /\ Recent(admitted[w], MsgWindow) \subseteq msgWindows[w]
      /\ \A s \in admitted[w]: /\ s.at \in Nat /\ s.no \in Nat
                              /\ s.at <= now /\ s.no <= offset[b]
  <2>1. /\ IsFiniteSet(admitted[w]) /\ msgWindows[w] \subseteq admitted[w]
        /\ Recent(admitted[w], MsgWindow) \subseteq msgWindows[w]
        /\ \A s \in admitted[w]:
             s.at <= now /\ (s.no <= offset[b] \/ (s.no = offset[b] + 1 /\ stage[b] # "poll"))
    BY DEF w, Stamps, Stamped
  <2>2. \A s \in admitted[w]: s \in Stamp
    BY <1>1 DEF TypeOK
  <2>3. \A s \in Stamp: s.at \in Nat /\ s.no \in Nat
    BY TelegramAssumption DEF Stamp
  <2> QED BY <2>1, <2>2, <2>3
<1>5. \A d \in Bots: stage'[d] = IF d = b THEN "handled" ELSE stage[d]
  BY DEF TypeOK
<1>6. Stamps'
  <2> SUFFICES ASSUME NEW q \in Senders, NEW d \in Bots PROVE Stamped(q, d)'
    BY DEF Stamps
  <2>1. CASE <<q, d>> = w
    <3>1. d = b
      BY <2>1 DEF w
    <3>2. IsFiniteSet(admitted'[w])
      <4>1. IsFiniteSet(admitted[w] \cup {new})
        BY <1>4, Added
      <4> QED BY <1>2, <4>1
    <3>3. \A s \in admitted'[w]: s.at <= now /\ (s.no <= offset[b] \/ s.no = offset[b] + 1)
      BY <1>1, <1>2, <1>3, <1>4
    <3>4. Recent(admitted'[w], MsgWindow) \subseteq msgWindows'[w]
      BY <1>2, <1>4 DEF Recent
    <3>5. msgWindows'[w] \subseteq admitted'[w]
      BY <1>2, <1>4 DEF Recent
    <3>6. stage'[b] # "poll"
      BY <1>5
    <3>7. now' = now /\ offset' = offset
      OBVIOUS
    <3> QED BY <2>1, <3>1, <3>2, <3>3, <3>4, <3>5, <3>6, <3>7 DEF Stamped, Recent
  <2>2. CASE <<q, d>> # w
    <3>1. /\ admitted'[<<q, d>>] = admitted[<<q, d>>]
          /\ msgWindows'[<<q, d>>] = msgWindows[<<q, d>>]
      BY <1>2, <2>2
    <3>2. stage'[d] = "poll" => stage[d] = "poll"
      BY <1>5
    <3>3. now' = now /\ offset' = offset /\ Stamped(q, d)
      BY DEF Stamps
    <3> QED BY <3>1, <3>2, <3>3 DEF Stamped, Recent
  <2> QED BY <2>1, <2>2
<1>7. ASSUME NEW v \in Senders \X Bots, NEW t \in 0..MaxTime
      PROVE  Cardinality({s \in admitted'[v]: t <= s.at /\ s.at < t + MsgWindow}) <= MsgLimit
  <2> DEFINE inside == {s \in admitted[v]: t <= s.at /\ s.at < t + MsgWindow}
             inside2 == {s \in admitted'[v]: t <= s.at /\ s.at < t + MsgWindow}
  <2>1. Cardinality(inside) <= MsgLimit
    BY DEF RateHeld
  <2>2. CASE inside2 = inside
    BY <2>1, <2>2
  <2>3. CASE inside2 # inside
    <3>1. v = w /\ inside2 = inside \cup {new} /\ t <= now /\ now < t + MsgWindow
      BY <1>2, <1>3, <2>3
    <3>2. t \in Nat
      BY TelegramAssumption
    <3>3. inside \subseteq Recent(msgWindows[w], MsgWindow)
      BY <1>1, <1>4, <3>1, <3>2 DEF Recent
    <3>4. IsFiniteSet(Recent(msgWindows[w], MsgWindow))
      BY <1>4, FS_Subset DEF Recent
    <3>5. /\ IsFiniteSet(inside) /\ Cardinality(inside) \in Nat
          /\ Cardinality(inside) <= Cardinality(Recent(msgWindows[w], MsgWindow))
          /\ Cardinality(Recent(msgWindows[w], MsgWindow)) \in Nat
      BY <3>3, <3>4, FS_Subset, FS_CardinalityType
    <3>6. Cardinality(Recent(msgWindows[w], MsgWindow)) < MsgLimit
      BY DEF Allowed, w
    <3> HIDE DEF inside, inside2
    <3>7. Cardinality(inside2) <= Cardinality(inside) + 1
      BY <3>1, <3>5, Added
    <3>8. IsFiniteSet(inside2) /\ Cardinality(inside2) \in Nat
      BY <3>1, <3>5, Added
    <3>9. Cardinality(inside2) <= MsgLimit
      BY <1>1, <3>5, <3>6, <3>7, <3>8
    <3> QED BY <3>9 DEF inside2
  <2> QED BY <2>2, <2>3
<1>8. RateHeld'
  BY <1>7 DEF RateHeld
<1> QED BY <1>6, <1>8

\* Every step keeps to the limits.
LEMMA NextLimits == TypeOK /\ Progress /\ Stamps /\ RateHeld /\ [Next]_vars => Stamps' /\ RateHeld'
<1> SUFFICES ASSUME TypeOK, Progress, Stamps, RateHeld, [Next]_vars PROVE Stamps' /\ RateHeld'
  OBVIOUS
<1>1. now \in Nat /\ \A b \in Bots: offset[b] \in Nat
  BY TelegramAssumption DEF TypeOK
<1>2. ASSUME NEW b \in Bots, Handling(b) PROVE Stamps' /\ RateHeld'
  <2>1. UNCHANGED <<offset, now>> /\ CountsMessage(b)
    BY <1>2 DEF Handling
  <2>2. CASE UNCHANGED <<msgWindows, admitted>>
    <3>1. \A d \in Bots: stage'[d] = "poll" => stage[d] = "poll"
      BY <1>2 DEF Handling, Waits, Deals, TypeOK
    <3> QED BY <1>1, <2>1, <2>2, <3>1, StillStamps
  <2> QED BY <2>1, <2>2, CountedStamps DEF CountsMessage
<1>3. ASSUME NEW b \in Bots, WriteOffset(b) PROVE Stamps' /\ RateHeld'
  <2>1. UNCHANGED <<msgWindows, admitted, now>>
    BY <1>3 DEF WriteOffset, limitVars
  <2>2. \A d \in Bots: \/ offset'[d] = offset[d] + 1
                       \/ offset'[d] = offset[d] /\ stage'[d] = stage[d]
    BY <1>3 DEF WriteOffset, NextOffset, TypeOK
  <2> QED BY <1>1, <2>1, <2>2, StillStamps
<1>4. CASE Start
  <2>1. /\ \A w \in Senders \X Bots: admitted'[w] = {} /\ msgWindows'[w] = {}
    BY <1>4 DEF Start
  <2>2. IsFiniteSet({}) /\ Cardinality({}) = 0 /\ MsgLimit \in Nat
    BY FS_EmptySet, TelegramAssumption
  <2>3. Stamps'
    <3>1. \A p \in Senders, b \in Bots: <<p, b>> \in Senders \X Bots
      OBVIOUS
    <3> QED BY <2>1, <2>2, <3>1 DEF Stamps, Stamped, Recent
  <2>4. RateHeld'
    <3>1. ASSUME NEW w \in Senders \X Bots, NEW t \in 0..MaxTime
          PROVE  Cardinality({s \in admitted'[w]: t <= s.at /\ s.at < t + MsgWindow}) <= MsgLimit
      <4> DEFINE inside == {s \in admitted'[w]: t <= s.at /\ s.at < t + MsgWindow}
      <4>1. inside = {}
        BY <2>1
      <4> HIDE DEF inside
      <4>2. Cardinality(inside) <= MsgLimit
        BY <2>2, <4>1
      <4> QED BY <4>2 DEF inside
    <3> QED BY <3>1 DEF RateHeld
  <2> QED BY <2>3, <2>4
<1>5. CASE \/ UNCHANGED vars \/ Tick \/ Stop
           \/ \E b \in Bots: Poll(b) \/ (\E u \in Updates(b): Send(b, u))
           \/ \E b \in Bots, c \in DOMAIN codes: Redeem(b, c)
           \/ \E c \in Configs: Edit(c)
  <2>1. UNCHANGED <<msgWindows, admitted, offset>>
    BY <1>5 DEF vars, loopVars, limitVars, Tick, Stop, Poll, Send, Redeem, Edit
  <2>2. now' = now \/ now' = now + 1
    BY <1>5 DEF vars, Tick, Stop, Poll, Send, Redeem, Edit
  <2>3. \A d \in Bots: stage'[d] = "poll" => stage[d] = "poll"
    BY <1>5 DEF vars, loopVars, Tick, Stop, Poll, Send, Redeem, Edit
  <2> QED BY <1>1, <2>1, <2>2, <2>3, StillStamps
<1> QED BY <1>2, <1>3, <1>4, <1>5, HandlingOne DEF Next, Loop

-----------------------------------------------------------------------------
(* The theorems                                                            *)

\* The invariant holds first.
LEMMA InitInv == Init => IInv
<1> SUFFICES ASSUME Init PROVE IInv
  OBVIOUS
<1>1. TypeOK
  BY InitType
<1>2. Progress /\ Storing
  <2>1. \A b \in Bots: Len(queue[b]) = 0 /\ offset[b] = 0 /\ upTo[b] = 0 /\ stage[b] = "off"
    BY DEF Init
  <2>2. \A b \in Bots, i \in Ids: /\ ~(i <= Len(queue[b]))
                                  /\ got[b][i] = 0 /\ fate[b][i] = "new"
    BY <2>1, TelegramAssumption DEF Init, Ids
  <2> QED BY <2>1, <2>2, TelegramAssumption DEF Progress, Storing
<1>3. RedeemedIsGone /\ BindingsAreProven /\ ListIsObeyed
  BY DEF Init, RedeemedIsGone, BindingsAreProven, ListIsObeyed
<1>4. Stamps /\ RateHeld
  <2>1. \A w \in Senders \X Bots: admitted[w] = {} /\ msgWindows[w] = {}
    BY DEF Init
  <2>2. IsFiniteSet({}) /\ Cardinality({}) = 0 /\ MsgLimit \in Nat
    BY FS_EmptySet, TelegramAssumption
  <2>3. \A p \in Senders, b \in Bots: <<p, b>> \in Senders \X Bots
    OBVIOUS
  <2>4. \A w \in Senders \X Bots, t \in 0..MaxTime:
          {s \in admitted[w]: t <= s.at /\ s.at < t + MsgWindow} = {}
    BY <2>1
  <2>5. Stamps
    BY <2>1, <2>2, <2>3 DEF Stamps, Stamped, Recent
  <2>6. RateHeld
    BY <2>2, <2>4 DEF RateHeld
  <2> QED BY <2>5, <2>6
<1> QED BY <1>1, <1>2, <1>3, <1>4 DEF IInv

\* Every step keeps it.
LEMMA NextInv == IInv /\ [Next]_vars => IInv'
BY NextType, NextProgress, NextStores, NextAccess, NextList, NextLimits DEF IInv

\* It holds in every behaviour.
LEMMA Invariance == Spec => []IInv
BY InitInv, NextInv, PTL DEF Spec

\* Every variable of the Telegram adapter's model keeps its type, for any
\* number of bots, people, updates and restarts.
THEOREM TypeCorrect == Spec => []TypeOK
<1>1. IInv => TypeOK
  BY DEF IInv
<1> QED BY <1>1, Invariance, PTL

\* An update that Telegram delivers again becomes no second message, and the
\* stored offset passes only what was dealt with (index.ts:410).
THEOREM StoredOnce == Spec => []StoredOnceBeforeOffset
<1>1. IInv => StoredOnceBeforeOffset
  <2> SUFFICES ASSUME IInv, NEW b \in Bots, NEW i \in DOMAIN queue[b]
               PROVE  /\ queue[b][i].kind # "command" => got[b][i] <= 1
                      /\ i <= offset[b] => fate[b][i] # "new"
                      /\ fate[b][i] = "kept" => got[b][i] > 0
    BY DEF StoredOnceBeforeOffset
  <2>1. i \in Ids /\ i <= Len(queue[b])
    BY TelegramAssumption DEF IInv, TypeOK, Progress, Ids
  <2> QED BY <2>1 DEF IInv, Storing, Stored
<1> QED BY <1>1, Invariance, PTL

\* A pair code binds once, in its lifetime, the person it was made for; every
\* other binding comes from a list the operator wrote (pairing.ts:157).
THEOREM BindingsProven == Spec => []BindingsAreProven
<1>1. IInv => BindingsAreProven
  BY DEF IInv
<1> QED BY <1>1, Invariance, PTL

\* A start with an allowlist takes away what the list does not give, whatever
\* was bound or decided before (index.ts:86).
THEOREM ListObeyed == Spec => []ListIsObeyed
<1>1. IInv => ListIsObeyed
  BY DEF IInv
<1> QED BY <1>1, Invariance, PTL

\* Whenever a window of time begins, no more messages of a sender pass the limiter of
\* a session in it than the limit, though the limiter only forgets what is past
\* when the next one comes (ratelimit.ts:20).
THEOREM RateIsHeld == Spec => []RateHeld
<1>1. IInv => RateHeld
  BY DEF IInv
<1> QED BY <1>1, Invariance, PTL
=============================================================================
