--------------------------- MODULE DashboardProofs ---------------------------
(***************************************************************************)
(* Theorems about Dashboard, for any number of sessions, requests, rows,   *)
(* events, fetches and mishaps: that the badge counts what is new, and     *)
(* that the panel comes to show the rows and the open requests.            *)
(*                                                                         *)
(* The three invariants speak of a panel that has heard everything.  None  *)
(* is inductive: each needs what is true while events are still in the     *)
(* stream and fetches are in flight, and in which order they come.         *)
(***************************************************************************)
EXTENDS Dashboard, SequenceTheorems, TLAPS

-----------------------------------------------------------------------------
(* Types and counts                                                        *)

\* What is left of a sequence when one element is taken out.
LEMMA RemoveAtElements ==
    ASSUME NEW S, NEW q \in Seq(S), NEW i \in 1..Len(q)
    PROVE  /\ RemoveAt(q, i) \in Seq(S)
           /\ Len(RemoveAt(q, i)) = Len(q) - 1
           /\ \A k \in 1..(Len(q) - 1) :
                RemoveAt(q, i)[k] = IF k < i THEN q[k] ELSE q[k + 1]
<1> DEFINE a == SubSeq(q, 1, i - 1)
           b == SubSeq(q, i + 1, Len(q))
<1>1. a \in Seq(S) /\ Len(a) = i - 1 /\ \A k \in 1..(i - 1) : a[k] = q[k]
  OBVIOUS
<1>2. b \in Seq(S) /\ Len(b) = Len(q) - i /\ \A k \in 1..(Len(q) - i) : b[k] = q[i + k]
  OBVIOUS
<1>3. RemoveAt(q, i) = a \o b
  BY DEF RemoveAt
<1> HIDE DEF a, b
<1>4. a \o b \in Seq(S) /\ Len(a \o b) = Len(q) - 1
  <2>1. a \o b \in Seq(S) /\ Len(a \o b) = Len(a) + Len(b)
    BY <1>1, <1>2, ConcatProperties
  <2> QED BY <1>1, <1>2, <2>1
<1>5. ASSUME NEW k \in 1..(Len(q) - 1)
      PROVE  (a \o b)[k] = IF k < i THEN q[k] ELSE q[k + 1]
  <2>1. CASE k < i
    BY <1>1, <1>2, <2>1
  <2>2. CASE ~(k < i)
    <3>1. (a \o b)[k] = b[k - (i - 1)]
      BY <1>1, <1>2, <2>2
    <3>2. k - (i - 1) \in 1..(Len(q) - i)
      BY <2>2
    <3>3. b[k - (i - 1)] = q[i + (k - (i - 1))]
      BY <1>2, <3>2
    <3>4. i + (k - (i - 1)) = k + 1
      OBVIOUS
    <3> QED BY <2>2, <3>1, <3>3, <3>4
  <2> QED BY <2>1, <2>2
<1> QED BY <1>3, <1>4, <1>5

LEMMA Joined ==
    ASSUME NEW S, NEW q \in Seq(S), NEW ev \in Seq(S)
    PROVE  /\ q \o ev \in Seq(S)
           /\ Len(q \o ev) = Len(q) + Len(ev)
           /\ \A k \in 1..Len(q) : (q \o ev)[k] = q[k]
           /\ \A k \in 1..Len(ev) : (q \o ev)[Len(q) + k] = ev[k]
OBVIOUS

LEMMA TailElements ==
    ASSUME NEW S, NEW q \in Seq(S), q # <<>>
    PROVE  /\ Tail(q) \in Seq(S)
           /\ Len(Tail(q)) = Len(q) - 1
           /\ \A k \in 1..(Len(q) - 1) : Tail(q)[k] = q[k + 1]
           /\ Head(q) = q[1] /\ Head(q) \in S
OBVIOUS

LEMMA PipeType ==
    ASSUME TypeOK, NEW ev \in Seq(Event), NEW s
    PROVE  Published(s, ev) \in Seq(Event) /\ Broadcast(ev) \in Seq(Event)
BY DEF TypeOK, Published, Broadcast, Heard

LEMMA EventTypes ==
    /\ Message \in Event
    /\ Ev("cleared", None) \in Event
    /\ \A r \in Requests : Ev("requested", r) \in Event /\ Ev("removed", r) \in Event
    /\ \A k, r : Ev(k, r).kind = k /\ Ev(k, r).request = r
    /\ Message.kind = "message"
    /\ \A e \in Event :
         \/ e.kind \in {"message", "cleared"}
         \/ e.kind \in {"requested", "removed"} /\ e.request \in Requests
    /\ \A e \in Event : e = Ev(e.kind, e.request)
BY DEF Message, Ev, Event

LEMMA OutdatedType ==
    ASSUME TypeOK
    PROVE  /\ Outdated \in Seq(Fetch) /\ Len(Outdated) = Len(asked)
           /\ \A i \in 1..Len(asked) :
                /\ Outdated[i].session = asked[i].session
                /\ Outdated[i].data = asked[i].data
                /\ Outdated[i].old = (asked[i].old \/ asked[i].data # None)
<1>1. DOMAIN asked = 1..Len(asked) /\ Len(asked) \in Nat
  BY DEF TypeOK
<1>2. \A i \in 1..Len(asked) : asked[i] \in Fetch
  BY DEF TypeOK
<1>3. ASSUME NEW i \in 1..Len(asked)
      PROVE  LET f == [asked[i] EXCEPT !.old = @ \/ asked[i].data # None] IN
               /\ f \in Fetch
               /\ f.session = asked[i].session /\ f.data = asked[i].data
               /\ f.old = (asked[i].old \/ asked[i].data # None)
  BY <1>2 DEF Fetch
<1>4. Outdated = [i \in 1..Len(asked) |-> [asked[i] EXCEPT !.old = @ \/ asked[i].data # None]]
  BY <1>1 DEF Outdated
<1>5. Outdated \in [1..Len(asked) -> Fetch]
  BY <1>3, <1>4
<1>6. Outdated \in Seq(Fetch) /\ Len(Outdated) = Len(asked)
  BY <1>1, <1>5
<1> QED BY <1>3, <1>4, <1>6

LEMMA AskType ==
    ASSUME TypeOK, NEW s \in Sessions
    PROVE  /\ Ask(s) \in Fetch
           /\ Append(asked, Ask(s)) \in Seq(Fetch)
           /\ Len(Append(asked, Ask(s))) = Len(asked) + 1
           /\ Append(asked, Ask(s))[Len(asked) + 1] = Ask(s)
           /\ \A i \in 1..Len(asked) : Append(asked, Ask(s))[i] = asked[i]
<1>1. Ask(s) \in Fetch
  BY DEF Ask, Fetch
<1>2. asked \in Seq(Fetch)
  BY DEF TypeOK
<1> QED BY <1>1, <1>2


\* No more rows were stored than there are, so the counts stay within their bound.
Counts ==
    /\ UnreadIsNew
    /\ \A s \in Sessions : fresh[s] <= stored

LEMMA ReadCounts ==
    ASSUME TypeOK, Counts, NEW s \in Sessions, Read(s), UNCHANGED stored
    PROVE  /\ unread' \in [Sessions -> 0..MaxRows] /\ told' \in [Sessions -> 0..MaxRows]
           /\ fresh' \in [Sessions -> 0..MaxRows]
           /\ Counts'
BY DashboardAssumption DEF TypeOK, Counts, UnreadIsNew, Read

LEMMA PersistType ==
    ASSUME TypeOK, Counts, NEW s \in Sessions, NEW n \in 1..2, NEW elsewhere \in BOOLEAN,
           NEW events \in 1..2, Persist(s, n, elsewhere, events)
    PROVE  TypeOK' /\ Counts'
<1>1. [i \in 1..events |-> Message] \in Seq(Event)
  <2>1. [i \in 1..events |-> Message] \in [1..events -> Event]
    BY EventTypes
  <2> QED BY <2>1
<1>2. pipe' \in Seq(Event)
  BY <1>1, PipeType DEF Persist
<1>3. asked' \in Seq(Fetch) /\ Len(asked') <= MaxAsked
  BY OutdatedType DEF Persist, TypeOK
<1>4. stored' = stored + n /\ stored \in 0..MaxRows /\ stored' \in 0..MaxRows
  BY DashboardAssumption DEF Persist, TypeOK
<1>5. rows' \in [Sessions -> SUBSET (1..stored')]
  <2>1. rows \in [Sessions -> SUBSET (1..stored)]
    BY DEF TypeOK
  <2>2. 1..stored \subseteq 1..stored' /\ (stored + 1)..(stored + n) \subseteq 1..stored'
    BY <1>4
  <2>3. rows[s] \cup ((stored + 1)..(stored + n)) \in SUBSET (1..stored')
    BY <2>1, <2>2
  <2>4. rows' = [rows EXCEPT ![s] = rows[s] \cup ((stored + 1)..(stored + n))]
    BY DEF Persist
  <2> QED BY <2>1, <2>2, <2>3, <2>4
<1>6. /\ unread' \in [Sessions -> 0..MaxRows] /\ told' \in [Sessions -> 0..MaxRows]
      /\ fresh' \in [Sessions -> 0..MaxRows]
      /\ Counts'
  <2>1. /\ unread \in [Sessions -> 0..MaxRows] /\ told \in [Sessions -> 0..MaxRows]
        /\ fresh \in [Sessions -> 0..MaxRows] /\ MaxRows \in Nat
    BY DashboardAssumption DEF TypeOK
  <2>2. CASE elsewhere
    <3>1. /\ unread' = [unread EXCEPT ![s] = unread[s] + 1]
          /\ told' = [told EXCEPT ![s] = unread[s] + 1]
          /\ fresh' = [fresh EXCEPT ![s] = fresh[s] + n]
      BY <2>2 DEF Persist, Counted
    <3> QED BY <2>1, <3>1, <1>4 DEF Counts, UnreadIsNew
  <2>3. CASE ~elsewhere
    <3>1. /\ unread' = [unread EXCEPT ![s] = unread[s]]
          /\ told' = told /\ fresh' = fresh
      BY <2>3 DEF Persist, Counted
    <3> QED BY <2>1, <3>1, <1>4 DEF Counts, UnreadIsNew
  <2> QED BY <2>2, <2>3
<1>7. behind' \in BOOLEAN
  BY DEF Persist, TypeOK, PassesBy
<1>8. UNCHANGED <<open, of, prompts, cancels, clearing, sel, stream, shown, cards, busy,
                  missed, ghosts, selects, mishaps>>
  BY DEF Persist
<1> QED BY <1>2, <1>3, <1>4, <1>5, <1>6, <1>7, <1>8 DEF TypeOK

\* What an ended request does to the types.
LEMMA EndType ==
    ASSUME TypeOK, NEW r \in Requests, End(r)
    PROVE  /\ open' \in SUBSET Requests /\ cancels' \in SUBSET Requests
           /\ pipe' \in Seq(Event)
<1>1. <<Ev("removed", r)>> \in Seq(Event)
  BY EventTypes
<1> QED BY <1>1, PipeType DEF End, TypeOK

LEMMA PermissionType ==
    ASSUME TypeOK, NEW r \in Requests,
           \/ \E s \in Sessions : Request(r, s) \/ RequestApproved(r, s)
           \/ Prompt(r) \/ Resolve(r) \/ Cancel(r)
    PROVE  TypeOK'
<1>1. /\ <<Ev("requested", r)>> \in Seq(Event) /\ <<Ev("removed", r)>> \in Seq(Event)
      /\ <<Ev("requested", r), Ev("removed", r)>> \in Seq(Event)
  BY EventTypes
<1>2. ASSUME NEW s \in Sessions, Request(r, s)
      PROVE  TypeOK'
  <2>1. pipe' \in Seq(Event)
    BY <1>1, <1>2, PipeType DEF Request
  <2> QED BY <1>2, <2>1 DEF Request, TypeOK
<1>3. ASSUME NEW s \in Sessions, RequestApproved(r, s)
      PROVE  TypeOK'
  <2>1. pipe' \in Seq(Event)
    BY <1>1, <1>3, PipeType DEF RequestApproved
  <2> QED BY <1>3, <2>1 DEF RequestApproved, TypeOK, history
<1>4. CASE Prompt(r)
  <2>1. pipe' \in Seq(Event)
    BY <1>1, <1>4, PipeType DEF Prompt
  <2> QED BY <1>4, <2>1 DEF Prompt, TypeOK
<1>5. CASE Resolve(r)
  <2>1. /\ open' \in SUBSET Requests /\ cancels' \in SUBSET Requests
        /\ pipe' \in Seq(Event)
    BY <1>5, EndType DEF Resolve
  <2> QED BY <1>5, <2>1 DEF Resolve, TypeOK, history
<1>6. CASE Cancel(r)
  <2>1. pipe' \in Seq(Event)
    BY <1>1, <1>6, PipeType DEF Cancel
  <2>2. clearing' \in [Sessions -> {None} \cup {<<w>> : w \in SUBSET Requests}]
    <3>1. ASSUME NEW t \in Sessions, clearing[t] # None
          PROVE  <<clearing[t][1] \ {r}>> \in {<<w>> : w \in SUBSET Requests}
      <4>1. PICK w \in SUBSET Requests : clearing[t] = <<w>>
        BY <3>1 DEF TypeOK
      <4>2. clearing[t][1] \ {r} \in SUBSET Requests
        BY <4>1
      <4> QED BY <4>2
    <3> QED BY <1>6, <3>1 DEF Cancel
  <2> QED BY <1>6, <2>1, <2>2 DEF Cancel, TypeOK
<1> QED BY <1>2, <1>3, <1>4, <1>5, <1>6

LEMMA PurgeType ==
    ASSUME TypeOK, Counts, NEW s \in Sessions, Purge(s),
           clearing' \in [Sessions -> {None} \cup {<<w>> : w \in SUBSET Requests}]
    PROVE  TypeOK' /\ Counts'
<1>1. pipe' \in Seq(Event)
  <2>1. <<Ev("cleared", None)>> \in Seq(Event)
    BY EventTypes
  <2> QED BY <2>1, PipeType DEF Purge
<1>2. asked' \in Seq(Fetch) /\ Len(asked') <= MaxAsked
  BY OutdatedType DEF Purge, TypeOK
<1>3. /\ unread' \in [Sessions -> 0..MaxRows] /\ told' \in [Sessions -> 0..MaxRows]
      /\ fresh' \in [Sessions -> 0..MaxRows] /\ Counts'
  BY DashboardAssumption DEF TypeOK, Counts, UnreadIsNew, Purge, AfterClear
<1>4. rows' \in [Sessions -> SUBSET (1..stored')] /\ stored' \in 0..MaxRows
  BY DEF TypeOK, Purge
<1>5. behind' \in BOOLEAN /\ missed' \in SUBSET Requests
  BY DEF TypeOK, Purge, PassesBy
<1>6. UNCHANGED <<open, of, prompts, cancels, sel, stream, shown, cards, busy, ghosts,
                  selects, mishaps>>
  BY DEF Purge
<1> QED BY <1>1, <1>2, <1>3, <1>4, <1>5, <1>6 DEF TypeOK

LEMMA ClearType ==
    ASSUME TypeOK, Counts, NEW s \in Sessions, Clear(s) \/ BeginClear(s) \/ FinishClear(s)
    PROVE  TypeOK' /\ Counts'
<1>1. CASE Clear(s)
  <2>1. clearing' \in [Sessions -> {None} \cup {<<w>> : w \in SUBSET Requests}]
    BY <1>1 DEF Clear, TypeOK
  <2> QED BY <1>1, <2>1, PurgeType DEF Clear
<1>2. CASE BeginClear(s)
  <2>1. OpenOf(s) \in SUBSET Requests
    BY DEF OpenOf, TypeOK
  <2>2. clearing' \in [Sessions -> {None} \cup {<<w>> : w \in SUBSET Requests}]
    BY <1>2, <2>1 DEF BeginClear, TypeOK
  <2> QED BY <1>2, <2>1, <2>2 DEF BeginClear, TypeOK, tab, history, Counts, UnreadIsNew
<1>3. CASE FinishClear(s)
  <2>1. clearing' \in [Sessions -> {None} \cup {<<w>> : w \in SUBSET Requests}]
    BY <1>3 DEF FinishClear, TypeOK
  <2> QED BY <1>3, <2>1, PurgeType DEF FinishClear
<1> QED BY <1>1, <1>2, <1>3

LEMMA LostType ==
    ASSUME TypeOK, NEW kinds
    PROVE  Lost(kinds) \in SUBSET (Requests \cup {None})
<1>1. DOMAIN pipe = 1..Len(pipe) /\ \A i \in 1..Len(pipe) : pipe[i] \in Event
  BY DEF TypeOK
<1>2. \A e \in Event : e.request \in Requests \cup {None}
  BY DEF Event
<1> QED BY <1>1, <1>2 DEF Lost


\* The fetches that stay when number i is answered or fails.
LEMMA AnswerType ==
    ASSUME TypeOK, NEW i \in 1..Len(asked), Answer(i)
    PROVE  /\ asked' \in Seq(Fetch) /\ Len(asked') = Len(asked)
           /\ asked[i].session \in Sessions
           /\ asked'[i].data = <<rows[asked[i].session]>>
           /\ asked'[i].session = asked[i].session
           /\ asked'[i].old = asked[i].old
           /\ \A k \in 1..Len(asked) : k # i => asked'[k] = asked[k]
<1> DEFINE f == [asked[i] EXCEPT !.data = <<rows[asked[i].session]>>]
<1>1. asked \in Seq(Fetch) /\ asked[i] \in Fetch
  BY DEF TypeOK
<1>2. rows[asked[i].session] \in SUBSET (1..MaxRows)
  BY <1>1, DashboardAssumption DEF Fetch, TypeOK
<1>3. /\ f \in Fetch
      /\ f.data = <<rows[asked[i].session]>>
      /\ f.session = asked[i].session /\ f.old = asked[i].old
  BY <1>1, <1>2 DEF Fetch
<1>4. asked' = [asked EXCEPT ![i] = f]
  BY DEF Answer
<1> HIDE DEF f
<1>5. /\ asked' \in Seq(Fetch) /\ Len(asked') = Len(asked)
      /\ \A k \in 1..Len(asked) : asked'[k] = IF k = i THEN f ELSE asked[k]
  BY <1>1, <1>3, <1>4, ExceptSeq
<1> QED BY <1>1, <1>3, <1>5 DEF Fetch

LEMMA ApplyType ==
    ASSUME TypeOK, NEW i \in 1..Len(asked), Apply(i)
    PROVE  /\ asked' \in Seq(Fetch) /\ Len(asked') = Len(asked) - 1
           /\ asked[i].data[1] \in SUBSET (1..MaxRows)
           /\ asked[i].old \in BOOLEAN
           /\ \A k \in 1..(Len(asked) - 1) :
                LET m == IF k < i THEN k ELSE k + 1 IN
                  /\ asked'[k].session = asked[m].session
                  /\ asked'[k].data = asked[m].data
                  /\ asked'[k].old = (asked[m].old \/ m < i)
<1> DEFINE marked == [j \in DOMAIN asked |-> [asked[j] EXCEPT !.old = @ \/ j < i]]
<1>1. /\ asked \in Seq(Fetch) /\ DOMAIN asked = 1..Len(asked) /\ Len(asked) \in Nat
      /\ \A j \in 1..Len(asked) : asked[j] \in Fetch
  BY DEF TypeOK
<1>2. ASSUME NEW j \in 1..Len(asked)
      PROVE  LET f == [asked[j] EXCEPT !.old = @ \/ j < i] IN
               /\ f \in Fetch
               /\ f.session = asked[j].session /\ f.data = asked[j].data
               /\ f.old = (asked[j].old \/ j < i)
  BY <1>1 DEF Fetch
<1>3. /\ marked \in [1..Len(asked) -> Fetch]
      /\ \A j \in 1..Len(asked) : marked[j].session = asked[j].session
                               /\ marked[j].data = asked[j].data
                               /\ marked[j].old = (asked[j].old \/ j < i)
  BY <1>1, <1>2
<1>4. asked' = RemoveAt(marked, i)
  BY DEF Apply
<1> HIDE DEF marked
<1>5. marked \in Seq(Fetch) /\ Len(marked) = Len(asked)
  BY <1>1, <1>3
<1>6. /\ asked' \in Seq(Fetch) /\ Len(asked') = Len(asked) - 1
      /\ \A k \in 1..(Len(asked) - 1) :
           asked'[k] = IF k < i THEN marked[k] ELSE marked[k + 1]
  BY <1>4, <1>5, RemoveAtElements
<1>7. asked[i].data[1] \in SUBSET (1..MaxRows) /\ asked[i].old \in BOOLEAN
  <2>1. asked[i] \in Fetch /\ asked[i].data # None
    BY <1>1 DEF Apply
  <2>2. PICK d \in SUBSET (1..MaxRows) : asked[i].data = <<d>>
    BY <2>1 DEF Fetch
  <2> QED BY <2>1, <2>2 DEF Fetch
<1>8. ASSUME NEW k \in 1..(Len(asked) - 1)
      PROVE  LET m == IF k < i THEN k ELSE k + 1 IN
               /\ asked'[k].session = asked[m].session
               /\ asked'[k].data = asked[m].data
               /\ asked'[k].old = (asked[m].old \/ m < i)
  <2>1. CASE k < i
    BY <1>1, <1>3, <1>6, <2>1
  <2>2. CASE ~(k < i)
    <3>1. k + 1 \in 1..Len(asked)
      BY <1>1
    <3> QED BY <1>1, <1>3, <1>6, <2>2, <3>1
  <2> QED BY <2>1, <2>2
<1> QED BY <1>6, <1>7, <1>8

LEMMA FetchFailsType ==
    ASSUME TypeOK, NEW i \in 1..Len(asked), FetchFails(i)
    PROVE  /\ asked' \in Seq(Fetch) /\ Len(asked') = Len(asked) - 1
           /\ \A k \in 1..(Len(asked) - 1) :
                LET m == IF k < i THEN k ELSE k + 1 IN
                  /\ asked'[k].session = asked[m].session
                  /\ asked'[k].data = asked[m].data
                  /\ asked'[k].old = (asked[m].old \/ asked[m].data # None)
<1>1. Outdated \in Seq(Fetch) /\ Len(Outdated) = Len(asked) /\ Len(asked) \in Nat
  BY OutdatedType DEF TypeOK
<1>2. asked' = RemoveAt(Outdated, i)
  BY DEF FetchFails
<1>3. /\ asked' \in Seq(Fetch) /\ Len(asked') = Len(asked) - 1
      /\ \A k \in 1..(Len(asked) - 1) :
           asked'[k] = IF k < i THEN Outdated[k] ELSE Outdated[k + 1]
  BY <1>1, <1>2, RemoveAtElements
<1>4. ASSUME NEW k \in 1..(Len(asked) - 1)
      PROVE  LET m == IF k < i THEN k ELSE k + 1 IN
               /\ asked'[k].session = asked[m].session
               /\ asked'[k].data = asked[m].data
               /\ asked'[k].old = (asked[m].old \/ asked[m].data # None)
  <2>1. k + 1 \in 1..Len(asked) /\ k \in 1..Len(asked)
    BY <1>1
  <2> QED BY <1>3, <2>1, OutdatedType
<1> QED BY <1>3, <1>4

LEMMA HandleType ==
    ASSUME TypeOK, sel \in Sessions, Handle
    PROVE  TypeOK'
<1>1. pipe # <<>> /\ pipe' = Tail(pipe) /\ pipe' \in Seq(Event) /\ Head(pipe) \in Event
  BY DEF Handle, TypeOK
<1>2. asked' \in Seq(Fetch) /\ Len(asked') <= MaxAsked
  <2>1. CASE Refreshes(Head(pipe))
    <3>1. Len(asked) < MaxAsked /\ asked' = Append(asked, Ask(sel))
      BY <2>1 DEF Handle
    <3> QED BY <3>1, AskType, DashboardAssumption DEF TypeOK
  <2>2. CASE ~Refreshes(Head(pipe))
    BY <2>2 DEF Handle, TypeOK
  <2> QED BY <2>1, <2>2
<1>3. shown' \in SUBSET (1..MaxRows)
  BY DEF Handle, MessagesAfter, TypeOK
<1>4. cards' \in SUBSET Requests
  <2>1. cards' = CardsAfter(Head(pipe))
    BY DEF Handle
  <2>2. \/ Head(pipe).kind \in {"message", "cleared"}
        \/ Head(pipe).kind \in {"requested", "removed"} /\ Head(pipe).request \in Requests
    BY <1>1, EventTypes
  <2>3. cards \in SUBSET Requests
    BY DEF TypeOK
  <2> QED BY <2>1, <2>2, <2>3 DEF CardsAfter
<1>5. behind' \in BOOLEAN
  BY DEF Handle, TypeOK
<1>6. UNCHANGED <<server, sel, stream, busy, missed, ghosts, selects, mishaps>>
  BY DEF Handle
<1> QED BY <1>1, <1>2, <1>3, <1>4, <1>5, <1>6 DEF TypeOK, server

\* Only a stream that is up holds events, and only a panel that is open has one,
\* or fetches in flight.
Streams ==
    /\ stream # "up" => pipe = <<>>
    /\ stream = "closed" <=> sel = None
    /\ sel = None => asked = <<>>

LEMMA PanelType ==
    ASSUME TypeOK, Counts, Streams,
           \/ \E s \in Sessions : Select(s) \/ Preview(s)
           \/ Close \/ Subscribe \/ Handle \/ Sent
           \/ \E i \in DOMAIN asked : Answer(i) \/ Apply(i)
           \/ \E r \in Requests : Decide(r) \/ Decided(r)
    PROVE  TypeOK' /\ Counts'
<1>1. /\ DOMAIN asked = 1..Len(asked) /\ Len(asked) \in Nat
      /\ <<>> \in Seq(Event) /\ <<>> \in Seq(Fetch) /\ Len(<<>>) = 0
  BY DEF TypeOK
<1>2. ASSUME NEW s \in Sessions, Select(s)
      PROVE  TypeOK' /\ Counts'
  <2>1. asked' \in Seq(Fetch) /\ Len(asked') <= MaxAsked
    BY <1>2, AskType, DashboardAssumption DEF Select, TypeOK
  <2>2. Counts' /\ UNCHANGED <<server, busy, ghosts, mishaps>>
    BY <1>2 DEF Counts, UnreadIsNew, Select, server
  <2>3. /\ selects' \in 0..MaxSelects /\ sel' \in Sessions /\ stream' = "opening"
        /\ pipe' = <<>> /\ shown' = {} /\ cards' = {} /\ behind' = FALSE
        /\ missed' \in SUBSET Requests
    BY <1>2, DashboardAssumption DEF Select, TypeOK
  <2> QED BY <1>1, <2>1, <2>2, <2>3 DEF TypeOK, server
<1>3. ASSUME NEW s \in Sessions, Preview(s)
      PROVE  TypeOK' /\ Counts'
  <2>1. /\ unread' \in [Sessions -> 0..MaxRows] /\ told' \in [Sessions -> 0..MaxRows]
        /\ fresh' \in [Sessions -> 0..MaxRows]
        /\ Counts'
    BY <1>3, ReadCounts DEF Preview
  <2> QED BY <1>3, <2>1 DEF Preview, TypeOK, tab, history
<1>4. CASE Close
  <2>1. Counts' /\ UNCHANGED <<server, history>>
    BY <1>4 DEF Counts, UnreadIsNew, Close, server
  <2>2. /\ sel' = None /\ stream' = "closed" /\ pipe' = <<>> /\ asked' = <<>>
        /\ shown' = {} /\ cards' = {} /\ busy' = {}
    BY <1>4 DEF Close
  <2> QED BY <1>1, <2>1, <2>2, DashboardAssumption DEF TypeOK, server, history
<1>5. CASE Subscribe
  BY <1>5 DEF Subscribe, Counts, UnreadIsNew, TypeOK, server, history
<1>6. CASE Handle
  <2>1. sel \in Sessions
    BY <1>6 DEF Streams, TypeOK, Handle
  <2>2. Counts'
    BY <1>6 DEF Counts, UnreadIsNew, Handle, server
  <2> QED BY <1>6, <2>1, <2>2, HandleType
<1>7. CASE Sent
  <2>1. sel \in Sessions /\ asked' = Append(asked, Ask(sel)) /\ Len(asked) < MaxAsked
    BY <1>7 DEF Sent, TypeOK
  <2>2. asked' \in Seq(Fetch) /\ Len(asked') <= MaxAsked
    BY <1>1, <2>1, AskType, DashboardAssumption
  <2>3. UNCHANGED <<server, sel, stream, pipe, shown, cards, busy, history>>
    BY <1>7 DEF Sent
  <2> QED BY <2>2, <2>3 DEF TypeOK, server, history, Counts, UnreadIsNew
<1>8. ASSUME NEW i \in DOMAIN asked, Answer(i)
      PROVE  TypeOK' /\ Counts'
  <2>1. /\ asked' \in Seq(Fetch) /\ Len(asked') = Len(asked)
        /\ asked[i].session \in Sessions
    BY <1>1, <1>8, AnswerType
  <2>2. Read(asked[i].session) /\ UNCHANGED stored
    BY <1>8 DEF Answer
  <2>3. /\ unread' \in [Sessions -> 0..MaxRows] /\ told' \in [Sessions -> 0..MaxRows]
        /\ fresh' \in [Sessions -> 0..MaxRows]
        /\ Counts'
    BY <2>1, <2>2, ReadCounts
  <2>4. UNCHANGED <<rows, stored, open, of, prompts, cancels, clearing, sel, stream, pipe,
                    shown, cards, busy, history>>
    BY <1>8 DEF Answer
  <2> QED BY <2>1, <2>3, <2>4 DEF TypeOK, history
<1>9. ASSUME NEW i \in DOMAIN asked, Apply(i)
      PROVE  TypeOK' /\ Counts'
  <2>1. /\ asked' \in Seq(Fetch) /\ Len(asked') = Len(asked) - 1
        /\ shown' \in SUBSET (1..MaxRows) /\ behind' \in BOOLEAN
    <3>1. shown' = asked[i].data[1] /\ behind' = (asked[i].old \/ asked[i].session # sel)
      BY <1>9 DEF Apply
    <3> QED BY <1>1, <1>9, <3>1, ApplyType
  <2>2. Len(asked') <= MaxAsked
    BY <1>1, <2>1, DashboardAssumption DEF TypeOK
  <2>3. UNCHANGED <<server, sel, stream, pipe, cards, busy, missed, ghosts, selects, mishaps>>
    BY <1>9 DEF Apply
  <2> QED BY <2>1, <2>2, <2>3 DEF TypeOK, server, Counts, UnreadIsNew
<1>10. ASSUME NEW r \in Requests, Decide(r)
       PROVE  TypeOK' /\ Counts'
  <2>1. /\ open' \in SUBSET Requests /\ cancels' \in SUBSET Requests
        /\ pipe' \in Seq(Event)
    BY <1>10, EndType DEF Decide
  <2>2. busy' \in SUBSET Requests
    BY <1>10 DEF Decide, TypeOK
  <2>3. UNCHANGED <<rows, stored, unread, told, of, prompts, clearing, fresh, sel, stream, shown,
                    cards, asked, history>>
    BY <1>10 DEF Decide
  <2> QED BY <2>1, <2>2, <2>3 DEF TypeOK, history, Counts, UnreadIsNew
<1>11. ASSUME NEW r \in Requests, Decided(r)
       PROVE  TypeOK' /\ Counts'
  BY <1>11 DEF Decided, TypeOK, server, history, Counts, UnreadIsNew
<1> QED BY <1>2, <1>3, <1>4, <1>5, <1>6, <1>7, <1>8, <1>9, <1>10, <1>11

LEMMA MishapType ==
    ASSUME TypeOK, Counts, Mishaps
    PROVE  TypeOK' /\ Counts'
<1>1. /\ DOMAIN asked = 1..Len(asked) /\ Len(asked) \in Nat
      /\ <<>> \in Seq(Event) /\ <<>> \in Seq(Fetch) /\ Len(<<>>) = 0
  BY DEF TypeOK
<1>2. mishaps' \in 0..MaxMishaps
  <2>1. Mishap
    BY DEF Mishaps, Disconnect, Restart, FetchFails, DecisionFails
  <2> QED BY <2>1, DashboardAssumption DEF Mishap, TypeOK
<1>3. CASE Disconnect
  <2>1. asked' \in Seq(Fetch) /\ Len(asked') <= MaxAsked
    BY <1>3, OutdatedType DEF Disconnect, TypeOK
  <2>2. behind' \in BOOLEAN /\ missed' \in SUBSET Requests
    BY <1>3, LostType DEF Disconnect, TypeOK
  <2>3. ghosts' \in SUBSET Requests
    <3>1. DOMAIN pipe = 1..Len(pipe) /\ \A i \in 1..Len(pipe) : pipe[i] \in Event
      BY DEF TypeOK
    <3>2. Lost({"removed"}) \in SUBSET Requests
      BY <3>1, EventTypes DEF Lost
    <3> QED BY <1>3, <3>2 DEF Disconnect, TypeOK
  <2>4. /\ stream' = "opening" /\ pipe' = <<>>
        /\ UNCHANGED <<server, sel, shown, cards, busy, selects>>
    BY <1>3 DEF Disconnect
  <2> QED BY <1>1, <1>2, <2>1, <2>2, <2>3, <2>4 DEF TypeOK, server, Counts, UnreadIsNew
<1>4. CASE Restart
  <2>1. /\ open' = {} /\ prompts' = {} /\ cancels' = {} /\ pipe' = <<>> /\ asked' = <<>>
        /\ busy' = {} /\ clearing' = [s \in Sessions |-> None]
        /\ told' = [s \in Sessions |-> 0] /\ stream' \in {"closed", "opening"}
        /\ UNCHANGED <<rows, stored, unread, of, fresh, sel, shown, cards, missed, selects>>
    BY <1>4 DEF Restart
  <2>2. behind' \in BOOLEAN /\ ghosts' \in SUBSET Requests
    BY <1>4 DEF Restart, TypeOK
  <2>3. told' \in [Sessions -> 0..MaxRows]
    BY <2>1, DashboardAssumption
  <2>4. Counts'
    BY <2>1 DEF Counts, UnreadIsNew
  <2> QED BY <1>1, <1>2, <2>1, <2>2, <2>3, <2>4, DashboardAssumption DEF TypeOK
<1>5. ASSUME NEW i \in DOMAIN asked, FetchFails(i)
      PROVE  TypeOK' /\ Counts'
  <2>1. asked' \in Seq(Fetch) /\ Len(asked') = Len(asked) - 1
    BY <1>1, <1>5, FetchFailsType
  <2>2. Len(asked') <= MaxAsked
    BY <1>1, <2>1, DashboardAssumption DEF TypeOK
  <2>3. /\ behind' \in BOOLEAN
        /\ UNCHANGED <<server, sel, stream, pipe, shown, cards, busy, missed, ghosts, selects>>
    BY <1>5 DEF FetchFails, TypeOK
  <2> QED BY <1>2, <2>1, <2>2, <2>3 DEF TypeOK, server, Counts, UnreadIsNew
<1>6. ASSUME NEW r \in Requests, DecisionFails(r)
      PROVE  TypeOK' /\ Counts'
  BY <1>2, <1>6 DEF DecisionFails, TypeOK, server, Counts, UnreadIsNew
<1> QED BY <1>3, <1>4, <1>5, <1>6 DEF Mishaps

LEMMA NextType ==
    ASSUME TypeOK, Counts, Streams, [Next]_vars
    PROVE  TypeOK' /\ Counts'
<1>1. CASE Daemon
  <2>1. ASSUME NEW s \in Sessions, Inbound(s) \/ OwnInbound(s) \/ Outbound(s)
        PROVE  TypeOK' /\ Counts'
    <3>1. /\ 1 \in 1..2 /\ TRUE \in BOOLEAN /\ FALSE \in BOOLEAN
      OBVIOUS
    <3>2. CASE Inbound(s)
      BY <3>1, <3>2, PersistType DEF Inbound
    <3>3. CASE OwnInbound(s)
      BY <3>1, <3>3, PersistType DEF OwnInbound
    <3>4. CASE Outbound(s)
      BY <3>1, <3>4, PersistType DEF Outbound
    <3> QED BY <2>1, <3>2, <3>3, <3>4
  <2>2. ASSUME NEW r \in Requests,
               \/ \E s \in Sessions : Request(r, s) \/ RequestApproved(r, s)
               \/ Prompt(r) \/ Resolve(r) \/ Cancel(r)
        PROVE  TypeOK' /\ Counts'
    <3>1. Counts'
      BY <2>2 DEF Request, RequestApproved, Prompt, Resolve, Cancel, Counts, UnreadIsNew
    <3> QED BY <2>2, <3>1, PermissionType
  <2> QED BY <1>1, <2>1, <2>2, ClearType DEF Daemon
<1>2. CASE Tab
  BY <1>2, PanelType DEF Tab
<1>3. CASE Mishaps
  BY <1>3, MishapType
<1>4. CASE UNCHANGED vars
  BY <1>4 DEF vars, server, tab, history, TypeOK, Counts, UnreadIsNew
<1> QED BY <1>1, <1>2, <1>3, <1>4 DEF Next

LEMMA NextStreams ==
    ASSUME TypeOK, Streams, [Next]_vars
    PROVE  Streams'
<1>1. sel \in Sessions \cup {None} /\ stream \in {"closed", "opening", "up"}
      /\ DOMAIN asked = 1..Len(asked)
  BY DEF TypeOK
<1>2. CASE Daemon
  <2>1. UNCHANGED <<sel, stream>> /\ (stream # "up" => pipe' = pipe) /\ (sel = None => asked' = asked)
    BY <1>2, DashboardAssumption
       DEF Daemon, Inbound, OwnInbound, Outbound, Persist, PassesBy, Clear, BeginClear, FinishClear, Purge,
           Request, RequestApproved, Prompt, Resolve, Cancel, End, Published, Broadcast, Heard,
           tab
  <2> QED BY <2>1 DEF Streams
<1>3. ASSUME NEW s \in Sessions, Select(s)
      PROVE  Streams'
  BY <1>3, DashboardAssumption DEF Select, Streams
<1>4. ASSUME \/ Handle \/ Sent
             \/ \E i \in DOMAIN asked : Answer(i) \/ Apply(i)
             \/ \E i \in DOMAIN asked : FetchFails(i)
      PROVE  Streams'
  <2>1. UNCHANGED <<sel, stream>> /\ (stream # "up" => pipe' = pipe)
    BY <1>4 DEF Handle, Sent, Answer, Apply, FetchFails, Streams
  <2>2. sel # None
    <3>1. pipe # <<>> => sel # None
      BY DEF Streams
    <3>2. asked # <<>> => sel # None
      BY DEF Streams
    <3>3. \A i \in DOMAIN asked : asked # <<>>
      BY DEF TypeOK
    <3> QED BY <1>4, <3>1, <3>2, <3>3 DEF Handle, Sent
  <2> QED BY <2>1, <2>2 DEF Streams
<1>5. ASSUME \/ \E s \in Sessions : Preview(s)
             \/ Close \/ Subscribe
             \/ \E r \in Requests : Decide(r) \/ Decided(r) \/ DecisionFails(r)
             \/ UNCHANGED vars
      PROVE  Streams'
  BY <1>1, <1>5 DEF Streams, Preview, Close, Subscribe, Decide, Decided, DecisionFails, End,
                    Published, Heard, vars, tab, history
<1>6. CASE Disconnect
  <2>1. asked = <<>> => asked' = <<>>
    BY <1>6, OutdatedType DEF Disconnect, TypeOK
  <2> QED BY <1>6, <2>1 DEF Disconnect, Streams
<1>7. CASE Restart
  BY <1>7 DEF Restart, Streams
<1> QED BY <1>2, <1>3, <1>4, <1>5, <1>6, <1>7 DEF Next, Tab, Mishaps

-----------------------------------------------------------------------------
(* What the panel shows                                                    *)

\* q holds an event of these kinds.
Has(q, kinds) == \E p \in 1..Len(q) : q[p].kind \in kinds

\* An open panel that has missed nothing shows the rows, or will be told to.
ShownOrComing ==
    sel # None /\ ~behind =>
      \/ shown = rows[sel]
      \/ Has(pipe, {"message", "cleared"})
      \/ \E i \in 1..Len(asked) : asked[i].session = sel

\* An answer that is not outdated is what the database says, or another fetch
\* comes after it.
AnswersAreRows ==
    \A i \in 1..Len(asked) :
      asked[i].data # None /\ asked[i].session = sel /\ ~asked[i].old =>
        \/ asked[i].data[1] = rows[sel]
        \/ Has(pipe, {"message"})
        \/ \E j \in 1..Len(asked) : j > i /\ asked[j].session = sel

\* A session whose clear is announced has no rows, or more is announced.
ClearsArePurges ==
    \A p \in 1..Len(pipe) :
      pipe[p].kind = "cleared" =>
        \/ rows[sel] = {}
        \/ \E q \in 1..Len(pipe) : q > p /\ pipe[q].kind \in {"message", "cleared"}

Panel == ShownOrComing /\ AnswersAreRows /\ ClearsArePurges

\* Events that are added lose none; a handled event was the first.
LEMMA HasJoined ==
    ASSUME NEW q \in Seq(Event), NEW ev \in Seq(Event), NEW kinds
    PROVE  /\ Has(q, kinds) => Has(q \o ev, kinds)
           /\ Has(ev, kinds) => Has(q \o ev, kinds)
<1>1. Len(q) \in Nat /\ Len(ev) \in Nat
  OBVIOUS
<1>2. ASSUME NEW p \in 1..Len(q)
      PROVE  p \in 1..Len(q \o ev) /\ (q \o ev)[p] = q[p]
  BY <1>1, Joined
<1>3. ASSUME NEW p \in 1..Len(ev)
      PROVE  Len(q) + p \in 1..Len(q \o ev) /\ (q \o ev)[Len(q) + p] = ev[p]
  BY <1>1, Joined
<1> QED BY <1>2, <1>3 DEF Has

LEMMA HasTail ==
    ASSUME NEW q \in Seq(Event), q # <<>>, NEW kinds, Has(q, kinds), Head(q).kind \notin kinds
    PROVE  Has(Tail(q), kinds)
<1>1. PICK p \in 1..Len(q) : q[p].kind \in kinds
  BY DEF Has
<1>2. p # 1
  BY <1>1, TailElements
<1>3. p - 1 \in 1..Len(Tail(q)) /\ Tail(q)[p - 1] = q[(p - 1) + 1] /\ (p - 1) + 1 = p
  BY <1>2, TailElements
<1> QED BY <1>1, <1>3 DEF Has

\* A step that leaves the panel, its fetches and its rows alone, whatever it
\* announces beside a clear.
LEMMA QuietPanel ==
    ASSUME TypeOK, Streams, Panel, UNCHANGED <<sel, shown, asked, behind>>,
           sel # None => rows'[sel] = rows[sel],
           NEW ev \in Seq(Event), pipe' = pipe \o ev, ~Has(ev, {"cleared"})
    PROVE  Panel'
<1>1. pipe \in Seq(Event) /\ Len(pipe) \in Nat /\ Len(ev) \in Nat
  BY DEF TypeOK
<1>2. \A kinds : Has(pipe, kinds) => Has(pipe', kinds)
  BY <1>1, HasJoined
<1>3. ShownOrComing'
  BY <1>2 DEF Panel, ShownOrComing
<1>4. AnswersAreRows'
  <2>1. 1..Len(asked) # {} => sel # None
    BY DEF TypeOK, Streams
  <2> QED BY <1>2, <2>1 DEF Panel, AnswersAreRows
<1>5. ClearsArePurges'
  <2> SUFFICES ASSUME NEW p \in 1..Len(pipe'), pipe'[p].kind = "cleared"
               PROVE  \/ rows'[sel'] = {}
                      \/ \E q \in 1..Len(pipe') :
                           q > p /\ pipe'[q].kind \in {"message", "cleared"}
    BY DEF ClearsArePurges
  <2>1. /\ Len(pipe') = Len(pipe) + Len(ev)
        /\ \A k \in 1..Len(pipe) : pipe'[k] = pipe[k]
        /\ \A k \in 1..Len(ev) : pipe'[Len(pipe) + k] = ev[k]
    BY <1>1, Joined
  <2>2. p \in 1..Len(pipe)
    <3>1. ASSUME p \notin 1..Len(pipe)
          PROVE  FALSE
      <4>1. p - Len(pipe) \in 1..Len(ev) /\ Len(pipe) + (p - Len(pipe)) = p
        BY <1>1, <2>1, <3>1
      <4>2. pipe'[p] = ev[p - Len(pipe)]
        BY <2>1, <4>1
      <4> QED BY <4>1, <4>2 DEF Has
    <3> QED BY <3>1
  <2>3. sel # None
    BY <1>1, <2>2 DEF Streams
  <2>4. pipe[p].kind = "cleared"
    BY <2>1, <2>2
  <2>5. CASE rows[sel] = {}
    BY <2>3, <2>5
  <2>6. ASSUME NEW q \in 1..Len(pipe), q > p, pipe[q].kind \in {"message", "cleared"}
        PROVE  \E k \in 1..Len(pipe') : k > p /\ pipe'[k].kind \in {"message", "cleared"}
    BY <1>1, <2>1, <2>6
  <2> QED BY <2>2, <2>4, <2>5, <2>6 DEF Panel, ClearsArePurges
<1> QED BY <1>3, <1>4, <1>5 DEF Panel

LEMMA UnchangedIsQuiet ==
    ASSUME TypeOK, UNCHANGED pipe
    PROVE  pipe' = pipe \o <<>> /\ <<>> \in Seq(Event) /\ \A kinds : ~Has(<<>>, kinds)
BY DEF TypeOK, Has


\* Once every answer is outdated there is nothing to say about answers.
LEMMA AllOutdated ==
    ASSUME TypeOK, asked' = Outdated
    PROVE  /\ AnswersAreRows'
           /\ Len(asked') = Len(asked)
           /\ \A i \in 1..Len(asked) : asked'[i].session = asked[i].session
BY OutdatedType DEF AnswersAreRows

\* A panel whose stream is down is passed by.
LEMMA PassedByPanel ==
    ASSUME TypeOK, behind', pipe' = <<>>, asked' = Outdated
    PROVE  Panel'
BY AllOutdated DEF Panel, ShownOrComing, ClearsArePurges

LEMMA PersistPanel ==
    ASSUME TypeOK, Streams, Panel, NEW s \in Sessions, NEW n \in 1..2, NEW elsewhere \in BOOLEAN,
           NEW events \in 1..2, Persist(s, n, elsewhere, events)
    PROVE  Panel'
<1> DEFINE ev == [i \in 1..events |-> Message]
<1>1. /\ ev \in Seq(Event) /\ Len(ev) = events
      /\ \A k \in 1..events : ev[k] = Message
  <2>1. ev \in [1..events -> Event]
    BY EventTypes
  <2> QED BY <2>1
<1>2. pipe' = IF Heard(s) THEN pipe \o ev ELSE pipe
  BY DEF Persist, Published
<1> HIDE DEF ev
<1>3. ~Has(ev, {"cleared"}) /\ Has(ev, {"message"}) /\ Has(ev, {"message", "cleared"})
  <2>1. ev[1].kind = "message" /\ 1 \in 1..events
    BY <1>1, EventTypes
  <2>2. \A k \in 1..Len(ev) : ev[k].kind # "cleared"
    BY <1>1, EventTypes
  <2> QED BY <1>1, <2>1, <2>2 DEF Has
<1>4. CASE PassesBy(s)
  <2>1. behind' /\ asked' = Outdated
    BY <1>4 DEF Persist
  <2>2. pipe' = <<>>
    BY <1>2, <1>4 DEF PassesBy, Heard, Streams
  <2> QED BY <2>1, <2>2, PassedByPanel
<1>5. CASE ~PassesBy(s)
  <2>1. UNCHANGED <<sel, shown, asked, behind>>
    BY <1>5 DEF Persist, TypeOK
  <2>2. CASE Heard(s)
    <3>1. pipe' = pipe \o ev /\ pipe \in Seq(Event)
      BY <1>2, <2>2 DEF TypeOK
    <3>2. Has(pipe', {"message"}) /\ Has(pipe', {"message", "cleared"})
      BY <1>1, <1>3, <3>1, HasJoined
    <3>3. ShownOrComing' /\ AnswersAreRows'
      BY <3>2 DEF ShownOrComing, AnswersAreRows
    <3>4. ClearsArePurges'
      <4>1. /\ Len(pipe') = Len(pipe) + events /\ Len(pipe) \in Nat
            /\ pipe'[Len(pipe')] = Message
        <5>1. /\ Len(pipe') = Len(pipe) + Len(ev) /\ Len(pipe) \in Nat
              /\ \A k \in 1..Len(ev) : pipe'[Len(pipe) + k] = ev[k]
          BY <1>1, <3>1, Joined
        <5> QED BY <1>1, <5>1
      <4>2. \A p \in 1..Len(pipe') : pipe'[p].kind = "cleared" => p # Len(pipe')
        BY <4>1, EventTypes
      <4>3. Len(pipe') \in 1..Len(pipe') /\ pipe'[Len(pipe')].kind = "message"
        BY <4>1, EventTypes
      <4>4. \A p \in 1..Len(pipe') : p # Len(pipe') => Len(pipe') > p
        BY <4>1
      <4> QED BY <4>2, <4>3, <4>4 DEF ClearsArePurges
    <3> QED BY <3>3, <3>4 DEF Panel
  <2>3. CASE ~Heard(s)
    <3>1. sel # s
      BY <1>5, <2>3 DEF Heard, PassesBy
    <3>2. sel # None => rows'[sel] = rows[sel]
      BY <3>1 DEF Persist, TypeOK
    <3>3. UNCHANGED pipe
      BY <1>2, <2>3
    <3> QED BY <2>1, <3>2, <3>3, UnchangedIsQuiet, QuietPanel
  <2> QED BY <2>2, <2>3
<1> QED BY <1>4, <1>5

LEMMA PurgePanel ==
    ASSUME TypeOK, Streams, Panel, NEW s \in Sessions, Purge(s)
    PROVE  Panel'
<1>1. CASE PassesBy(s)
  <2>1. behind' /\ asked' = Outdated
    BY <1>1 DEF Purge, PassesBy
  <2>2. pipe' = <<>>
    BY <1>1 DEF PassesBy, Published, Purge, Heard, Streams
  <2> QED BY <2>1, <2>2, PassedByPanel
<1>2. CASE Heard(s)
  <2>1. /\ pipe' = pipe \o <<Ev("cleared", None)>> /\ pipe \in Seq(Event)
        /\ <<Ev("cleared", None)>> \in Seq(Event)
        /\ asked' = Outdated
    BY <1>2, EventTypes DEF Purge, Published, Heard, TypeOK
  <2>2. /\ Len(pipe') = Len(pipe) + 1 /\ Len(pipe) \in Nat
        /\ pipe'[Len(pipe) + 1].kind = "cleared"
    <3>1. /\ Len(<<Ev("cleared", None)>>) = 1 /\ <<Ev("cleared", None)>>[1].kind = "cleared"
      BY EventTypes
    <3> QED BY <2>1, <3>1, Joined
  <2>3. Has(pipe', {"message", "cleared"})
    BY <2>2 DEF Has
  <2>4. ShownOrComing' /\ AnswersAreRows'
    BY <2>1, <2>3, AllOutdated DEF ShownOrComing
  <2>5. ClearsArePurges'
    <3>1. rows'[sel'] = {}
      BY <1>2 DEF Purge, Heard, TypeOK
    <3> QED BY <3>1 DEF ClearsArePurges
  <2> QED BY <2>4, <2>5 DEF Panel
<1>3. CASE sel # s
  <2>1. UNCHANGED <<sel, shown, asked, behind, pipe>>
    BY <1>3 DEF Purge, PassesBy, Published, Heard, TypeOK
  <2>2. sel # None => rows'[sel] = rows[sel]
    BY <1>3 DEF Purge, TypeOK
  <2> QED BY <2>1, <2>2, UnchangedIsQuiet, QuietPanel
<1> QED BY <1>1, <1>2, <1>3 DEF PassesBy, Heard

\* The steps of requests and their cards announce no clear and no message.
LEMMA RequestPanel ==
    ASSUME TypeOK, Streams, Panel,
           \/ \E r \in Requests, s \in Sessions : Request(r, s) \/ RequestApproved(r, s)
           \/ \E r \in Requests : Prompt(r) \/ Resolve(r) \/ Cancel(r) \/ Decide(r)
    PROVE  Panel'
<1>1. /\ UNCHANGED <<rows, sel, shown, asked, behind>>
      /\ \/ UNCHANGED pipe
         \/ \E r \in Requests :
              \/ pipe' = pipe \o <<Ev("requested", r)>>
              \/ pipe' = pipe \o <<Ev("removed", r)>>
              \/ pipe' = pipe \o <<Ev("requested", r), Ev("removed", r)>>
  BY DEF Request, RequestApproved, Prompt, Resolve, Cancel, Decide, End, Published, Broadcast, history
<1>2. ASSUME NEW r \in Requests
      PROVE  /\ <<Ev("requested", r)>> \in Seq(Event) /\ ~Has(<<Ev("requested", r)>>, {"cleared"})
             /\ <<Ev("removed", r)>> \in Seq(Event) /\ ~Has(<<Ev("removed", r)>>, {"cleared"})
             /\ <<Ev("requested", r), Ev("removed", r)>> \in Seq(Event)
             /\ ~Has(<<Ev("requested", r), Ev("removed", r)>>, {"cleared"})
  BY EventTypes DEF Has
<1>3. CASE UNCHANGED pipe
  BY <1>1, <1>3, UnchangedIsQuiet, QuietPanel
<1>4. ASSUME NEW r \in Requests,
             \/ pipe' = pipe \o <<Ev("requested", r)>>
             \/ pipe' = pipe \o <<Ev("removed", r)>>
             \/ pipe' = pipe \o <<Ev("requested", r), Ev("removed", r)>>
      PROVE  Panel'
  BY <1>1, <1>2, <1>4, QuietPanel
<1> QED BY <1>1, <1>3, <1>4

LEMMA AskPanel ==
    ASSUME TypeOK, Panel, NEW s \in Sessions, sel' = s,
           asked' = Append(asked, Ask(s)), UNCHANGED rows
    PROVE  ShownOrComing' /\ AnswersAreRows'
<1>1. /\ Len(asked') = Len(asked) + 1 /\ Len(asked) \in Nat
      /\ asked'[Len(asked) + 1] = Ask(s)
      /\ Ask(s).session = s /\ Ask(s).data = None
  BY AskType DEF Ask, TypeOK
<1>2. ShownOrComing'
  BY <1>1 DEF ShownOrComing
<1>3. AnswersAreRows'
  <2>1. ASSUME NEW i \in 1..Len(asked'), asked'[i].data # None
        PROVE  \E j \in 1..Len(asked') : j > i /\ asked'[j].session = sel'
    BY <1>1, <2>1
  <2> QED BY <2>1 DEF AnswersAreRows
<1> QED BY <1>2, <1>3

LEMMA HandlePanel ==
    ASSUME TypeOK, Streams, Panel, Handle
    PROVE  Panel'
<1> DEFINE e == Head(pipe)
<1>1. /\ pipe \in Seq(Event) /\ pipe # <<>> /\ pipe' = Tail(pipe) /\ sel \in Sessions
      /\ e = pipe[1] /\ e \in Event
      /\ UNCHANGED <<rows, sel>>
  BY TailElements DEF Handle, TypeOK, Streams, server
<1>2. /\ Len(pipe) \in Nat \ {0} /\ Len(pipe') = Len(pipe) - 1
      /\ \A k \in 1..(Len(pipe) - 1) : pipe'[k] = pipe[k + 1]
  BY <1>1, TailElements
<1>3. ClearsArePurges'
  <2> SUFFICES ASSUME NEW p \in 1..Len(pipe'), pipe'[p].kind = "cleared"
               PROVE  \/ rows'[sel'] = {}
                      \/ \E q \in 1..Len(pipe') :
                           q > p /\ pipe'[q].kind \in {"message", "cleared"}
    BY DEF ClearsArePurges
  <2>1. p + 1 \in 1..Len(pipe) /\ pipe[p + 1].kind = "cleared"
    BY <1>2
  <2>2. ASSUME NEW q \in 1..Len(pipe), q > p + 1, pipe[q].kind \in {"message", "cleared"}
        PROVE  \E k \in 1..Len(pipe') : k > p /\ pipe'[k].kind \in {"message", "cleared"}
    <3>1. q - 1 \in 1..Len(pipe') /\ q - 1 > p /\ pipe'[q - 1] = pipe[(q - 1) + 1] /\ (q - 1) + 1 = q
      BY <1>2, <2>2
    <3> QED BY <2>2, <3>1
  <2> QED BY <1>1, <2>1, <2>2 DEF Panel, ClearsArePurges
<1>4. CASE e.kind = "message"
  <2>1. asked' = Append(asked, Ask(sel))
    BY <1>4 DEF Handle, Refreshes
  <2> QED BY <1>1, <1>3, <2>1, AskPanel DEF Panel
<1>5. CASE e.kind # "message"
  <2>1. UNCHANGED asked
    BY <1>5 DEF Handle, Refreshes
  <2>2. Has(pipe, {"message"}) => Has(pipe', {"message"})
    BY <1>1, <1>5, HasTail
  <2>3. AnswersAreRows'
    BY <1>1, <2>1, <2>2 DEF Panel, AnswersAreRows
  <2>4. CASE e.kind = "cleared"
    <3>1. shown' = {}
      BY <2>4 DEF Handle, MessagesAfter
    <3>2. rows[sel] = {} \/ Has(pipe', {"message", "cleared"})
      <4>1. ASSUME NEW q \in 1..Len(pipe), q > 1, pipe[q].kind \in {"message", "cleared"}
            PROVE  Has(pipe', {"message", "cleared"})
        <5>1. q - 1 \in 1..Len(pipe') /\ pipe'[q - 1] = pipe[(q - 1) + 1] /\ (q - 1) + 1 = q
          BY <1>2, <4>1
        <5> QED BY <4>1, <5>1 DEF Has
      <4>2. 1 \in 1..Len(pipe) /\ pipe[1].kind = "cleared"
        BY <1>1, <1>2, <2>4
      <4> QED BY <4>1, <4>2 DEF Panel, ClearsArePurges
    <3>3. ShownOrComing'
      BY <1>1, <3>1, <3>2 DEF ShownOrComing
    <3> QED BY <1>3, <2>3, <3>3 DEF Panel
  <2>5. CASE e.kind # "cleared"
    <3>1. shown' = shown /\ behind' = behind
      BY <2>5 DEF Handle, MessagesAfter, TypeOK
    <3>2. Has(pipe, {"message", "cleared"}) => Has(pipe', {"message", "cleared"})
      BY <1>1, <1>5, <2>5, HasTail
    <3>3. ShownOrComing'
      BY <1>1, <2>1, <3>1, <3>2 DEF Panel, ShownOrComing
    <3> QED BY <1>3, <2>3, <3>3 DEF Panel
  <2> QED BY <2>4, <2>5
<1> QED BY <1>4, <1>5

LEMMA AnswerPanel ==
    ASSUME TypeOK, Streams, Panel, NEW i \in 1..Len(asked), Answer(i)
    PROVE  Panel'
<1>1. UNCHANGED <<rows, sel, stream, pipe, shown, behind>>
  BY DEF Answer, history
<1>2. /\ Len(asked') = Len(asked)
      /\ asked'[i].data[1] = rows[asked[i].session]
      /\ \A k \in 1..Len(asked) : asked'[k].session = asked[k].session
      /\ \A k \in 1..Len(asked) : k # i => asked'[k] = asked[k]
  BY AnswerType
<1>3. ShownOrComing'
  BY <1>1, <1>2 DEF Panel, ShownOrComing
<1>4. AnswersAreRows'
  <2> SUFFICES ASSUME NEW k \in 1..Len(asked), asked'[k].data # None,
                      asked'[k].session = sel, ~asked'[k].old
               PROVE  \/ asked'[k].data[1] = rows[sel]
                      \/ Has(pipe, {"message"})
                      \/ \E j \in 1..Len(asked) : j > k /\ asked'[j].session = sel
    BY <1>1, <1>2 DEF AnswersAreRows
  <2>1. CASE k = i
    BY <1>2, <2>1
  <2>2. CASE k # i
    BY <1>2, <2>2 DEF Panel, AnswersAreRows
  <2> QED BY <2>1, <2>2
<1>5. ClearsArePurges'
  BY <1>1 DEF Panel, ClearsArePurges
<1> QED BY <1>3, <1>4, <1>5 DEF Panel

\* A fetch other than number i keeps its place before or after the others.
LEMMA Stays ==
    ASSUME TypeOK, NEW i \in 1..Len(asked), Apply(i) \/ FetchFails(i),
           NEW j \in 1..Len(asked), j # i
    PROVE  \E k \in 1..Len(asked') :
             /\ k = IF j < i THEN j ELSE j - 1
             /\ asked'[k].session = asked[j].session
<1>1. Len(asked) \in Nat
  BY DEF TypeOK
<1>2. /\ Len(asked') = Len(asked) - 1
      /\ \A k \in 1..(Len(asked) - 1) :
           asked'[k].session = asked[IF k < i THEN k ELSE k + 1].session
  <2>1. CASE Apply(i)
    BY <2>1, ApplyType
  <2>2. CASE FetchFails(i)
    BY <2>2, FetchFailsType
  <2> QED BY <2>1, <2>2
<1>3. CASE j < i
  <2>1. j \in 1..(Len(asked) - 1)
    BY <1>1, <1>3
  <2> QED BY <1>1, <1>2, <1>3, <2>1
<1>4. CASE j > i
  <2>1. j - 1 \in 1..(Len(asked) - 1) /\ ~(j - 1 < i) /\ (j - 1) + 1 = j
    BY <1>1, <1>4
  <2>2. asked'[j - 1].session = asked[(j - 1) + 1].session
    BY <1>2, <2>1
  <2> QED BY <1>2, <1>4, <2>1, <2>2
<1> QED BY <1>3, <1>4

LEMMA ApplyPanel ==
    ASSUME TypeOK, Streams, Panel, NEW i \in 1..Len(asked), Apply(i)
    PROVE  Panel'
<1>1. /\ UNCHANGED <<rows, sel, stream, pipe>>
      /\ asked[i].data # None
      /\ shown' = asked[i].data[1]
      /\ behind' = (asked[i].old \/ asked[i].session # sel)
  BY DEF Apply, server
<1>2. Len(asked) \in Nat /\ Len(asked') = Len(asked) - 1
  BY ApplyType DEF TypeOK
<1>3. ShownOrComing'
  <2> SUFFICES ASSUME sel # None, ~asked[i].old, asked[i].session = sel
               PROVE  \/ shown' = rows[sel]
                      \/ Has(pipe, {"message", "cleared"})
                      \/ \E k \in 1..Len(asked') : asked'[k].session = sel
    BY <1>1 DEF ShownOrComing
  <2>1. CASE asked[i].data[1] = rows[sel]
    BY <1>1, <2>1
  <2>2. CASE Has(pipe, {"message"})
    BY <2>2 DEF Has
  <2>3. ASSUME NEW j \in 1..Len(asked), j > i, asked[j].session = sel
        PROVE  \E k \in 1..Len(asked') : asked'[k].session = sel
    BY <2>3, Stays
  <2> QED BY <1>1, <2>1, <2>2, <2>3 DEF Panel, AnswersAreRows
<1>4. AnswersAreRows'
  <2> SUFFICES ASSUME NEW k \in 1..Len(asked'), asked'[k].data # None,
                      asked'[k].session = sel, ~asked'[k].old
               PROVE  \/ asked'[k].data[1] = rows[sel]
                      \/ Has(pipe, {"message"})
                      \/ \E j \in 1..Len(asked') : j > k /\ asked'[j].session = sel
    BY <1>1 DEF AnswersAreRows
  <2> DEFINE m == k + 1
  <2>1. /\ k >= i
        /\ asked[m].data = asked'[k].data /\ asked[m].session = sel /\ ~asked[m].old
        /\ m \in 1..Len(asked)
    <3>1. k \in 1..(Len(asked) - 1) /\ k + 1 \in 1..Len(asked)
      BY <1>2
    <3>2. CASE k < i
      <4>1. asked'[k].old = (asked[k].old \/ k < i)
        BY <3>1, <3>2, ApplyType
      <4> QED BY <3>2, <4>1
    <3>3. CASE ~(k < i)
      <4>1. /\ asked'[k].session = asked[k + 1].session
            /\ asked'[k].data = asked[k + 1].data
            /\ asked'[k].old = (asked[k + 1].old \/ k + 1 < i)
        BY <3>1, <3>3, ApplyType
      <4>2. k >= i
        BY <1>2, <3>1, <3>3
      <4> QED BY <3>1, <4>1, <4>2
    <3> QED BY <3>2, <3>3
  <2>2. ASSUME NEW j \in 1..Len(asked), j > m, asked[j].session = sel
        PROVE  \E h \in 1..Len(asked') : h > k /\ asked'[h].session = sel
    <3>1. j # i /\ ~(j < i) /\ j - 1 > k
      BY <2>1, <2>2
    <3> QED BY <2>2, <3>1, Stays
  <2> QED BY <2>1, <2>2 DEF Panel, AnswersAreRows
<1>5. ClearsArePurges'
  BY <1>1 DEF Panel, ClearsArePurges
<1> QED BY <1>3, <1>4, <1>5 DEF Panel

LEMMA FetchFailsPanel ==
    ASSUME TypeOK, Streams, Panel, NEW i \in 1..Len(asked), FetchFails(i)
    PROVE  Panel'
<1>1. /\ UNCHANGED <<rows, sel, stream, pipe, shown>>
      /\ behind' = (behind \/ asked[i].session = sel)
  BY DEF FetchFails, server
<1>2. Len(asked) \in Nat /\ Len(asked') = Len(asked) - 1
  BY FetchFailsType DEF TypeOK
<1>3. ShownOrComing'
  <2>1. ASSUME NEW j \in 1..Len(asked), asked[j].session = sel, ~behind'
        PROVE  \E k \in 1..Len(asked') : asked'[k].session = sel
    <3>1. j # i
      BY <1>1, <2>1
    <3> QED BY <2>1, <3>1, Stays
  <2> QED BY <1>1, <2>1 DEF Panel, ShownOrComing
<1>4. AnswersAreRows'
  <2>1. \A k \in 1..Len(asked') : asked'[k].data # None => asked'[k].old
    BY <1>2, FetchFailsType
  <2> QED BY <2>1 DEF AnswersAreRows
<1>5. ClearsArePurges'
  BY <1>1 DEF Panel, ClearsArePurges
<1> QED BY <1>3, <1>4, <1>5 DEF Panel

\* What is lost says whether an event was.
LEMMA LostIsHad ==
    ASSUME TypeOK, NEW kinds, Has(pipe, kinds)
    PROVE  Lost(kinds) # {}
<1>1. PICK p \in 1..Len(pipe) : pipe[p].kind \in kinds
  BY DEF Has
<1>2. p \in DOMAIN pipe
  BY DEF TypeOK
<1>3. pipe[p].request \in Lost(kinds)
  BY <1>1, <1>2 DEF Lost
<1> QED BY <1>3

LEMMA DisconnectPanel ==
    ASSUME TypeOK, Streams, Panel, Disconnect
    PROVE  Panel'
<1>1. /\ UNCHANGED <<rows, sel, shown>> /\ pipe' = <<>>
      /\ behind' = (behind \/ Lost({"message", "cleared"}) # {})
      /\ asked' = IF Lost({"message", "cleared"}) # {} THEN Outdated ELSE asked
  BY DEF Disconnect, server
<1>2. CASE Lost({"message", "cleared"}) # {}
  BY <1>1, <1>2, PassedByPanel
<1>3. CASE Lost({"message", "cleared"}) = {}
  <2>1. ~Has(pipe, {"message", "cleared"})
    BY <1>3, LostIsHad
  <2>2. ~Has(pipe, {"message"})
    BY <2>1 DEF Has
  <2>3. ShownOrComing' /\ AnswersAreRows'
    BY <1>1, <1>3, <2>1, <2>2 DEF Panel, ShownOrComing, AnswersAreRows
  <2> QED BY <1>1, <2>3 DEF Panel, ClearsArePurges
<1> QED BY <1>2, <1>3

LEMMA RestartPanel ==
    ASSUME TypeOK, Streams, Panel, Restart
    PROVE  Panel'
<1>1. /\ UNCHANGED <<rows, sel, shown>> /\ pipe' = <<>> /\ asked' = <<>>
      /\ behind' = (behind \/ asked # <<>> \/ Lost({"message", "cleared"}) # {})
  BY DEF Restart
<1>2. ~behind' => ~Has(pipe, {"message", "cleared"}) /\ asked = <<>>
  BY <1>1, LostIsHad
<1>3. ShownOrComing'
  BY <1>1, <1>2 DEF Panel, ShownOrComing
<1> QED BY <1>1, <1>3 DEF Panel, AnswersAreRows, ClearsArePurges

LEMMA NextPanel ==
    ASSUME TypeOK, Streams, Panel, [Next]_vars
    PROVE  Panel'
<1>1. DOMAIN asked = 1..Len(asked)
  BY DEF TypeOK
<1>2. ASSUME NEW s \in Sessions, Inbound(s) \/ OwnInbound(s) \/ Outbound(s)
      PROVE  Panel'
  <2>1. /\ 1 \in 1..2 /\ TRUE \in BOOLEAN /\ FALSE \in BOOLEAN
    OBVIOUS
  <2>2. CASE Inbound(s)
    BY <2>1, <2>2, PersistPanel DEF Inbound
  <2>3. CASE OwnInbound(s)
    BY <2>1, <2>3, PersistPanel DEF OwnInbound
  <2>4. CASE Outbound(s)
    BY <2>1, <2>4, PersistPanel DEF Outbound
  <2> QED BY <1>2, <2>2, <2>3, <2>4
<1>3. ASSUME NEW s \in Sessions, Clear(s) \/ FinishClear(s)
      PROVE  Panel'
  BY <1>3, PurgePanel DEF Clear, FinishClear
<1>4. ASSUME \/ \E s \in Sessions : BeginClear(s) \/ Preview(s)
             \/ Subscribe
             \/ \E r \in Requests : Decided(r) \/ DecisionFails(r)
             \/ UNCHANGED vars
      PROVE  Panel'
  <2>1. UNCHANGED <<rows, sel, pipe, shown, asked, behind>>
    BY <1>4 DEF BeginClear, Preview, Subscribe, Decided, DecisionFails, vars, server, tab, history
  <2> QED BY <2>1, UnchangedIsQuiet, QuietPanel
<1>5. ASSUME NEW s \in Sessions, Select(s)
      PROVE  Panel'
  <2>1. sel' = s /\ pipe' = <<>> /\ asked' = Append(asked, Ask(s)) /\ UNCHANGED rows
    BY <1>5 DEF Select, server
  <2>2. ShownOrComing' /\ AnswersAreRows'
    BY <2>1, AskPanel
  <2> QED BY <2>1, <2>2 DEF Panel, ClearsArePurges
<1>6. CASE Close
  BY <1>6 DEF Close, Panel, ShownOrComing, AnswersAreRows, ClearsArePurges
<1>7. CASE Sent
  <2>1. /\ sel \in Sessions /\ sel' = sel /\ asked' = Append(asked, Ask(sel))
        /\ UNCHANGED <<rows, pipe>>
    BY <1>7 DEF Sent, TypeOK, server
  <2>2. ShownOrComing' /\ AnswersAreRows'
    BY <2>1, AskPanel
  <2> QED BY <2>1, <2>2 DEF Panel, ClearsArePurges
<1>8. CASE Daemon
  <2>1. CASE \E s \in Sessions, r \in Requests : Request(r, s) \/ RequestApproved(r, s)
    BY <2>1, RequestPanel
  <2>2. CASE \E r \in Requests : Prompt(r) \/ Resolve(r) \/ Cancel(r)
    BY <2>2, RequestPanel
  <2> QED BY <1>8, <1>2, <1>3, <1>4, <2>1, <2>2 DEF Daemon
<1>9. CASE Tab
  BY <1>1, <1>9, <1>4, <1>5, <1>6, <1>7, HandlePanel, AnswerPanel, ApplyPanel, RequestPanel DEF Tab
<1>10. CASE Mishaps
  BY <1>1, <1>10, <1>4, DisconnectPanel, RestartPanel, FetchFailsPanel DEF Mishaps
<1> QED BY <1>4, <1>8, <1>9, <1>10 DEF Next

-----------------------------------------------------------------------------
(* What the cards stand for                                                *)

\* q holds the event; q holds it after position p.
At(q, kind, r) == \E k \in 1..Len(q) : q[k] = Ev(kind, r)
Later(q, p, kind, r) == \E k \in 1..Len(q) : k > p /\ q[k] = Ev(kind, r)

\* Nothing is known of a request that was not made, and an open one is neither
\* decided by the panel nor announced as removed.
Requested ==
    /\ \A r \in open \cup cancels \cup prompts \cup cards \cup busy : of[r] # None
    /\ open \cap cancels = {} /\ open \cap busy = {}
    /\ \A r \in Requests, kind \in {"requested", "removed"} : At(pipe, kind, r) => of[r] # None
    /\ \A r \in open : ~At(pipe, "removed", r)

\* A request that is announced is open, or its removal will be announced.
Announced ==
    \A p \in 1..Len(pipe), r \in Requests :
      pipe[p] = Ev("requested", r) =>
        r \in open \cup cancels \cup ghosts \/ Later(pipe, p, "removed", r)

\* An open request the panel has not missed is announced once more after a clear.
Reannounced ==
    \A p \in 1..Len(pipe) :
      pipe[p].kind = "cleared" =>
        \A r \in open \ missed : of[r] = sel => Later(pipe, p, "requested", r)

Cards == Requested /\ Announced /\ Reannounced /\ CardsFollowRequests

LEMMA InPipeAt ==
    ASSUME TypeOK, NEW kind, NEW r
    PROVE  InPipe(kind, r) <=> At(pipe, kind, r)
BY DEF TypeOK, InPipe, At

LEMMA AtJoined ==
    ASSUME NEW q \in Seq(Event), NEW ev \in Seq(Event)
    PROVE  /\ \A kind, r : At(q \o ev, kind, r) <=> At(q, kind, r) \/ At(ev, kind, r)
           /\ \A kind, r : \A p \in 1..Len(q) :
                Later(q, p, kind, r) \/ At(ev, kind, r) => Later(q \o ev, p, kind, r)
           /\ \A kind, r : \A p \in 1..Len(ev) :
                Later(ev, p, kind, r) => Later(q \o ev, Len(q) + p, kind, r)
           /\ \A p \in 1..Len(q \o ev) :
                \/ p \in 1..Len(q) /\ (q \o ev)[p] = q[p]
                \/ \E k \in 1..Len(ev) : p = Len(q) + k /\ (q \o ev)[p] = ev[k]
<1>1. /\ Len(q) \in Nat /\ Len(ev) \in Nat
      /\ Len(q \o ev) = Len(q) + Len(ev)
      /\ \A k \in 1..Len(q) : (q \o ev)[k] = q[k]
      /\ \A k \in 1..Len(ev) : (q \o ev)[Len(q) + k] = ev[k]
  BY Joined
<1>2. ASSUME NEW p \in 1..Len(q \o ev)
      PROVE  \/ p \in 1..Len(q) /\ (q \o ev)[p] = q[p]
             \/ \E k \in 1..Len(ev) : p = Len(q) + k /\ (q \o ev)[p] = ev[k]
  <2>1. CASE p <= Len(q)
    BY <1>1, <2>1
  <2>2. CASE p > Len(q)
    <3>1. p - Len(q) \in 1..Len(ev) /\ p = Len(q) + (p - Len(q))
      BY <1>1, <2>2
    <3>2. (q \o ev)[p] = ev[p - Len(q)]
      BY <1>1, <3>1
    <3> QED BY <3>1, <3>2
  <2> QED BY <1>1, <2>1, <2>2
<1>3. ASSUME NEW k \in 1..Len(ev)
      PROVE  /\ Len(q) + k \in 1..Len(q \o ev) /\ (q \o ev)[Len(q) + k] = ev[k]
             /\ \A p \in 1..Len(q) : Len(q) + k > p
             /\ \A p \in 1..Len(ev) : k > p => Len(q) + k > Len(q) + p
  BY <1>1
<1>4. ASSUME NEW k \in 1..Len(q)
      PROVE  k \in 1..Len(q \o ev) /\ (q \o ev)[k] = q[k]
  BY <1>1
<1>5. \A kind, r : At(q \o ev, kind, r) <=> At(q, kind, r) \/ At(ev, kind, r)
  BY <1>2, <1>3, <1>4 DEF At
<1>6. \A kind, r : \A p \in 1..Len(q) :
        Later(q, p, kind, r) \/ At(ev, kind, r) => Later(q \o ev, p, kind, r)
  BY <1>3, <1>4 DEF At, Later
<1>7. \A kind, r : \A p \in 1..Len(ev) :
        Later(ev, p, kind, r) => Later(q \o ev, Len(q) + p, kind, r)
  BY <1>3 DEF Later
<1> QED BY <1>2, <1>5, <1>6, <1>7

LEMMA AtTail ==
    ASSUME NEW q \in Seq(Event), q # <<>>
    PROVE  /\ \A kind, r : At(q, kind, r) <=> Head(q) = Ev(kind, r) \/ At(Tail(q), kind, r)
           /\ \A kind, r : Later(q, 1, kind, r) => At(Tail(q), kind, r)
           /\ \A p \in 1..Len(Tail(q)) :
                /\ p + 1 \in 1..Len(q) /\ Tail(q)[p] = q[p + 1]
                /\ \A kind, r : Later(q, p + 1, kind, r) => Later(Tail(q), p, kind, r)
<1>1. /\ Len(q) \in Nat \ {0} /\ Len(Tail(q)) = Len(q) - 1 /\ Head(q) = q[1]
      /\ \A k \in 1..(Len(q) - 1) : Tail(q)[k] = q[k + 1]
  BY TailElements
<1>2. ASSUME NEW k \in 1..Len(q), k # 1
      PROVE  k - 1 \in 1..Len(Tail(q)) /\ Tail(q)[k - 1] = q[k]
  <2>1. k - 1 \in 1..(Len(q) - 1) /\ (k - 1) + 1 = k
    BY <1>1, <1>2
  <2> QED BY <1>1, <2>1
<1>3. ASSUME NEW p \in 1..Len(Tail(q))
      PROVE  p + 1 \in 1..Len(q) /\ Tail(q)[p] = q[p + 1]
  BY <1>1
<1>4. ASSUME NEW kind, NEW r
      PROVE  At(q, kind, r) <=> Head(q) = Ev(kind, r) \/ At(Tail(q), kind, r)
  <2>1. 1 \in 1..Len(q)
    BY <1>1
  <2> QED BY <1>1, <1>2, <1>3, <2>1 DEF At
<1>5. ASSUME NEW kind, NEW r, Later(q, 1, kind, r)
      PROVE  At(Tail(q), kind, r)
  <2>1. PICK k \in 1..Len(q) : k > 1 /\ q[k] = Ev(kind, r)
    BY <1>5 DEF Later
  <2> QED BY <1>2, <2>1 DEF At
<1>6. ASSUME NEW p \in 1..Len(Tail(q)), NEW kind, NEW r, Later(q, p + 1, kind, r)
      PROVE  Later(Tail(q), p, kind, r)
  <2>1. PICK k \in 1..Len(q) : k > p + 1 /\ q[k] = Ev(kind, r)
    BY <1>6 DEF Later
  <2>2. k # 1 /\ k - 1 > p
    BY <1>1, <2>1
  <2> QED BY <1>2, <2>1, <2>2 DEF Later
<1> QED BY <1>3, <1>4, <1>5, <1>6

\* A step that announces the events ev at the end of the pipe.  A request stays open
\* or known to be removed, and a newly open one is announced or missed.
LEMMA GrownCards ==
    ASSUME TypeOK, TypeOK', Cards, UNCHANGED sel,
           NEW ev \in Seq(Event), pipe' = pipe \o ev,
           \A r \in open \cup cancels :
             r \in open' \cup cancels' \cup ghosts' \/ At(ev, "removed", r),
           ghosts \subseteq ghosts',
           \A r \in open' \ missed' :
             of'[r] = sel => (r \in open \ missed /\ of[r] = sel) \/ At(ev, "requested", r),
           \A k \in 1..Len(ev), r \in Requests :
             ev[k] = Ev("requested", r) =>
               r \in open' \cup cancels' \cup ghosts' \/ Later(ev, k, "removed", r),
           \A k \in 1..Len(ev) :
             ev[k].kind = "cleared" => \A r \in open' \ missed' : of'[r] # sel,
           cards' \subseteq cards, (cards \ cards') \cap open' = {}
    PROVE  Announced' /\ Reannounced' /\ CardsFollowRequests'
<1>1. pipe \in Seq(Event)
  BY DEF TypeOK
<1>2. /\ \A kind, r : At(pipe', kind, r) <=> At(pipe, kind, r) \/ At(ev, kind, r)
      /\ \A kind, r : \A p \in 1..Len(pipe) :
           Later(pipe, p, kind, r) \/ At(ev, kind, r) => Later(pipe', p, kind, r)
      /\ \A kind, r : \A p \in 1..Len(ev) :
           Later(ev, p, kind, r) => Later(pipe', Len(pipe) + p, kind, r)
      /\ \A p \in 1..Len(pipe') :
           \/ p \in 1..Len(pipe) /\ pipe'[p] = pipe[p]
           \/ \E k \in 1..Len(ev) : p = Len(pipe) + k /\ pipe'[p] = ev[k]
  BY <1>1, AtJoined
<1>3. \A r \in open' \cup cards' : r \in Requests
  BY DEF TypeOK
<1>4. Announced'
  <2> SUFFICES ASSUME NEW p \in 1..Len(pipe'), NEW r \in Requests, pipe'[p] = Ev("requested", r)
               PROVE  \/ r \in open' \cup cancels' \cup ghosts'
                      \/ Later(pipe', p, "removed", r)
    BY DEF Announced
  <2>1. CASE p \in 1..Len(pipe) /\ pipe'[p] = pipe[p]
    <3>1. r \in open \cup cancels \cup ghosts \/ Later(pipe, p, "removed", r)
      BY <2>1 DEF Cards, Announced
    <3> QED BY <1>2, <2>1, <3>1
  <2>2. ASSUME NEW k \in 1..Len(ev), p = Len(pipe) + k, pipe'[p] = ev[k]
        PROVE  \/ r \in open' \cup cancels' \cup ghosts'
               \/ Later(pipe', p, "removed", r)
    BY <1>2, <2>2
  <2> QED BY <1>2, <2>1, <2>2
<1>5. Reannounced'
  <2> SUFFICES ASSUME NEW p \in 1..Len(pipe'), pipe'[p].kind = "cleared",
                      NEW r \in open' \ missed', of'[r] = sel
               PROVE  Later(pipe', p, "requested", r)
    BY DEF Reannounced
  <2>1. p \in 1..Len(pipe) /\ pipe'[p] = pipe[p]
    BY <1>2
  <2>2. CASE At(ev, "requested", r)
    BY <1>2, <2>1, <2>2
  <2>3. CASE r \in open \ missed /\ of[r] = sel
    <3>1. Later(pipe, p, "requested", r)
      BY <2>1, <2>3 DEF Cards, Reannounced
    <3> QED BY <1>2, <2>1, <3>1
  <2> QED BY <2>2, <2>3
<1>6. ASSUME NEW r \in cards' \ ghosts'
      PROVE  r \in open' \cup cancels' \/ At(pipe', "removed", r)
  <2>1. r \in open \cup cancels \/ At(pipe, "removed", r)
    BY <1>6, InPipeAt DEF Cards, CardsFollowRequests
  <2> QED BY <1>2, <1>6, <2>1
<1>7. ASSUME NEW r \in open' \ missed', of'[r] = sel
      PROVE  r \in cards' \/ At(pipe', "requested", r)
  <2>1. CASE At(ev, "requested", r)
    BY <1>2, <2>1
  <2>2. CASE r \in open \ missed /\ of[r] = sel
    <3>1. r \in cards \/ At(pipe, "requested", r)
      BY <2>2, InPipeAt DEF Cards, CardsFollowRequests
    <3> QED BY <1>2, <1>7, <3>1
  <2> QED BY <1>7, <2>1, <2>2
<1>8. \A kind, r : InPipe(kind, r)' <=> At(pipe', kind, r)
  <2>1. DOMAIN pipe' = 1..Len(pipe')
    BY DEF TypeOK
  <2> QED BY <2>1 DEF InPipe, At
<1>9. CardsFollowRequests'
  BY <1>6, <1>7, <1>8 DEF CardsFollowRequests
<1> QED BY <1>4, <1>5, <1>9

\* An event that is added on a condition, as in Published and Broadcast.
LEMMA Optional ==
    ASSUME NEW c \in BOOLEAN, NEW e \in Event, NEW ev, ev = IF c THEN <<e>> ELSE <<>>
    PROVE  /\ ev \in Seq(Event)
           /\ \A q \in Seq(Event) : q \o ev = IF c THEN q \o <<e>> ELSE q
           /\ \A k \in 1..Len(ev) : c /\ ev[k] = e
           /\ \A kind, r : At(ev, kind, r) <=> c /\ e = Ev(kind, r)
<1>1. CASE c
  <2>1. ev = <<e>> /\ Len(ev) = 1 /\ ev \in Seq(Event) /\ ev[1] = e
    BY <1>1
  <2>2. \A kind, r : At(ev, kind, r) <=> e = Ev(kind, r)
    BY <2>1 DEF At
  <2> QED BY <1>1, <2>1, <2>2
<1>2. CASE ~c
  <2>1. ev = <<>> /\ Len(ev) = 0 /\ ev \in Seq(Event)
    BY <1>2
  <2>2. \A kind, r : ~At(ev, kind, r)
    BY <2>1 DEF At
  <2>3. \A q \in Seq(Event) : q \o ev = q
    BY <2>1
  <2> QED BY <1>2, <2>1, <2>2, <2>3
<1> QED BY <1>1, <1>2

LEMMA SameEvent ==
    \A k, m, r, t : Ev(k, r) = Ev(m, t) <=> k = m /\ r = t
BY DEF Ev

\* A step that announces nothing about requests.
LEMMA QuietCards ==
    ASSUME TypeOK, TypeOK', Cards,
           UNCHANGED <<open, of, prompts, cancels, sel, cards, missed, ghosts>>,
           busy' \subseteq busy,
           NEW ev \in Seq(Event), pipe' = pipe \o ev, \A k \in 1..Len(ev) : ev[k] = Message
    PROVE  Cards'
<1>1. /\ \A kind \in {"requested", "removed"} : \A r : ~At(ev, kind, r)
      /\ \A k \in 1..Len(ev) : ev[k].kind = "message"
      /\ \A k \in 1..Len(ev) : \A r : ev[k] # Ev("requested", r)
  BY SameEvent, EventTypes DEF At, Message
<1>2. Announced' /\ Reannounced' /\ CardsFollowRequests'
  BY <1>1, GrownCards
<1>3. \A kind, r : At(pipe', kind, r) <=> At(pipe, kind, r) \/ At(ev, kind, r)
  BY AtJoined DEF TypeOK
<1>4. Requested'
  BY <1>1, <1>3 DEF Cards, Requested
<1> QED BY <1>2, <1>4 DEF Cards

LEMMA StillCards ==
    ASSUME TypeOK, TypeOK', Cards,
           UNCHANGED <<open, of, prompts, cancels, sel, cards, missed, ghosts, pipe>>,
           busy' \subseteq busy
    PROVE  Cards'
<1>1. pipe' = pipe \o <<>> /\ <<>> \in Seq(Event) /\ \A k \in 1..Len(<<>>) : <<>>[k] = Message
  BY UnchangedIsQuiet
<1> QED BY <1>1, QuietCards

LEMMA RequestCards ==
    ASSUME TypeOK, TypeOK', Cards, NEW r \in Requests, NEW s \in Sessions, Request(r, s)
    PROVE  Cards'
<1> DEFINE ev == IF Heard(s) THEN <<Ev("requested", r)>> ELSE <<>>
<1>1. /\ ev \in Seq(Event) /\ pipe' = pipe \o ev
      /\ \A kind, t : At(ev, kind, t) <=> Heard(s) /\ kind = "requested" /\ t = r
      /\ \A k \in 1..Len(ev) : ev[k] = Ev("requested", r)
  <2>1. Heard(s) \in BOOLEAN /\ Ev("requested", r) \in Event
    BY EventTypes DEF Heard
  <2>2. pipe \in Seq(Event) /\ pipe' = IF Heard(s) THEN pipe \o <<Ev("requested", r)>> ELSE pipe
    BY DEF Request, Published, TypeOK
  <2> QED BY <2>1, <2>2, Optional, SameEvent
<1> HIDE DEF ev
<1>2. /\ of[r] = None /\ of' = [of EXCEPT ![r] = s] /\ s # None
      /\ open' = open \cup {r} /\ prompts' = prompts \cup {r}
      /\ missed' = IF Heard(s) THEN missed ELSE missed \cup {r}
      /\ UNCHANGED <<cancels, sel, cards, busy, ghosts>>
  BY DashboardAssumption DEF Request
<1>3. \A t \in Requests : of'[t] = IF t = r THEN s ELSE of[t]
  BY <1>2 DEF TypeOK
<1>4. \A kind, t : At(pipe', kind, t) <=> At(pipe, kind, t) \/ At(ev, kind, t)
  BY <1>1, AtJoined DEF TypeOK
<1>5. Requested'
  <2>1. \A t \in open \cup cancels \cup prompts \cup cards \cup busy : t \in Requests /\ t # r
    BY <1>2 DEF Cards, Requested, TypeOK
  <2>2. \A t \in open' \cup cancels' \cup prompts' \cup cards' \cup busy' : of'[t] # None
    BY <1>2, <1>3, <2>1 DEF Cards, Requested
  <2>3. open' \cap cancels' = {} /\ open' \cap busy' = {}
    BY <1>2, <2>1 DEF Cards, Requested
  <2>4. \A t \in Requests, kind \in {"requested", "removed"} :
          At(pipe', kind, t) => of'[t] # None
    BY <1>1, <1>2, <1>3, <1>4 DEF Cards, Requested
  <2>5. \A t \in open' : ~At(pipe', "removed", t)
    BY <1>1, <1>2, <1>4 DEF Cards, Requested
  <2> QED BY <2>2, <2>3, <2>4, <2>5 DEF Requested
<1>6. \A k \in 1..Len(ev) : ev[k].kind # "cleared"
  BY <1>1, EventTypes
<1>7. \A t \in open' \ missed' :
        of'[t] = sel => (t \in open \ missed /\ of[t] = sel) \/ At(ev, "requested", t)
  BY <1>1, <1>2, <1>3 DEF TypeOK
<1>8. \A k \in 1..Len(ev), t \in Requests : ev[k] = Ev("requested", t) => t \in open'
  BY <1>1, <1>2, SameEvent
<1>9. Announced' /\ Reannounced' /\ CardsFollowRequests'
  BY <1>1, <1>2, <1>6, <1>7, <1>8, GrownCards
<1> QED BY <1>5, <1>9 DEF Cards

LEMMA ApprovedCards ==
    ASSUME TypeOK, TypeOK', Cards, NEW r \in Requests, NEW s \in Sessions, RequestApproved(r, s)
    PROVE  Cards'
<1> DEFINE ev == IF Heard(s) THEN <<Ev("requested", r), Ev("removed", r)>> ELSE <<>>
<1>1. /\ ev \in Seq(Event) /\ pipe' = pipe \o ev
      /\ \A k \in 1..Len(ev) :
           \/ ev[k] = Ev("removed", r)
           \/ ev[k] = Ev("requested", r) /\ Later(ev, k, "removed", r)
  <2>1. Ev("requested", r) \in Event /\ Ev("removed", r) \in Event
    BY EventTypes
  <2>2. /\ pipe \in Seq(Event)
        /\ pipe' = IF Heard(s) THEN pipe \o <<Ev("requested", r), Ev("removed", r)>> ELSE pipe
    BY DEF RequestApproved, Published, TypeOK
  <2>3. CASE Heard(s)
    <3>1. /\ ev = <<Ev("requested", r), Ev("removed", r)>> /\ ev \in Seq(Event) /\ Len(ev) = 2
          /\ ev[1] = Ev("requested", r) /\ ev[2] = Ev("removed", r)
      BY <2>1, <2>3
    <3>2. Later(ev, 1, "removed", r)
      BY <3>1 DEF Later
    <3>3. \A k \in 1..Len(ev) : k = 1 \/ k = 2
      BY <3>1
    <3>4. pipe' = pipe \o ev
      BY <2>2, <2>3
    <3> HIDE DEF ev
    <3> QED BY <3>1, <3>2, <3>3, <3>4
  <2>4. CASE ~Heard(s)
    <3>1. ev = <<>> /\ Len(ev) = 0 /\ ev \in Seq(Event) /\ pipe \o ev = pipe
      BY <2>2, <2>4
    <3> QED BY <2>2, <2>4, <3>1
  <2> QED BY <2>3, <2>4
<1> HIDE DEF ev
<1>2. /\ of[r] = None /\ of' = [of EXCEPT ![r] = s] /\ s # None
      /\ UNCHANGED <<open, prompts, cancels, sel, cards, busy, ghosts, missed>>
  BY DashboardAssumption DEF RequestApproved, history
<1>3. \A t \in Requests : of'[t] = IF t = r THEN s ELSE of[t]
  BY <1>2 DEF TypeOK
<1>4. /\ \A kind, t : At(pipe', kind, t) <=> At(pipe, kind, t) \/ At(ev, kind, t)
      /\ \A kind, t : At(ev, kind, t) => t = r
  <2>1. \A kind, t : At(pipe', kind, t) <=> At(pipe, kind, t) \/ At(ev, kind, t)
    BY <1>1, AtJoined DEF TypeOK
  <2>2. \A kind, t : At(ev, kind, t) => t = r
    BY <1>1, SameEvent DEF At
  <2> QED BY <2>1, <2>2
<1>5. Requested'
  <2>1. \A t \in open \cup cancels \cup prompts \cup cards \cup busy : t \in Requests /\ t # r
    BY <1>2 DEF Cards, Requested, TypeOK
  <2>2. \A t \in open' \cup cancels' \cup prompts' \cup cards' \cup busy' : of'[t] # None
    BY <1>2, <1>3, <2>1 DEF Cards, Requested
  <2>3. open' \cap cancels' = {} /\ open' \cap busy' = {}
    BY <1>2 DEF Cards, Requested
  <2>4. \A t \in Requests, kind \in {"requested", "removed"} :
          At(pipe', kind, t) => of'[t] # None
    BY <1>2, <1>3, <1>4 DEF Cards, Requested
  <2>5. \A t \in open' : ~At(pipe', "removed", t)
    BY <1>2, <1>4, <2>1 DEF Cards, Requested
  <2> QED BY <2>2, <2>3, <2>4, <2>5 DEF Requested
<1>6. \A k \in 1..Len(ev) : ev[k].kind # "cleared"
  BY <1>1, EventTypes
<1>7. \A t \in open' \ missed' : of'[t] = sel => t \in open \ missed /\ of[t] = sel
  BY <1>2, <1>3 DEF TypeOK, Cards, Requested
<1>8. \A k \in 1..Len(ev), t \in Requests :
        ev[k] = Ev("requested", t) => Later(ev, k, "removed", t)
  BY <1>1, SameEvent
<1>9. Announced' /\ Reannounced' /\ CardsFollowRequests'
  BY <1>1, <1>2, <1>6, <1>7, <1>8, GrownCards
<1> QED BY <1>5, <1>9 DEF Cards

LEMMA PromptCards ==
    ASSUME TypeOK, TypeOK', Cards, NEW r \in Requests, Prompt(r)
    PROVE  Cards'
<1> DEFINE ev == IF Heard(of[r]) THEN <<Ev("requested", r)>> ELSE <<>>
<1>1. /\ ev \in Seq(Event) /\ pipe' = pipe \o ev
      /\ \A kind, t : At(ev, kind, t) <=> Heard(of[r]) /\ kind = "requested" /\ t = r
      /\ \A k \in 1..Len(ev) : ev[k] = Ev("requested", r)
  <2>1. Heard(of[r]) \in BOOLEAN /\ Ev("requested", r) \in Event
    BY EventTypes DEF Heard
  <2>2. /\ pipe \in Seq(Event)
        /\ pipe' = IF Heard(of[r]) THEN pipe \o <<Ev("requested", r)>> ELSE pipe
    BY DEF Prompt, Published, TypeOK
  <2> QED BY <2>1, <2>2, Optional, SameEvent
<1> HIDE DEF ev
<1>2. /\ r \in prompts /\ prompts' \subseteq prompts
      /\ missed' = IF Heard(of[r]) THEN missed \ {r} ELSE missed
      /\ ghosts \subseteq ghosts' /\ r \in open \cup cancels \cup ghosts'
      /\ UNCHANGED <<open, of, cancels, sel, cards, busy>>
  BY DEF Prompt
<1>3. \A kind, t : At(pipe', kind, t) <=> At(pipe, kind, t) \/ At(ev, kind, t)
  BY <1>1, AtJoined DEF TypeOK
<1>4. Requested'
  BY <1>1, <1>2, <1>3 DEF Cards, Requested
<1>5. \A k \in 1..Len(ev) : ev[k].kind # "cleared"
  BY <1>1, EventTypes
<1>6. \A t \in open' \ missed' :
        of'[t] = sel => (t \in open \ missed /\ of[t] = sel) \/ At(ev, "requested", t)
  BY <1>1, <1>2
<1>7. \A k \in 1..Len(ev), t \in Requests :
        ev[k] = Ev("requested", t) => t \in open' \cup cancels' \cup ghosts'
  BY <1>1, <1>2, SameEvent
<1>8. Announced' /\ Reannounced' /\ CardsFollowRequests'
  BY <1>1, <1>2, <1>5, <1>6, <1>7, GrownCards
<1> QED BY <1>4, <1>8 DEF Cards

\* A verdict, from this panel or elsewhere.
LEMMA EndCards ==
    ASSUME TypeOK, TypeOK', Cards, NEW r \in Requests, End(r),
           UNCHANGED <<of, prompts, sel, cards, missed, ghosts>>,
           \/ UNCHANGED busy
           \/ r \in cards /\ busy' = busy \cup {r}
    PROVE  Cards'
<1> DEFINE c == r \in open /\ Heard(of[r])
           ev == IF c THEN <<Ev("removed", r)>> ELSE <<>>
<1>1. /\ ev \in Seq(Event) /\ pipe' = pipe \o ev
      /\ \A kind, t : At(ev, kind, t) => kind = "removed" /\ t = r /\ r \in open
      /\ \A k \in 1..Len(ev) : ev[k] = Ev("removed", r)
  <2>1. c \in BOOLEAN /\ Ev("removed", r) \in Event
    BY EventTypes DEF Heard
  <2>2. pipe \in Seq(Event) /\ pipe' = IF c THEN pipe \o <<Ev("removed", r)>> ELSE pipe
    BY DEF End, Published, TypeOK
  <2>3. c => r \in open
    OBVIOUS
  <2> HIDE DEF c
  <2> QED BY <2>1, <2>2, <2>3, Optional, SameEvent
<1> HIDE DEF ev
<1>2. /\ open' = open \ {r}
      /\ \/ r \in open /\ cancels' = cancels \cup {r}
         \/ r \notin open /\ cancels' = cancels
  BY DEF End
<1>3. \A kind, t : At(pipe', kind, t) <=> At(pipe, kind, t) \/ At(ev, kind, t)
  BY <1>1, AtJoined DEF TypeOK
<1>4. Requested'
  <2>1. \A t \in open' \cup cancels' \cup prompts' \cup cards' \cup busy' : of'[t] # None
    BY <1>2 DEF Cards, Requested
  <2>2. open' \cap cancels' = {} /\ open' \cap busy' = {}
    BY <1>2 DEF Cards, Requested
  <2>3. \A t \in Requests, kind \in {"requested", "removed"} :
          At(pipe', kind, t) => of'[t] # None
    BY <1>1, <1>3 DEF Cards, Requested
  <2>4. \A t \in open' : ~At(pipe', "removed", t)
    BY <1>1, <1>2, <1>3 DEF Cards, Requested
  <2> QED BY <2>1, <2>2, <2>3, <2>4 DEF Requested
<1>5. \A k \in 1..Len(ev) : ev[k].kind # "cleared"
  BY <1>1, EventTypes
<1>6. \A t \in open' \ missed' : of'[t] = sel => t \in open \ missed /\ of[t] = sel
  BY <1>2
<1>7. \A k \in 1..Len(ev), t \in Requests : ev[k] # Ev("requested", t)
  BY <1>1, SameEvent
<1>8. Announced' /\ Reannounced' /\ CardsFollowRequests'
  BY <1>1, <1>2, <1>5, <1>6, <1>7, GrownCards
<1> QED BY <1>4, <1>8 DEF Cards

LEMMA CancelCards ==
    ASSUME TypeOK, TypeOK', Streams, Cards, NEW r \in Requests, Cancel(r)
    PROVE  Cards'
<1> DEFINE c == stream = "up"
           ev == IF c THEN <<Ev("removed", r)>> ELSE <<>>
<1>1. /\ ev \in Seq(Event) /\ pipe' = pipe \o ev
      /\ \A kind, t : At(ev, kind, t) <=> stream = "up" /\ kind = "removed" /\ t = r
      /\ \A k \in 1..Len(ev) : ev[k] = Ev("removed", r)
  <2>1. c \in BOOLEAN /\ Ev("removed", r) \in Event
    BY EventTypes
  <2>2. pipe \in Seq(Event) /\ pipe' = IF c THEN pipe \o <<Ev("removed", r)>> ELSE pipe
    BY DEF Cancel, Broadcast, TypeOK
  <2>3. c <=> stream = "up"
    OBVIOUS
  <2> HIDE DEF c
  <2> QED BY <2>1, <2>2, <2>3, Optional, SameEvent
<1> HIDE DEF ev
<1>2. /\ r \in cancels /\ cancels' = cancels \ {r}
      /\ ghosts' = IF stream = "up" THEN ghosts ELSE ghosts \cup {r}
      /\ UNCHANGED <<open, of, prompts, sel, cards, busy, missed>>
  BY DEF Cancel
<1>3. \A kind, t : At(pipe', kind, t) <=> At(pipe, kind, t) \/ At(ev, kind, t)
  BY <1>1, AtJoined DEF TypeOK
<1>4. Requested'
  BY <1>1, <1>2, <1>3 DEF Cards, Requested
<1>5. \A k \in 1..Len(ev) : ev[k].kind # "cleared"
  BY <1>1, EventTypes
<1>6. \A t \in open \cup cancels :
        t \in open' \cup cancels' \cup ghosts' \/ At(ev, "removed", t)
  BY <1>1, <1>2
<1>7. \A k \in 1..Len(ev), t \in Requests : ev[k] # Ev("requested", t)
  BY <1>1, SameEvent
<1>8. Announced' /\ Reannounced' /\ CardsFollowRequests'
  BY <1>1, <1>2, <1>5, <1>6, <1>7, GrownCards
<1> QED BY <1>4, <1>8 DEF Cards

LEMMA PurgeCards ==
    ASSUME TypeOK, TypeOK', Cards, NEW s \in Sessions, Purge(s)
    PROVE  Cards'
<1> DEFINE ev == IF Heard(s) THEN <<Ev("cleared", None)>> ELSE <<>>
<1>1. /\ ev \in Seq(Event) /\ pipe' = pipe \o ev
      /\ \A kind, t : At(ev, kind, t) => kind = "cleared"
      /\ \A k \in 1..Len(ev) : ev[k] = Ev("cleared", None) /\ sel = s
  <2>1. Heard(s) \in BOOLEAN /\ Ev("cleared", None) \in Event
    BY EventTypes DEF Heard
  <2>2. pipe \in Seq(Event) /\ pipe' = IF Heard(s) THEN pipe \o <<Ev("cleared", None)>> ELSE pipe
    BY DEF Purge, Published, TypeOK
  <2>3. Heard(s) => sel = s
    BY DEF Heard
  <2> QED BY <2>1, <2>2, <2>3, Optional, SameEvent
<1> HIDE DEF ev
<1>2. /\ missed' = missed \cup {r \in open : of[r] = s}
      /\ UNCHANGED <<open, of, prompts, cancels, sel, cards, busy, ghosts>>
  BY DEF Purge
<1>3. \A kind, t : At(pipe', kind, t) <=> At(pipe, kind, t) \/ At(ev, kind, t)
  BY <1>1, AtJoined DEF TypeOK
<1>4. Requested'
  BY <1>1, <1>2, <1>3 DEF Cards, Requested
<1>5. \A k \in 1..Len(ev) : \A t \in open' \ missed' : of'[t] # sel
  BY <1>1, <1>2
<1>6. \A k \in 1..Len(ev), t \in Requests : ev[k] # Ev("requested", t)
  BY <1>1, SameEvent
<1>7. Announced' /\ Reannounced' /\ CardsFollowRequests'
  BY <1>1, <1>2, <1>5, <1>6, GrownCards
<1> QED BY <1>4, <1>7 DEF Cards

LEMMA BeginClearCards ==
    ASSUME TypeOK, TypeOK', Cards, NEW s \in Sessions, BeginClear(s)
    PROVE  Cards'
<1>1. /\ open' = open \ OpenOf(s) /\ cancels' = cancels \cup OpenOf(s) /\ OpenOf(s) \subseteq open
      /\ UNCHANGED <<of, prompts, sel, cards, busy, missed, ghosts, pipe>>
  BY DEF BeginClear, OpenOf, tab, history
<1>2. pipe' = pipe \o <<>> /\ <<>> \in Seq(Event) /\ 1..Len(<<>>) = {}
  BY <1>1, UnchangedIsQuiet
<1>3. Requested'
  BY <1>1 DEF Cards, Requested
<1>4. \A t \in open' \ missed' : of'[t] = sel => t \in open \ missed /\ of[t] = sel
  BY <1>1
<1>5. Announced' /\ Reannounced' /\ CardsFollowRequests'
  <2>1. /\ \A t \in open \cup cancels : t \in open' \cup cancels'
        /\ ghosts \subseteq ghosts' /\ cards' \subseteq cards
        /\ \A t \in open' \ missed' : of'[t] = sel => t \in open \ missed /\ of[t] = sel
        /\ (cards \ cards') \cap open' = {}
    BY <1>1, <1>4
  <2>2. UNCHANGED sel
    BY <1>1
  <2> DEFINE ev == <<>>
  <2>3. pipe' = pipe \o ev /\ ev \in Seq(Event) /\ \A k \in 1..Len(ev) : FALSE
    BY <1>2
  <2> HIDE DEF ev
  <2> QED BY <2>1, <2>2, <2>3, GrownCards
<1> QED BY <1>3, <1>5 DEF Cards

LEMMA DecidedCards ==
    ASSUME TypeOK, TypeOK', Cards, NEW r \in Requests, Decided(r)
    PROVE  Cards'
<1>1. /\ r \in busy /\ busy' = busy \ {r} /\ cards' = cards \ {r}
      /\ UNCHANGED <<open, of, prompts, cancels, sel, pipe, missed, ghosts>>
  BY DEF Decided, server, history
<1>2. pipe' = pipe \o <<>> /\ <<>> \in Seq(Event) /\ 1..Len(<<>>) = {}
  BY <1>1, UnchangedIsQuiet
<1>3. Requested'
  BY <1>1 DEF Cards, Requested
<1>4. (cards \ cards') \cap open' = {}
  BY <1>1 DEF Cards, Requested
<1>5. Announced' /\ Reannounced' /\ CardsFollowRequests'
  <2>1. /\ \A t \in open \cup cancels : t \in open' \cup cancels'
        /\ ghosts \subseteq ghosts' /\ cards' \subseteq cards
        /\ \A t \in open' \ missed' : of'[t] = sel => t \in open \ missed /\ of[t] = sel
        /\ (cards \ cards') \cap open' = {}
    BY <1>1, <1>4
  <2>2. UNCHANGED sel
    BY <1>1
  <2> DEFINE ev == <<>>
  <2>3. pipe' = pipe \o ev /\ ev \in Seq(Event) /\ \A k \in 1..Len(ev) : FALSE
    BY <1>2
  <2> HIDE DEF ev
  <2> QED BY <2>1, <2>2, <2>3, GrownCards
<1> QED BY <1>3, <1>5 DEF Cards

\* An empty pipe announces nothing.
LEMMA EmptyCards ==
    ASSUME TypeOK, TypeOK', pipe' = <<>>,
           \A r \in open' \cup cancels' \cup prompts' \cup cards' \cup busy' : of'[r] # None,
           open' \cap cancels' = {}, open' \cap busy' = {},
           cards' \ ghosts' \subseteq open' \cup cancels',
           \A r \in open' \ missed' : of'[r] = sel' => r \in cards'
    PROVE  Cards'
<1>1. \A kind, r : ~At(pipe', kind, r)
  BY DEF At
<1>2. Requested'
  BY <1>1 DEF Requested
<1>3. Announced' /\ Reannounced'
  BY DEF Announced, Reannounced
<1>4. CardsFollowRequests'
  BY DEF CardsFollowRequests
<1> QED BY <1>2, <1>3, <1>4 DEF Cards

LEMMA SelectCards ==
    ASSUME TypeOK, TypeOK', Cards, NEW s \in Sessions, Select(s)
    PROVE  Cards'
<1>1. /\ sel' = s /\ pipe' = <<>> /\ cards' = {}
      /\ missed' = missed \cup {r \in open : of[r] = s}
      /\ UNCHANGED <<open, of, prompts, cancels, busy, ghosts>>
  BY DEF Select, server
<1>2. /\ \A r \in open' \cup cancels' \cup prompts' \cup cards' \cup busy' : of'[r] # None
      /\ open' \cap cancels' = {} /\ open' \cap busy' = {}
  BY <1>1 DEF Cards, Requested
<1> QED BY <1>1, <1>2, EmptyCards

LEMMA CloseCards ==
    ASSUME TypeOK, TypeOK', Cards, Close
    PROVE  Cards'
<1>1. /\ sel' = None /\ pipe' = <<>> /\ cards' = {} /\ busy' = {}
      /\ UNCHANGED <<open, of, prompts, cancels, missed, ghosts>>
  BY DEF Close, server, history
<1>2. /\ \A r \in open' \cup cancels' \cup prompts' \cup cards' \cup busy' : of'[r] # None
      /\ open' \cap cancels' = {} /\ open' \cap busy' = {}
  BY <1>1 DEF Cards, Requested
<1> QED BY <1>1, <1>2, EmptyCards

LEMMA DisconnectCards ==
    ASSUME TypeOK, TypeOK', Cards, Disconnect
    PROVE  Cards'
<1>1. /\ pipe' = <<>>
      /\ missed' = missed \cup (Lost({"requested", "cleared"}) \ {None})
      /\ ghosts' = ghosts \cup Lost({"removed"})
      /\ UNCHANGED <<open, of, prompts, cancels, sel, cards, busy>>
  BY DEF Disconnect, server
<1>2. ASSUME NEW kind, NEW kinds, kind \in kinds, NEW r, At(pipe, kind, r)
      PROVE  r \in Lost(kinds)
  <2>1. PICK p \in 1..Len(pipe) : pipe[p] = Ev(kind, r)
    BY <1>2 DEF At
  <2>2. p \in DOMAIN pipe
    BY DEF TypeOK
  <2>3. pipe[p].kind \in kinds /\ pipe[p].request = r
    BY <1>2, <2>1, EventTypes
  <2> QED BY <2>2, <2>3 DEF Lost
<1>3. \A r \in open \ missed : of[r] = sel => r \in cards \/ r \in missed'
  <2>1. \A r \in open : r # None
    BY DashboardAssumption DEF TypeOK
  <2> QED BY <1>1, <1>2, <2>1, InPipeAt DEF Cards, CardsFollowRequests
<1>4. cards' \ ghosts' \subseteq open' \cup cancels'
  BY <1>1, <1>2, InPipeAt DEF Cards, CardsFollowRequests
<1>5. /\ \A r \in open' \cup cancels' \cup prompts' \cup cards' \cup busy' : of'[r] # None
      /\ open' \cap cancels' = {} /\ open' \cap busy' = {}
  BY <1>1 DEF Cards, Requested
<1>6. \A r \in open' \ missed' : of'[r] = sel' => r \in cards'
  BY <1>1, <1>3
<1> QED BY <1>1, <1>4, <1>5, <1>6, EmptyCards

LEMMA RestartCards ==
    ASSUME TypeOK, TypeOK', Cards, Restart
    PROVE  Cards'
<1>1. /\ open' = {} /\ prompts' = {} /\ cancels' = {} /\ busy' = {} /\ pipe' = <<>>
      /\ ghosts' = ghosts \cup {r \in Requests : of[r] # None}
      /\ UNCHANGED <<of, sel, cards, missed>>
  BY DEF Restart
<1>2. \A r \in cards : of[r] # None /\ r \in Requests
  BY DEF Cards, Requested, TypeOK
<1> QED BY <1>1, <1>2, EmptyCards

LEMMA HandleCards ==
    ASSUME TypeOK, TypeOK', Cards, Handle
    PROVE  Cards'
<1> DEFINE e == Head(pipe)
<1>1. /\ pipe \in Seq(Event) /\ pipe # <<>> /\ pipe' = Tail(pipe) /\ e \in Event
      /\ e = pipe[1] /\ 1 \in 1..Len(pipe)
      /\ cards' = CardsAfter(e)
      /\ UNCHANGED <<open, of, prompts, cancels, sel, busy, missed, ghosts>>
  BY TailElements DEF Handle, TypeOK, server
<1>2. /\ \A kind, r : At(pipe, kind, r) <=> e = Ev(kind, r) \/ At(pipe', kind, r)
      /\ \A kind, r : Later(pipe, 1, kind, r) => At(pipe', kind, r)
      /\ \A p \in 1..Len(pipe') :
           /\ p + 1 \in 1..Len(pipe) /\ pipe'[p] = pipe[p + 1]
           /\ \A kind, r : Later(pipe, p + 1, kind, r) => Later(pipe', p, kind, r)
  BY <1>1, AtTail
<1> HIDE DEF e
<1>3. Announced'
  BY <1>1, <1>2 DEF Cards, Announced
<1>4. Reannounced'
  BY <1>1, <1>2 DEF Cards, Reannounced
<1>5. \A kind, r : InPipe(kind, r)' <=> At(pipe', kind, r)
  <2>1. DOMAIN pipe' = 1..Len(pipe')
    BY DEF TypeOK
  <2> QED BY <2>1 DEF InPipe, At
<1>6. /\ \A r \in cards \ ghosts : r \in open \cup cancels \/ At(pipe, "removed", r)
      /\ \A r \in open \ missed : of[r] = sel => r \in cards \/ At(pipe, "requested", r)
  BY InPipeAt DEF Cards, CardsFollowRequests
<1>7. \/ e.kind = "message" /\ cards' = cards
      \/ e.kind = "cleared" /\ cards' = {}
      \/ \E r \in Requests :
           \/ e = Ev("requested", r) /\ cards' = cards \cup {r}
           \/ e = Ev("removed", r) /\ cards' = cards \ {r}
  <2>1. \/ e.kind \in {"message", "cleared"}
        \/ e.kind \in {"requested", "removed"} /\ e.request \in Requests
    BY <1>1, EventTypes
  <2>2. e = Ev(e.kind, e.request)
    BY <1>1, EventTypes
  <2> QED BY <1>1, <2>1, <2>2 DEF CardsAfter
<1>8. CASE e.kind = "message" /\ cards' = cards
  <2>1. \A r : e # Ev("requested", r) /\ e # Ev("removed", r)
    BY <1>8, EventTypes
  <2>2. CardsFollowRequests'
    BY <1>1, <1>2, <1>5, <1>6, <1>8, <2>1 DEF CardsFollowRequests
  <2>3. Requested'
    BY <1>1, <1>2, <1>8 DEF Cards, Requested
  <2> QED BY <1>3, <1>4, <2>2, <2>3 DEF Cards
<1>9. CASE e.kind = "cleared" /\ cards' = {}
  <2>1. \A r \in open \ missed : of[r] = sel => At(pipe', "requested", r)
    BY <1>1, <1>2, <1>9 DEF Cards, Reannounced
  <2>2. CardsFollowRequests'
    BY <1>1, <1>5, <1>9, <2>1 DEF CardsFollowRequests
  <2>3. Requested'
    BY <1>1, <1>2, <1>9 DEF Cards, Requested
  <2> QED BY <1>3, <1>4, <2>2, <2>3 DEF Cards
<1>10. ASSUME NEW r \in Requests, e = Ev("requested", r), cards' = cards \cup {r}
       PROVE  Cards'
  <2>1. r \in open \cup cancels \cup ghosts \/ At(pipe', "removed", r)
    BY <1>1, <1>2, <1>10 DEF Cards, Announced
  <2>2. \A t : e # Ev("removed", t) /\ (e = Ev("requested", t) => t = r)
    BY <1>10, SameEvent
  <2>3. CardsFollowRequests'
    BY <1>1, <1>2, <1>5, <1>6, <1>10, <2>1, <2>2 DEF CardsFollowRequests
  <2>4. of[r] # None
    BY <1>2, <1>10 DEF Cards, Requested
  <2>5. Requested'
    BY <1>1, <1>2, <1>10, <2>4 DEF Cards, Requested
  <2> QED BY <1>3, <1>4, <2>3, <2>5 DEF Cards
<1>11. ASSUME NEW r \in Requests, e = Ev("removed", r), cards' = cards \ {r}
       PROVE  Cards'
  <2>1. r \notin open
    BY <1>2, <1>11 DEF Cards, Requested
  <2>2. \A t : e # Ev("requested", t) /\ (e = Ev("removed", t) => t = r)
    BY <1>11, SameEvent
  <2>3. CardsFollowRequests'
    BY <1>1, <1>2, <1>5, <1>6, <1>11, <2>1, <2>2 DEF CardsFollowRequests
  <2>4. Requested'
    BY <1>1, <1>2, <1>11 DEF Cards, Requested
  <2> QED BY <1>3, <1>4, <2>3, <2>4 DEF Cards
<1> QED BY <1>7, <1>8, <1>9, <1>10, <1>11

LEMMA PersistCards ==
    ASSUME TypeOK, TypeOK', Cards, NEW s \in Sessions, NEW n \in 1..2, NEW elsewhere \in BOOLEAN,
           NEW events \in 1..2, Persist(s, n, elsewhere, events)
    PROVE  Cards'
<1> DEFINE all == [i \in 1..events |-> Message]
           ev == IF Heard(s) THEN all ELSE <<>>
<1>1. all \in [1..events -> Event]
  BY EventTypes
<1>2. all \in Seq(Event) /\ \A k \in 1..Len(all) : all[k] = Message
  BY <1>1
<1>3. pipe \in Seq(Event) /\ pipe' = IF Heard(s) THEN pipe \o all ELSE pipe
  BY DEF Persist, Published, TypeOK
<1> HIDE DEF all
<1>4. ev \in Seq(Event) /\ pipe' = pipe \o ev /\ \A k \in 1..Len(ev) : ev[k] = Message
  BY <1>2, <1>3
<1>5. /\ UNCHANGED <<open, of, prompts, cancels, sel, cards, missed, ghosts>>
      /\ busy' \subseteq busy
  BY DEF Persist
<1> HIDE DEF ev
<1> QED BY <1>4, <1>5, QuietCards

LEMMA NextCards ==
    ASSUME TypeOK, TypeOK', Streams, Cards, [Next]_vars
    PROVE  Cards'
<1>1. ASSUME NEW s \in Sessions, Inbound(s) \/ OwnInbound(s) \/ Outbound(s)
      PROVE  Cards'
  <2>1. /\ 1 \in 1..2 /\ TRUE \in BOOLEAN /\ FALSE \in BOOLEAN
    OBVIOUS
  <2>2. CASE Inbound(s)
    BY <2>1, <2>2, PersistCards DEF Inbound
  <2>3. CASE OwnInbound(s)
    BY <2>1, <2>3, PersistCards DEF OwnInbound
  <2>4. CASE Outbound(s)
    BY <2>1, <2>4, PersistCards DEF Outbound
  <2> QED BY <1>1, <2>2, <2>3, <2>4
<1>2. ASSUME NEW s \in Sessions, Clear(s) \/ FinishClear(s)
      PROVE  Cards'
  BY <1>2, PurgeCards DEF Clear, FinishClear
<1>3. ASSUME NEW r \in Requests, Resolve(r) \/ Decide(r)
      PROVE  Cards'
  <2>1. /\ End(r) /\ UNCHANGED <<of, prompts, sel, cards, missed, ghosts>>
        /\ UNCHANGED busy \/ (r \in cards /\ busy' = busy \cup {r})
    BY <1>3 DEF Resolve, Decide, history
  <2> QED BY <2>1, EndCards
<1>4. ASSUME \/ \E s \in Sessions : Preview(s)
             \/ Subscribe \/ Sent
             \/ \E i \in DOMAIN asked : Answer(i) \/ Apply(i) \/ FetchFails(i)
             \/ \E r \in Requests : DecisionFails(r)
             \/ UNCHANGED vars
      PROVE  Cards'
  <2>1. /\ UNCHANGED <<open, of, prompts, cancels, sel, cards, missed, ghosts, pipe>>
        /\ busy' \subseteq busy
    BY <1>4 DEF Preview, Subscribe, Sent, Answer, Apply, FetchFails, DecisionFails, vars, server,
                tab, history
  <2> QED BY <2>1, StillCards
<1>5. CASE Daemon
  BY <1>5, <1>1, <1>2, <1>3, BeginClearCards, RequestCards, ApprovedCards, PromptCards, CancelCards
     DEF Daemon
<1>6. CASE Tab
  BY <1>6, <1>3, <1>4, SelectCards, CloseCards, HandleCards, DecidedCards DEF Tab
<1>7. CASE Mishaps
  BY <1>7, <1>4, DisconnectCards, RestartCards DEF Mishaps
<1> QED BY <1>4, <1>5, <1>6, <1>7 DEF Next

-----------------------------------------------------------------------------
\* The inductive invariant.
IInv == TypeOK /\ Counts /\ Streams /\ Panel /\ Cards

LEMMA InitIInv == Init => IInv
<1> SUFFICES ASSUME Init PROVE IInv
  OBVIOUS
<1>1. /\ <<>> \in Seq(Event) /\ <<>> \in Seq(Fetch) /\ Len(<<>>) = 0 /\ 1..Len(<<>>) = {}
  OBVIOUS
<1>2. pipe = <<>> /\ asked = <<>>
  BY DEF Init
<1>3. TypeOK
  <2>1. /\ rows \in [Sessions -> SUBSET (1..stored)] /\ stored \in 0..MaxRows
        /\ unread \in [Sessions -> 0..MaxRows] /\ told \in [Sessions -> 0..MaxRows]
        /\ fresh \in [Sessions -> 0..MaxRows]
    BY DashboardAssumption DEF Init
  <2>2. /\ of \in [Requests -> Sessions \cup {None}]
        /\ clearing \in [Sessions -> {None} \cup {<<w>> : w \in SUBSET Requests}]
    BY DEF Init
  <2>3. /\ pipe \in Seq(Event) /\ asked \in Seq(Fetch) /\ Len(asked) <= MaxAsked
        /\ selects \in 0..MaxSelects /\ mishaps \in 0..MaxMishaps
    BY <1>1, <1>2, DashboardAssumption DEF Init
  <2>4. /\ open = {} /\ prompts = {} /\ cancels = {} /\ sel = None /\ stream = "closed"
        /\ shown = {} /\ cards = {} /\ busy = {} /\ behind = FALSE /\ missed = {} /\ ghosts = {}
    BY DEF Init
  <2> QED BY <2>1, <2>2, <2>3, <2>4 DEF TypeOK
<1>4. Counts /\ Streams
  BY DashboardAssumption DEF Init, Counts, UnreadIsNew, Streams
<1>5. Panel
  BY <1>1, <1>2 DEF Init, Panel, ShownOrComing, AnswersAreRows, ClearsArePurges
<1>6. Cards
  BY <1>1, <1>2 DEF Init, Cards, Requested, Announced, Reannounced, CardsFollowRequests, At
<1> QED BY <1>3, <1>4, <1>5, <1>6 DEF IInv

LEMMA NextIInv == IInv /\ [Next]_vars => IInv'
<1> SUFFICES ASSUME IInv, [Next]_vars PROVE IInv'
  OBVIOUS
<1>1. TypeOK' /\ Counts'
  BY NextType DEF IInv
<1>2. Streams' /\ Panel'
  BY NextStreams, NextPanel DEF IInv
<1>3. Cards'
  BY <1>1, NextCards DEF IInv
<1> QED BY <1>1, <1>2, <1>3 DEF IInv

\* The inductive invariant holds in every state of every behaviour.
THEOREM Inductive == Spec => []IInv
<1> QED BY InitIInv, NextIInv, PTL DEF Spec

\* Every variable keeps its type: the counts stay within the rows stored, the panel's
\* cards and messages are requests and rows, its fetches are of sessions.
THEOREM TypeCorrect == Spec => []TypeOK
<1>1. IInv => TypeOK
  BY DEF IInv
<1> QED BY <1>1, Inductive, PTL

\* incrementUnread and clearUnread keep the badge of a session: it is above zero
\* exactly while a message of another adapter has come since the last fetch of
\* the transcript, and the router's tracker knows it unless rederd was restarted.
THEOREM BadgeIsNew == Spec => []UnreadIsNew
<1>1. IInv => UnreadIsNew
  BY DEF IInv, Counts
<1> QED BY <1>1, Inductive, PTL

\* A panel that has handled its events and has all its answers shows the rows of its
\* session, whatever clears, fetches and streams raced, unless something was lost.
THEOREM PanelShowsRows == Spec => []PanelCatchesUp
<1>1. IInv => PanelCatchesUp
  <2> SUFFICES ASSUME IInv, sel # None, pipe = <<>>, asked = <<>>, ~behind
               PROVE  shown = rows[sel]
    BY DEF PanelCatchesUp
  <2>1. 1..Len(pipe) = {} /\ 1..Len(asked) = {}
    OBVIOUS
  <2> QED BY <2>1 DEF IInv, Panel, ShownOrComing, Has
<1> QED BY <1>1, Inductive, PTL

\* The cards of the panel are the requests the relay waits for, but for those whose
\* removal is in the stream or still to be handed over, however verdicts, cancels,
\* clears and reloads interleave.
THEOREM CardsAreRequests == Spec => []CardsFollowRequests
<1>1. IInv => CardsFollowRequests
  BY DEF IInv, Cards
<1> QED BY <1>1, Inductive, PTL
=============================================================================
