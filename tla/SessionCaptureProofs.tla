------------------------- MODULE SessionCaptureProofs -------------------------
(***************************************************************************)
(* Theorems about SessionCapture, for any number of files, texts, prompts, *)
(* starts and mishaps: what hooks and transcripts bring is stored, and     *)
(* once; and a session is shown as working only while it is.               *)
(*                                                                         *)
(* The properties count the rows of a text.  The invariants count what     *)
(* rows stand for: a prompt that was read and has no row of its own was    *)
(* taken for one that its hook captured, and each captured prompt that is  *)
(* not in the cache any more was used for one such prompt at most.         *)
(***************************************************************************)
EXTENDS SessionCapture, FiniteSetTheorems, SequenceTheorems, TLAPS

-----------------------------------------------------------------------------
(* The invariants                                                          *)

\* The local prompts, and those whose hooks are on their way.
Local == {n \in DOMAIN prompts : ~prompts[n].relayed}
Pending == {hooks[i].prompt : i \in DOMAIN hooks} \ {None}

\* The prompts whose hook brought a row, and those whose transcript did.
ByHook == {n \in Ids : <<"ups", n>> \in inbound}
ByTail == {n \in Ids : <<"uuid", n>> \in inbound}

\* The local prompts before and behind the offset.
Between(f, first, last) ==
    {n \in Local : \E i \in first..last : transcript[f][i] = <<"user", n>>}
Behind == IF offset = None THEN {} ELSE Between(offset.file, 1, offset.at)
Ahead ==
    IF offset = None THEN Local
    ELSE Between(offset.file, offset.at + 1, Len(transcript[offset.file]))

\* The local prompts that say t and that no transcript will show or has shown.
Passed(t) == {n \in Saying(Local, t) : n \notin Ahead /\ n \notin ByTail}

\* Entries belong to prompts, those of a file in order; only a reply can be torn.
Written ==
    /\ \A f \in Files : \A i \in 1..Len(transcript[f]) : transcript[f][i][2] \in DOMAIN prompts
    /\ \A f \in Files : \A i, j \in 1..Len(transcript[f]) :
         i < j /\ transcript[f][i][1] = "user" /\ transcript[f][j][1] = "user" =>
           transcript[f][i][2] < transcript[f][j][2]
    /\ torn => claude.on /\ transcript[claude.file] # <<>>
    /\ claude.busy => claude.on /\ ~torn /\ prompts # <<>>

\* Hooks wait in the order of their prompts, which no hook has brought yet.
InOrder ==
    \A i, j \in DOMAIN hooks :
      i < j /\ hooks[i].prompt # None /\ hooks[j].prompt # None =>
        hooks[i].prompt < hooks[j].prompt
Queued ==
    /\ InOrder
    /\ Pending \subseteq DOMAIN prompts
    /\ Pending \cap ByHook = {}
    /\ ~overtaken /\ eager # None => \A n \in Pending : n > eager

\* Rows are of local prompts.  The offset is in its file, and what is ahead of it has
\* not been shown.
Caught ==
    /\ ByHook \cup ByTail \cup dropped \subseteq Local
    /\ eager # None => eager \in ByHook
    /\ offset # None => offset.at <= Complete(offset.file)
    /\ steady => ByTail \cap Ahead = {}

\* Prompts that were read and not inserted were taken for captured ones.
ReadIsShown ==
    steady => \A t \in Texts :
      Cardinality(Saying(Behind \ ByTail, t)) <= Cardinality(Saying(ByHook \ {eager}, t))

\* Captured prompts that left the cache were used for prompts that get no other row,
\* and so was the cached one if the transcript does not have it.
UsedOnce ==
    steady /\ ~overtaken => \A t \in Texts :
      /\ Cardinality(Saying(ByHook \ (dropped \cup {eager}), t)) <= Cardinality(Passed(t) \ Pending)
      /\ eager # None /\ eager \notin dropped /\ eager \notin Ahead =>
           Cardinality(Saying(ByHook \ dropped, t)) <= Cardinality(Passed(t) \ Pending)

\* The replies before the offset are stored, or were skipped.
RepliesAreStored ==
    offset # None =>
      \A i \in 1..offset.at :
        transcript[offset.file][i][1] = "assistant" =>
          transcript[offset.file][i][2] \in outbound \cup skipped

\* A prompt's hook is followed by its Stop, now or when the turn ends.
Works ==
    /\ \A i \in DOMAIN hooks : hooks[i].name = "Stop" => hooks[i].source = None
    /\ mishaps = 0 /\ ~overtaken =>
         /\ \A i \in DOMAIN hooks : hooks[i].name = "UserPromptSubmit" =>
              IF i = Len(hooks) THEN claude.busy ELSE hooks[i + 1].name = "Stop"
         /\ activity.seen /\ ~activity.stop =>
              IF hooks = <<>> THEN claude.busy ELSE hooks[1].name = "Stop"

IInv ==
    /\ TypeOK /\ Written /\ Queued /\ Caught
    /\ ReadIsShown /\ UsedOnce /\ RepliesAreStored /\ Works

-----------------------------------------------------------------------------
(* Sequences and sets                                                      *)

\* What is left of a sequence when one element is taken out.
LEMMA RemoveAtElements ==
    ASSUME NEW S, NEW q \in Seq(S), NEW i \in 1..Len(q)
    PROVE  /\ RemoveAt(q, i) \in Seq(S)
           /\ Len(RemoveAt(q, i)) = Len(q) - 1
           /\ \A k \in 1..(Len(q) - 1) :
                RemoveAt(q, i)[k] = IF k < i THEN q[k] ELSE q[k + 1]
<1> DEFINE a == SubSeq(q, 1, i - 1)
           b == SubSeq(q, i + 1, Len(q))
<1>1. a \in Seq(S) /\ Len(a) = i - 1 /\ \A k \in 1..(i - 1) : a[k] = q[k]
  OBVIOUS
<1>2. b \in Seq(S) /\ Len(b) = Len(q) - i /\ \A k \in 1..(Len(q) - i) : b[k] = q[i + k]
  OBVIOUS
<1>3. RemoveAt(q, i) = a \o b
  BY DEF RemoveAt
<1> HIDE DEF a, b
<1>4. a \o b \in Seq(S) /\ Len(a \o b) = Len(q) - 1
  <2>1. a \o b \in Seq(S) /\ Len(a \o b) = Len(a) + Len(b)
    BY <1>1, <1>2, ConcatProperties
  <2> QED BY <1>1, <1>2, <2>1
<1>5. ASSUME NEW k \in 1..(Len(q) - 1)
      PROVE  (a \o b)[k] = IF k < i THEN q[k] ELSE q[k + 1]
  <2>1. CASE k < i
    BY <1>1, <1>2, <2>1
  <2>2. CASE ~(k < i)
    <3>1. (a \o b)[k] = b[k - (i - 1)]
      BY <1>1, <1>2, <2>2
    <3>2. k - (i - 1) \in 1..(Len(q) - i)
      BY <2>2
    <3>3. b[k - (i - 1)] = q[i + (k - (i - 1))]
      BY <1>2, <3>2
    <3>4. i + (k - (i - 1)) = k + 1
      OBVIOUS
    <3> QED BY <2>2, <3>1, <3>3, <3>4
  <2> QED BY <2>1, <2>2
<1> QED BY <1>3, <1>4, <1>5

LEMMA AppendElements ==
    ASSUME NEW S, NEW q \in Seq(S), NEW e \in S
    PROVE  /\ Append(q, e) \in Seq(S)
           /\ Len(Append(q, e)) = Len(q) + 1 /\ Len(q) \in Nat
           /\ \A k \in 1..Len(q) : Append(q, e)[k] = q[k]
           /\ Append(q, e)[Len(q) + 1] = e
OBVIOUS

\* Sets of prompts are finite, so their sizes can be compared.
LEMMA Sizes ==
    ASSUME NEW A \in SUBSET Ids
    PROVE  IsFiniteSet(A) /\ Cardinality(A) \in Nat
<1>1. IsFiniteSet(Ids)
  <2>1. 1 \in Int /\ MaxPrompts \in Int
    BY SessionCaptureAssumption
  <2>2. IsFiniteSet(1..MaxPrompts)
    BY <2>1, FS_Interval
  <2> QED BY <2>2 DEF Ids
<1> QED BY <1>1, FS_Subset, FS_CardinalityType

LEMMA Smaller ==
    ASSUME NEW B \in SUBSET Ids, NEW A \in SUBSET B
    PROVE  Cardinality(A) <= Cardinality(B)
BY Sizes, FS_Subset

LEMMA OneMore ==
    ASSUME NEW A \in SUBSET Ids, NEW B \in SUBSET Ids, NEW x, A \subseteq B \cup {x}
    PROVE  Cardinality(A) <= Cardinality(B) + 1
<1>1. IsFiniteSet(B) /\ Cardinality(B) \in Nat
  BY Sizes
<1>2. IsFiniteSet(B \cup {x}) /\ Cardinality(B \cup {x}) <= Cardinality(B) + 1
  <2>1. /\ IsFiniteSet(B \cup {x})
        /\ Cardinality(B \cup {x}) = IF x \in B THEN Cardinality(B) ELSE Cardinality(B) + 1
    BY <1>1, FS_AddElement
  <2>2. CASE x \in B
    BY <1>1, <2>1, <2>2
  <2>3. CASE x \notin B
    BY <1>1, <2>1, <2>3
  <2> QED BY <2>2, <2>3
<1>3. Cardinality(A) <= Cardinality(B \cup {x})
  BY <1>2, FS_Subset
<1>4. Cardinality(B \cup {x}) \in Nat /\ Cardinality(A) \in Nat
  BY <1>2, FS_CardinalityType, Sizes
<1> QED BY <1>1, <1>2, <1>3, <1>4

LEMMA OneLess ==
    ASSUME NEW B \in SUBSET Ids, NEW A \in SUBSET B, NEW x \in B \ A
    PROVE  Cardinality(A) + 1 <= Cardinality(B)
<1>1. IsFiniteSet(B \ {x}) /\ Cardinality(B \ {x}) = Cardinality(B) - 1
  BY Sizes, FS_RemoveElement
<1>2. Cardinality(A) <= Cardinality(B \ {x})
  BY <1>1, FS_Subset
<1> QED BY <1>1, <1>2, Sizes

LEMMA Split ==
    ASSUME NEW A \in SUBSET Ids, NEW B \in SUBSET Ids, NEW C \in SUBSET Ids, A \subseteq B \cup C
    PROVE  Cardinality(A) <= Cardinality(B) + Cardinality(C)
<1>1. IsFiniteSet(B) /\ IsFiniteSet(C) /\ Cardinality(B) \in Nat /\ Cardinality(C) \in Nat
  BY Sizes
<1>2. IsFiniteSet(B \cup C) /\ Cardinality(B \cup C) = Cardinality(B) + Cardinality(C) - Cardinality(B \cap C)
  BY <1>1, FS_Union
<1>3. Cardinality(B \cap C) \in Nat /\ Cardinality(B \cup C) \in Nat /\ Cardinality(A) \in Nat
  BY Sizes
<1>4. Cardinality(A) <= Cardinality(B \cup C)
  BY Smaller
<1> QED BY <1>1, <1>2, <1>3, <1>4

LEMMA Disjoint ==
    ASSUME NEW A \in SUBSET Ids, NEW B \in SUBSET A, NEW C \in SUBSET A, B \cap C = {}
    PROVE  Cardinality(B) + Cardinality(C) <= Cardinality(A)
<1>1. IsFiniteSet(B) /\ IsFiniteSet(C) /\ Cardinality(B) \in Nat /\ Cardinality(C) \in Nat
  BY Sizes
<1>2. Cardinality(B \cup C) = Cardinality(B) + Cardinality(C) - Cardinality(B \cap C)
  BY <1>1, FS_Union
<1>3. Cardinality(B \cap C) = 0
  BY FS_EmptySet
<1>4. Cardinality(B \cup C) <= Cardinality(A) /\ Cardinality(A) \in Nat
  BY Smaller, Sizes
<1> QED BY <1>1, <1>2, <1>3, <1>4

LEMMA Keyed ==
    ASSUME NEW kind, NEW A \in SUBSET Ids
    PROVE  IsFiniteSet({kind} \X A) /\ Cardinality({kind} \X A) = Cardinality(A)
<1>1. IsFiniteSet({kind}) /\ Cardinality({kind}) = 1
  BY FS_Singleton
<1>2. IsFiniteSet(A) /\ Cardinality(A) \in Nat
  BY Sizes
<1>3. IsFiniteSet({kind} \X A) /\ Cardinality({kind} \X A) = Cardinality({kind}) * Cardinality(A)
  BY <1>1, <1>2, FS_Product
<1>4. Cardinality({kind}) * Cardinality(A) = Cardinality(A)
  BY <1>1, <1>2
<1> QED BY <1>3, <1>4

-----------------------------------------------------------------------------
(* Types                                                                   *)

LEMMA PromptTypes ==
    ASSUME TypeOK
    PROVE  /\ DOMAIN prompts = 1..Len(prompts) /\ Len(prompts) \in 0..MaxPrompts
           /\ DOMAIN prompts \subseteq Ids /\ None \notin Ids
           /\ \A n \in DOMAIN prompts : prompts[n] \in Prompts /\ prompts[n].relayed \in BOOLEAN
           /\ Local \subseteq DOMAIN prompts /\ Local \subseteq Ids
<1>1. DOMAIN prompts = 1..Len(prompts) /\ Len(prompts) \in 0..MaxPrompts
  BY SessionCaptureAssumption DEF TypeOK
<1>2. DOMAIN prompts \subseteq Ids /\ None \notin Ids
  BY <1>1, SessionCaptureAssumption DEF Ids
<1>3. \A n \in DOMAIN prompts : prompts[n] \in Prompts
  BY <1>1 DEF TypeOK
<1> QED BY <1>1, <1>2, <1>3 DEF Prompts, Local

LEMMA HookTypes ==
    ASSUME TypeOK
    PROVE  /\ DOMAIN hooks = 1..Len(hooks) /\ Len(hooks) \in Nat
           /\ \A i \in DOMAIN hooks :
                /\ hooks[i] \in Hooks /\ hooks[i].file \in Files
                /\ hooks[i].prompt \in Ids \cup {None}
<1>1. DOMAIN hooks = 1..Len(hooks) /\ Len(hooks) \in Nat
  BY DEF TypeOK
<1>2. \A i \in DOMAIN hooks : hooks[i] \in Hooks
  BY <1>1 DEF TypeOK
<1> QED BY <1>1, <1>2 DEF Hooks

LEMMA FileTypes ==
    ASSUME TypeOK, NEW f \in Files
    PROVE  /\ transcript[f] \in Seq(Entries) /\ Len(transcript[f]) \in Nat
           /\ \A i \in 1..Len(transcript[f]) :
                /\ transcript[f][i] \in Entries /\ transcript[f][i][1] \in {"user", "assistant"}
                /\ transcript[f][i] = <<transcript[f][i][1], transcript[f][i][2]>>
BY DEF TypeOK, Entries

LEMMA OffsetTypes ==
    ASSUME TypeOK
    PROVE  /\ claude.file \in Files /\ claude.on \in BOOLEAN /\ claude.busy \in BOOLEAN
           /\ offset # None => offset \in [file : Files, at : Nat] /\ offset.file \in Files /\ offset.at \in Nat
           /\ \A f \in Files, a \in Nat : [file |-> f, at |-> a] # None
BY SessionCaptureAssumption DEF TypeOK

LEMMA Bounds ==
    ASSUME TypeOK, Written, NEW f \in Files
    PROVE  /\ Complete(f) \in 0..Len(transcript[f])
           /\ From(f) \in 0..Len(transcript[f])
           /\ From(f) = 0 \/ (offset # None /\ From(f) = offset.at)
<1>1. Len(transcript[f]) \in Nat /\ (transcript[f] # <<>> => Len(transcript[f]) > 0)
  BY FileTypes
<1>2. torn /\ f = claude.file => Len(transcript[f]) > 0
  BY <1>1 DEF Written
<1>3. Complete(f) \in 0..Len(transcript[f])
  <2>1. CASE torn /\ f = claude.file
    BY <1>1, <1>2, <2>1 DEF Complete
  <2>2. CASE ~(torn /\ f = claude.file)
    <3>1. Complete(f) = Len(transcript[f]) - 0
      BY <2>2, Zenon DEF Complete
    <3> QED BY <1>1, <3>1
  <2> QED BY <2>1, <2>2
<1>4. From(f) \in 0..Len(transcript[f]) /\ (From(f) = 0 \/ (offset # None /\ From(f) = offset.at))
  BY <1>1, <1>3, OffsetTypes DEF From
<1> QED BY <1>3, <1>4

LEMMA UnreadTypes ==
    ASSUME TypeOK, NEW f, NEW kind, NEW last
    PROVE  /\ Unread(f, kind, last) \subseteq DOMAIN prompts /\ Unread(f, kind, last) \subseteq Ids
           /\ Unread(f, "user", last) \subseteq Local
           /\ Foreign(f) \subseteq Ids
<1>1. ASSUME NEW n PROVE IsLocal(<<"user", n>>) <=> ~prompts[n].relayed
  BY DEF IsLocal
<1> QED BY <1>1, PromptTypes DEF Unread, Local, Foreign

\* A hook that leaves the queue, handled or lost.
LEMMA LeavesQueue ==
    ASSUME TypeOK, NEW i \in DOMAIN hooks, hooks' = RemoveAt(hooks, i)
    PROVE  /\ hooks' \in Seq(Hooks) /\ Len(hooks') = Len(hooks) - 1
           /\ DOMAIN hooks' = 1..(Len(hooks) - 1)
           /\ \A k \in DOMAIN hooks' : hooks'[k] = IF k < i THEN hooks[k] ELSE hooks[k + 1]
<1>1. hooks \in Seq(Hooks) /\ i \in 1..Len(hooks)
  BY HookTypes DEF TypeOK
<1>2. /\ RemoveAt(hooks, i) \in Seq(Hooks) /\ Len(RemoveAt(hooks, i)) = Len(hooks) - 1
      /\ \A k \in 1..(Len(hooks) - 1) :
           RemoveAt(hooks, i)[k] = IF k < i THEN hooks[k] ELSE hooks[k + 1]
  BY <1>1, RemoveAtElements
<1>3. DOMAIN RemoveAt(hooks, i) = 1..(Len(hooks) - 1)
  BY <1>2
<1> QED BY <1>2, <1>3

\* One that joins it.
LEMMA JoinsQueue ==
    ASSUME TypeOK, NEW name \in {"SessionStart", "UserPromptSubmit", "Stop"},
           NEW source \in {"startup", "clear", "resume", "compact", None},
           NEW prompt \in Ids \cup {None}, NEW f \in Files, Fire(name, source, prompt, f)
    PROVE  /\ hooks' \in Seq(Hooks) /\ Len(hooks') = Len(hooks) + 1
           /\ DOMAIN hooks' = 1..(Len(hooks) + 1)
           /\ \A k \in DOMAIN hooks : hooks'[k] = hooks[k]
           /\ hooks'[Len(hooks) + 1] = [name |-> name, source |-> source, prompt |-> prompt, file |-> f]
<1> DEFINE h == [name |-> name, source |-> source, prompt |-> prompt, file |-> f]
<1>1. hooks \in Seq(Hooks) /\ h \in Hooks /\ hooks' = Append(hooks, h)
  BY DEF TypeOK, Hooks, Fire
<1> HIDE DEF h
<1>2. /\ hooks' \in Seq(Hooks) /\ Len(hooks') = Len(hooks) + 1 /\ Len(hooks) \in Nat
      /\ \A k \in 1..Len(hooks) : hooks'[k] = hooks[k]
      /\ hooks'[Len(hooks) + 1] = h
  BY <1>1, AppendElements
<1>3. DOMAIN hooks' = 1..(Len(hooks) + 1) /\ DOMAIN hooks = 1..Len(hooks)
  BY <1>1, <1>2
<1> QED BY <1>2, <1>3 DEF h

\* What Capture inserts has the types of keys and replies.
LEMMA CaptureType ==
    ASSUME TypeOK, NEW f, NEW last, Capture(f, last)
    PROVE  inbound' \subseteq Keys /\ outbound' \subseteq Ids
<1>1. /\ Unread(f, "user", last) \subseteq Ids /\ Unread(f, "assistant", last) \subseteq Ids
      /\ inbound \subseteq Keys /\ outbound \subseteq Ids
  BY UnreadTypes DEF TypeOK
<1>2. inbound' = inbound \cup {"uuid"} \X (Unread(f, "user", last) \ Cached(Unread(f, "user", last)))
  BY DEF Capture, InsertPrompts
<1>3. {"uuid"} \X (Unread(f, "user", last) \ Cached(Unread(f, "user", last))) \subseteq Keys
  BY <1>1 DEF Keys
<1>4. outbound' = outbound \cup Unread(f, "assistant", last)
  BY DEF Capture, InsertReplies
<1> QED BY <1>1, <1>2, <1>3, <1>4

\* The variables of claude and its hooks have their types.
WorldOK ==
    /\ transcript \in [Files -> Seq(Entries)] /\ torn \in BOOLEAN
    /\ claude \in [on : BOOLEAN, file : Files, busy : BOOLEAN]
    /\ prompts \in Seq(Prompts) /\ Len(prompts) <= MaxPrompts
    /\ hooks \in Seq(Hooks) /\ starts \in 0..MaxStarts /\ mishaps \in 0..MaxMishaps

LEMMA StartsType ==
    ASSUME TypeOK, NEW source \in {"startup", "clear", "resume", "compact"}, NEW f \in Files,
           Starts(source, f)
    PROVE  TypeOK'
<1>1. hooks' \in Seq(Hooks)
  BY JoinsQueue DEF Starts
<1>2. WorldOK'
  BY <1>1, SessionCaptureAssumption DEF Starts, TypeOK, WorldOK
<1> QED BY <1>2 DEF Starts, TypeOK, WorldOK, memory, database, history

LEMMA SubmitType ==
    ASSUME TypeOK, NEW p \in Prompts, NEW whole \in BOOLEAN, Submit(p, whole)
    PROVE  TypeOK'
<1> DEFINE n == Len(prompts) + 1
           f == claude.file
<1>1. n \in Ids /\ Len(prompts) \in Nat
  BY PromptTypes, SessionCaptureAssumption DEF Submit, Ids
<1>2. f \in Files
  BY OffsetTypes
<1>3. hooks' \in Seq(Hooks)
  <2>1. Fire("UserPromptSubmit", None, IF whole THEN n ELSE None, f) /\ (IF whole THEN n ELSE None) \in Ids \cup {None}
    BY <1>1 DEF Submit
  <2> QED BY <1>2, <2>1, JoinsQueue
<1>4. prompts' \in Seq(Prompts) /\ Len(prompts') = n /\ n <= MaxPrompts
  BY <1>1, PromptTypes, SessionCaptureAssumption DEF Submit, TypeOK
<1>5. transcript' \in [Files -> Seq(Entries)]
  <2>1. <<"user", n>> \in Entries /\ transcript[f] \in Seq(Entries)
    BY <1>1, <1>2, FileTypes DEF Entries
  <2>2. Append(transcript[f], <<"user", n>>) \in Seq(Entries)
    BY <2>1
  <2>3. transcript' = [transcript EXCEPT ![f] = Append(transcript[f], <<"user", n>>)]
    BY DEF Submit
  <2> QED BY <2>2, <2>3 DEF TypeOK
<1>6. mishaps' \in 0..MaxMishaps
  BY SessionCaptureAssumption DEF Submit, TypeOK
<1>7. claude' \in [on : BOOLEAN, file : Files, busy : BOOLEAN]
  BY DEF Submit, TypeOK
<1>8. UNCHANGED <<torn, starts, memory, database, history>>
  BY DEF Submit
<1> QED BY <1>3, <1>4, <1>5, <1>6, <1>7, <1>8 DEF TypeOK, memory, database, history


LEMMA ReplyType ==
    ASSUME TypeOK, Written, Reply
    PROVE  TypeOK'
<1> DEFINE n == Len(prompts)
           f == claude.file
<1>1. n \in Ids
  BY PromptTypes DEF Reply, Written, Ids, TypeOK
<1>2. f \in Files
  BY OffsetTypes
<1>3. hooks' \in Seq(Hooks)
  BY <1>2, JoinsQueue DEF Reply
<1>4. transcript' \in [Files -> Seq(Entries)]
  <2>1. <<"assistant", n>> \in Entries /\ transcript[f] \in Seq(Entries)
    BY <1>1, <1>2, FileTypes DEF Entries
  <2>2. Append(transcript[f], <<"assistant", n>>) \in Seq(Entries)
    BY <2>1
  <2>3. transcript' = [transcript EXCEPT ![f] = Append(transcript[f], <<"assistant", n>>)]
    BY DEF Reply
  <2> QED BY <2>2, <2>3 DEF TypeOK
<1>5. claude' \in [on : BOOLEAN, file : Files, busy : BOOLEAN]
  BY DEF Reply, TypeOK
<1> QED BY <1>3, <1>4, <1>5 DEF Reply, TypeOK, memory, database, history

LEMMA StillType ==
    ASSUME TypeOK, FinishEntry \/ Interrupt \/ Exit \/ ShimConnected \/ ShimDisconnected
    PROVE  TypeOK'
<1>1. CASE FinishEntry
  BY <1>1 DEF FinishEntry, TypeOK, hookVars, memory, database, history
<1>2. CASE Interrupt
  <2>1. mishaps' \in 0..MaxMishaps
    BY <1>2, SessionCaptureAssumption DEF Interrupt, TypeOK
  <2>2. claude' \in [on : BOOLEAN, file : Files, busy : BOOLEAN]
    BY <1>2 DEF Interrupt, TypeOK
  <2> QED BY <1>2, <2>1, <2>2 DEF Interrupt, TypeOK, hookVars, memory, database, history
<1>3. CASE Exit
  BY <1>3 DEF Exit, TypeOK, hookVars, memory, database, history
<1>4. CASE ShimConnected
  BY <1>4 DEF ShimConnected, TypeOK, world, hookVars, database, history
<1>5. CASE ShimDisconnected
  BY <1>5 DEF ShimDisconnected, TypeOK, world, hookVars, database, history
<1> QED BY <1>1, <1>2, <1>3, <1>4, <1>5

LEMMA HandledType ==
    ASSUME TypeOK, NEW i \in DOMAIN hooks, BeginClear(i) \/ Resumed(i) \/ CapturePrompt(i)
    PROVE  TypeOK'
<1>1. hooks' \in Seq(Hooks)
  BY LeavesQueue DEF BeginClear, Resumed, CapturePrompt, Take
<1>2. inbound' \subseteq Keys /\ eager' \in Ids \cup {None} /\ dropped' \subseteq Ids
  <2>1. CASE BeginClear(i) \/ Resumed(i)
    BY <2>1 DEF TypeOK, BeginClear, Resumed, database
  <2>2. CASE CapturePrompt(i) /\ UNCHANGED <<inbound, eager, dropped>>
    BY <2>2 DEF TypeOK
  <2>3. CASE CapturePrompt(i) /\ ~UNCHANGED <<inbound, eager, dropped>>
    <3> DEFINE n == hooks[i].prompt
    <3>1. /\ inbound' = inbound \cup {"ups"} \X {n} /\ eager' = n /\ n # None
          /\ dropped' = dropped \cup ({eager} \ {None}) \cup {m \in {n} : <<"uuid", m>> \in inbound}
      BY <2>3 DEF CapturePrompt, InsertPrompts
    <3>2. n \in Ids
      BY <3>1, HookTypes
    <3> QED BY <3>1, <3>2 DEF TypeOK, Keys
  <2> QED BY <2>1, <2>2, <2>3
<1>3. UNCHANGED <<world, starts, mishaps, shim, offset, outbound, skipped, steady>> /\ overtaken' \in BOOLEAN
  BY DEF BeginClear, Resumed, CapturePrompt, Take, TypeOK, database
<1>4. clears' \in Nat
  BY DEF BeginClear, Resumed, CapturePrompt, TypeOK
<1>5. activity' \in [seen : BOOLEAN, stop : BOOLEAN]
  <2>1. \A name : AfterHook(name) \in [seen : BOOLEAN, stop : BOOLEAN]
    BY DEF AfterHook
  <2>2. activity' = activity \/ \E name : activity' = AfterHook(name)
    BY DEF BeginClear, Resumed, CapturePrompt
  <2> QED BY <2>1, <2>2 DEF TypeOK
<1> QED BY <1>1, <1>2, <1>3, <1>4, <1>5 DEF TypeOK, world

LEMMA FinishClearType ==
    ASSUME TypeOK, FinishClear
    PROVE  TypeOK'
<1>1. clears' \in Nat /\ activity' \in [seen : BOOLEAN, stop : BOOLEAN]
  BY DEF FinishClear, AfterHook, TypeOK
<1> QED BY <1>1 DEF FinishClear, Forgotten, TypeOK, world, hookVars

LEMMA CachedTypes ==
    ASSUME NEW ns \in SUBSET Ids, eager \in Ids \cup {None}
    PROVE  Cached(ns) \subseteq ns /\ Left(ns) \in {eager, None}
BY DEF Cached, Left

LEMMA CaptureTranscriptType ==
    ASSUME TypeOK, Written, NEW i \in DOMAIN hooks, CaptureTranscript(i)
    PROVE  TypeOK'
<1> DEFINE f == hooks[i].file
<1>1. hooks' \in Seq(Hooks) /\ f \in Files
  BY LeavesQueue, HookTypes DEF CaptureTranscript, Take
<1>2. inbound' \subseteq Keys /\ outbound' \subseteq Ids
  BY CaptureType DEF CaptureTranscript
<1>3. eager' \in Ids \cup {None}
  BY CachedTypes, UnreadTypes DEF CaptureTranscript, TypeOK
<1>4. offset' \in [file : Files, at : Nat] \cup {None} /\ steady' \in BOOLEAN
  <2>1. Complete(f) \in Nat
    BY <1>1, Bounds, FileTypes
  <2>2. [file |-> f, at |-> Complete(f)] \in [file : Files, at : Nat]
    BY <1>1, <2>1
  <2> QED BY <2>2 DEF CaptureTranscript, Consume, NewOffset, TypeOK
<1>7. skipped' \subseteq Ids
  BY UnreadTypes DEF CaptureTranscript, TypeOK
<1>5. UNCHANGED <<world, starts, mishaps, shim, clears, dropped>> /\ overtaken' \in BOOLEAN
  BY DEF CaptureTranscript, Take, TypeOK
<1>6. activity' \in [seen : BOOLEAN, stop : BOOLEAN]
  BY DEF CaptureTranscript, AfterHook
<1> QED BY <1>1, <1>2, <1>3, <1>4, <1>5, <1>6, <1>7 DEF TypeOK, world

LEMMA RestartedType ==
    ASSUME TypeOK, Restarted,
           inbound' \subseteq Keys, outbound' \subseteq Ids,
           offset' \in [file : Files, at : Nat] \cup {None}, skipped' \subseteq Ids, steady' \in BOOLEAN
    PROVE  TypeOK'
<1>1. mishaps' \in 0..MaxMishaps /\ hooks' \in Seq(Hooks) /\ clears' \in Nat
  BY SessionCaptureAssumption DEF TypeOK, Restarted
<1>2. dropped' \subseteq Ids
  BY DEF TypeOK, Restarted
<1> QED BY <1>1, <1>2 DEF TypeOK, Restarted, world

LEMMA MishapType ==
    ASSUME TypeOK, Written, Mishap
    PROVE  TypeOK'
<1>1. CASE Crash
  BY <1>1, RestartedType DEF Crash, database, TypeOK
<1>2. ASSUME NEW i \in DOMAIN hooks, LoseHook(i)
      PROVE  TypeOK'
  <2>1. hooks' \in Seq(Hooks)
    BY <1>2, LeavesQueue DEF LoseHook
  <2>2. mishaps' \in 0..MaxMishaps
    BY <1>2, SessionCaptureAssumption DEF LoseHook, TypeOK
  <2> QED BY <1>2, <2>1, <2>2 DEF LoseHook, TypeOK, world, memory, database, history
<1>3. ASSUME NEW i \in DOMAIN hooks, CrashMidway(i)
      PROVE  TypeOK'
  <2>1. hooks[i].file \in Files
    BY HookTypes
  <2>2. inbound' \subseteq Keys /\ outbound' \subseteq Ids
    BY <1>3, CaptureType DEF CrashMidway
  <2>3. Complete(hooks[i].file) \in Nat
    BY <2>1, Bounds, FileTypes
  <2>4. offset' \in [file : Files, at : Nat] \cup {None}
    BY <1>3, <2>1, <2>3 DEF CrashMidway, NewOffset
  <2>5. skipped' \subseteq Ids
    BY <1>3, UnreadTypes DEF CrashMidway, TypeOK
  <2> QED BY <1>3, <2>2, <2>4, <2>5, RestartedType DEF CrashMidway
<1> QED BY <1>1, <1>2, <1>3 DEF Mishap

LEMMA NextType ==
    ASSUME TypeOK, Written, [Next]_vars
    PROVE  TypeOK'
<1>1. ASSUME Claude PROVE TypeOK'
  <2>1. ASSUME NEW f \in Files, Startup(f) \/ Resume(f) \/ Clear(f)
        PROVE  TypeOK'
    BY <2>1, StartsType DEF Startup, Resume, Clear
  <2>2. CASE Compact
    BY <2>2, StartsType, OffsetTypes DEF Compact
  <2> QED BY <1>1, <2>1, <2>2, ReplyType, StillType, SubmitType DEF Claude
<1>2. CASE Daemon
  BY <1>2, HandledType, CaptureTranscriptType, FinishClearType, StillType DEF Daemon
<1>3. CASE UNCHANGED vars
  BY <1>3 DEF vars, world, hookVars, memory, database, history, TypeOK
<1> QED BY <1>1, <1>2, <1>3, MishapType DEF Next

-----------------------------------------------------------------------------
(* What claude writes                                                      *)

\* Prompts and transcripts only grow, and an entry that is new is a reply or is of a
\* prompt that is new.
Grows ==
    /\ DOMAIN prompts \subseteq DOMAIN prompts' /\ \A n \in DOMAIN prompts : prompts'[n] = prompts[n]
    /\ \A f \in Files :
         /\ Len(transcript[f]) <= Len(transcript'[f]) /\ Complete(f) <= Complete(f)'
         /\ \A i \in 1..Len(transcript[f]) : transcript'[f][i] = transcript[f][i]
         /\ \A i \in (Len(transcript[f]) + 1)..Len(transcript'[f]) :
              transcript'[f][i][1] = "assistant" \/ transcript'[f][i][2] \notin DOMAIN prompts

\* An entry is appended to claude's file.
LEMMA Appended ==
    ASSUME TypeOK, NEW e \in Entries,
           transcript' = [transcript EXCEPT ![claude.file] = Append(@, e)]
    PROVE  /\ Len(transcript'[claude.file]) = Len(transcript[claude.file]) + 1
           /\ transcript'[claude.file][Len(transcript[claude.file]) + 1] = e
           /\ \A i \in 1..Len(transcript[claude.file]) :
                transcript'[claude.file][i] = transcript[claude.file][i]
           /\ \A f \in Files \ {claude.file} : transcript'[f] = transcript[f]
<1> DEFINE g == claude.file
<1>1. g \in Files /\ transcript[g] \in Seq(Entries)
  BY OffsetTypes, FileTypes
<1>2. transcript'[g] = Append(transcript[g], e) /\ \A f \in Files \ {g} : transcript'[f] = transcript[f]
  BY <1>1 DEF TypeOK
<1> HIDE DEF g
<1>3. /\ Len(Append(transcript[g], e)) = Len(transcript[g]) + 1
      /\ Append(transcript[g], e)[Len(transcript[g]) + 1] = e
      /\ \A i \in 1..Len(transcript[g]) : Append(transcript[g], e)[i] = transcript[g][i]
  BY <1>1, AppendElements
<1> QED BY <1>2, <1>3 DEF g

\* Nothing is torn, so all of a file is complete.
LEMMA WholeFile ==
    ASSUME TypeOK, NEW f \in Files, ~torn \/ f # claude.file
    PROVE  Complete(f) = Len(transcript[f])
<1>1. Complete(f) = Len(transcript[f]) - 0
  BY Zenon DEF Complete
<1> QED BY <1>1, FileTypes

LEMMA StartsGrows ==
    ASSUME TypeOK, Written, NEW source, NEW f \in Files, Starts(source, f), ~claude.on \/ ~torn
    PROVE  Grows /\ Written'
<1>1. /\ UNCHANGED <<transcript, torn, prompts>> /\ ~torn
      /\ claude' = [on |-> TRUE, file |-> f, busy |-> FALSE]
  BY DEF Starts, Written
<1>2. \A g \in Files : Len(transcript[g]) \in Nat /\ Complete(g)' = Complete(g)
  BY <1>1, FileTypes DEF Complete
<1>3. \A g \in Files : Complete(g) \in Nat /\ Complete(g) <= Complete(g)
  BY <1>1, FileTypes, WholeFile
<1>4. Grows
  BY <1>1, <1>2, <1>3 DEF Grows
<1> QED BY <1>1, <1>4 DEF Written

LEMMA SubmitGrows ==
    ASSUME TypeOK, TypeOK', Written, NEW p \in Prompts, NEW whole \in BOOLEAN, Submit(p, whole)
    PROVE  Grows /\ Written'
<1> DEFINE n == Len(prompts) + 1
           g == claude.file
           e == <<"user", n>>
<1>1. /\ Len(prompts) \in Nat /\ DOMAIN prompts = 1..Len(prompts)
      /\ prompts' = Append(prompts, p) /\ n \in Ids /\ prompts \in Seq(Prompts)
  BY PromptTypes, SessionCaptureAssumption DEF Submit, Ids, TypeOK
<1>2. DOMAIN prompts' = 1..n /\ \A m \in DOMAIN prompts : prompts'[m] = prompts[m]
  BY <1>1
<1>3. g \in Files /\ claude'.file = g /\ ~torn /\ ~torn' /\ claude.on /\ claude'.on
  BY OffsetTypes DEF Submit, TypeOK
<1>4. e \in Entries /\ e[1] = "user" /\ e[2] = n
  BY <1>1 DEF Entries
<1>5. /\ Len(transcript'[g]) = Len(transcript[g]) + 1
      /\ transcript'[g][Len(transcript[g]) + 1] = e
      /\ \A i \in 1..Len(transcript[g]) : transcript'[g][i] = transcript[g][i]
      /\ \A f \in Files \ {g} : transcript'[f] = transcript[f]
  <2>1. transcript' = [transcript EXCEPT ![claude.file] = Append(@, e)]
    BY DEF Submit
  <2> QED BY <1>4, <2>1, Appended
<1> HIDE DEF n, g, e
<1>6. \A f \in Files : Len(transcript[f]) \in Nat /\ Complete(f) = Len(transcript[f])
                       /\ Complete(f)' = Len(transcript'[f])
  <2>1. ASSUME NEW f \in Files PROVE Complete(f) = Len(transcript[f])
    BY <1>3, WholeFile
  <2>2. ASSUME NEW f \in Files PROVE Complete(f)' = Len(transcript'[f])
    <3>1. Complete(f)' = Len(transcript'[f]) - 0
      BY <1>3, Zenon DEF Complete
    <3>2. Len(transcript'[f]) \in Nat
      BY <1>5, FileTypes
    <3> QED BY <3>1, <3>2
  <2> QED BY <2>1, <2>2, FileTypes
<1>7. Grows
  <2>1. ASSUME NEW f \in Files
        PROVE  /\ Len(transcript[f]) <= Len(transcript'[f])
               /\ \A i \in 1..Len(transcript[f]) : transcript'[f][i] = transcript[f][i]
               /\ \A i \in (Len(transcript[f]) + 1)..Len(transcript'[f]) :
                    transcript'[f][i][1] = "assistant" \/ transcript'[f][i][2] \notin DOMAIN prompts
    <3>1. CASE f = g
      <4>1. n \notin DOMAIN prompts
        BY <1>1 DEF n
      <4>2. \A i \in (Len(transcript[f]) + 1)..Len(transcript'[f]) : i = Len(transcript[g]) + 1
        BY <1>5, <1>6, <3>1
      <4> QED BY <1>4, <1>5, <1>6, <3>1, <4>1, <4>2
    <3>2. CASE f # g
      <4>1. transcript'[f] = transcript[f]
        BY <1>5, <3>2
      <4> QED BY <1>6, <4>1
    <3> QED BY <3>1, <3>2
  <2>2. DOMAIN prompts \subseteq DOMAIN prompts'
    BY <1>1, <1>2 DEF n
  <2> QED BY <1>2, <1>6, <2>1, <2>2 DEF Grows
<1>8. \A f \in Files : \A i \in 1..Len(transcript'[f]) : transcript'[f][i][2] \in DOMAIN prompts'
  <2> SUFFICES ASSUME NEW f \in Files, NEW i \in 1..Len(transcript'[f])
               PROVE  transcript'[f][i][2] \in DOMAIN prompts'
    OBVIOUS
  <2>1. CASE i \in 1..Len(transcript[f])
    BY <1>7, <2>1 DEF Grows, Written
  <2>2. CASE i \notin 1..Len(transcript[f])
    <3>1. f = g /\ i = Len(transcript[g]) + 1
      BY <1>5, <1>6, <2>2
    <3>2. n \in DOMAIN prompts'
      BY <1>1, <1>2 DEF n
    <3> QED BY <1>4, <1>5, <3>1, <3>2
  <2> QED BY <2>1, <2>2
<1>9. \A f \in Files : \A i, j \in 1..Len(transcript'[f]) :
         i < j /\ transcript'[f][i][1] = "user" /\ transcript'[f][j][1] = "user" =>
           transcript'[f][i][2] < transcript'[f][j][2]
  <2> SUFFICES ASSUME NEW f \in Files, NEW i \in 1..Len(transcript'[f]), NEW j \in 1..Len(transcript'[f]),
                      i < j, transcript'[f][i][1] = "user", transcript'[f][j][1] = "user"
               PROVE  transcript'[f][i][2] < transcript'[f][j][2]
    OBVIOUS
  <2>1. CASE j \in 1..Len(transcript[f])
    <3>1. i \in 1..Len(transcript[f])
      BY <2>1, <1>6
    <3>2. transcript'[f][i] = transcript[f][i] /\ transcript'[f][j] = transcript[f][j]
      BY <1>7, <2>1, <3>1 DEF Grows
    <3> QED BY <2>1, <3>1, <3>2 DEF Written
  <2>2. CASE j \notin 1..Len(transcript[f])
    <3>1. f = g /\ j = Len(transcript[g]) + 1
      BY <1>5, <1>6, <2>2
    <3>2. i \in 1..Len(transcript[g])
      BY <1>5, <1>6, <3>1
    <3>3. transcript'[g][i] = transcript[g][i] /\ transcript[g][i][2] \in DOMAIN prompts
      BY <1>3, <1>5, <3>2 DEF Written
    <3>4. transcript'[g][j][2] = n
      BY <1>4, <1>5, <3>1
    <3> QED BY <1>1, <3>1, <3>3, <3>4 DEF n
  <2> QED BY <2>1, <2>2
<1>10. prompts' # <<>>
  BY <1>1
<1> QED BY <1>3, <1>7, <1>8, <1>9, <1>10 DEF Written

LEMMA ReplyGrows ==
    ASSUME TypeOK, TypeOK', Written, Reply
    PROVE  Grows /\ Written'
<1> DEFINE n == Len(prompts)
           g == claude.file
           e == <<"assistant", n>>
<1>1. /\ n \in Ids /\ n \in DOMAIN prompts /\ prompts # <<>> /\ UNCHANGED prompts
      /\ DOMAIN prompts = 1..Len(prompts) /\ Len(prompts) \in Nat
  BY PromptTypes DEF Reply, Written, Ids, TypeOK
<1>2. g \in Files /\ claude'.file = g /\ ~torn /\ claude.on /\ claude'.on /\ ~claude'.busy
  BY OffsetTypes DEF Reply, Written, TypeOK
<1>3. e \in Entries /\ e[1] = "assistant" /\ e[2] = n
  BY <1>1 DEF Entries
<1>4. /\ Len(transcript'[g]) = Len(transcript[g]) + 1
      /\ transcript'[g][Len(transcript[g]) + 1] = e
      /\ \A i \in 1..Len(transcript[g]) : transcript'[g][i] = transcript[g][i]
      /\ \A f \in Files \ {g} : transcript'[f] = transcript[f]
  <2>1. transcript' = [transcript EXCEPT ![claude.file] = Append(@, e)]
    BY DEF Reply
  <2> QED BY <1>3, <2>1, Appended
<1> HIDE DEF n, g, e
<1>5. \A f \in Files : Len(transcript[f]) \in Nat /\ Len(transcript'[f]) \in Nat
  BY FileTypes, <1>4
<1>6. \A f \in Files : Complete(f) = Len(transcript[f]) /\ Complete(f) <= Complete(f)'
  <2>1. ASSUME NEW f \in Files PROVE Complete(f) = Len(transcript[f])
    BY <1>2, WholeFile
  <2>2. ASSUME NEW f \in Files PROVE Len(transcript[f]) <= Complete(f)'
    <3>1. CASE f = g
      <4>1. Complete(f)' \in {Len(transcript'[f]), Len(transcript'[f]) - 1}
        <5>1. CASE torn' /\ f = claude'.file
          BY <5>1 DEF Complete
        <5>2. CASE ~(torn' /\ f = claude'.file)
          <6>1. Complete(f)' = Len(transcript'[f]) - 0
            BY <5>2, Zenon DEF Complete
          <6> QED BY <6>1, <1>5
        <5> QED BY <5>1, <5>2
      <4> QED BY <1>4, <1>5, <3>1, <4>1
    <3>2. CASE f # g
      <4>1. Complete(f)' = Len(transcript'[f]) - 0
        BY <1>2, <3>2, Zenon DEF Complete
      <4> QED BY <1>4, <1>5, <3>2, <4>1
    <3> QED BY <3>1, <3>2
  <2> QED BY <2>1, <2>2
<1>7. Grows
  <2>1. ASSUME NEW f \in Files
        PROVE  /\ Len(transcript[f]) <= Len(transcript'[f])
               /\ \A i \in 1..Len(transcript[f]) : transcript'[f][i] = transcript[f][i]
               /\ \A i \in (Len(transcript[f]) + 1)..Len(transcript'[f]) :
                    transcript'[f][i][1] = "assistant" \/ transcript'[f][i][2] \notin DOMAIN prompts
    <3>1. CASE f = g
      <4>1. \A i \in (Len(transcript[f]) + 1)..Len(transcript'[f]) : i = Len(transcript[g]) + 1
        BY <1>4, <1>5, <3>1
      <4> QED BY <1>3, <1>4, <1>5, <3>1, <4>1
    <3>2. CASE f # g
      <4>1. transcript'[f] = transcript[f]
        BY <1>4, <3>2
      <4> QED BY <1>5, <4>1
    <3> QED BY <3>1, <3>2
  <2> QED BY <1>1, <1>6, <2>1 DEF Grows
<1>8. \A f \in Files : \A i \in 1..Len(transcript'[f]) :
         \/ i \in 1..Len(transcript[f]) /\ transcript'[f][i] = transcript[f][i]
         \/ transcript'[f][i] = e
  <2> SUFFICES ASSUME NEW f \in Files, NEW i \in 1..Len(transcript'[f]), i \notin 1..Len(transcript[f])
               PROVE  transcript'[f][i] = e
    BY <1>7 DEF Grows
  <2>1. f = g /\ i = Len(transcript[g]) + 1
    BY <1>4, <1>5
  <2> QED BY <1>4, <2>1
<1>9. \A f \in Files : \A i \in 1..Len(transcript'[f]) : transcript'[f][i][2] \in DOMAIN prompts'
  BY <1>1, <1>3, <1>8 DEF Written
<1>10. \A f \in Files : \A i, j \in 1..Len(transcript'[f]) :
         i < j /\ transcript'[f][i][1] = "user" /\ transcript'[f][j][1] = "user" =>
           transcript'[f][i][2] < transcript'[f][j][2]
  <2> SUFFICES ASSUME NEW f \in Files, NEW i \in 1..Len(transcript'[f]), NEW j \in 1..Len(transcript'[f]),
                      i < j, transcript'[f][i][1] = "user", transcript'[f][j][1] = "user"
               PROVE  transcript'[f][i][2] < transcript'[f][j][2]
    OBVIOUS
  <2>1. /\ i \in 1..Len(transcript[f]) /\ transcript'[f][i] = transcript[f][i]
        /\ j \in 1..Len(transcript[f]) /\ transcript'[f][j] = transcript[f][j]
    BY <1>3, <1>8
  <2> QED BY <2>1 DEF Written
<1>11. transcript'[g] # <<>>
  <2>1. transcript'[g] \in Seq(Entries) /\ Len(transcript'[g]) > 0
    BY <1>2, <1>4, <1>5 DEF TypeOK
  <2> QED BY <2>1
<1> QED BY <1>1, <1>2, <1>7, <1>9, <1>10, <1>11 DEF Written

\* The last entry is finished, or claude works no more.
LEMMA StillGrows ==
    ASSUME TypeOK, Written, FinishEntry \/ Interrupt \/ Exit
    PROVE  Grows /\ Written'
<1>1. /\ UNCHANGED <<transcript, prompts>> /\ claude'.file = claude.file /\ claude'.file \in Files
      /\ torn' => torn
  BY OffsetTypes DEF FinishEntry, Interrupt, Exit, TypeOK
<1>2. \A f \in Files : Complete(f) <= Complete(f)'
  <2> SUFFICES ASSUME NEW f \in Files PROVE Complete(f) <= Complete(f)'
    OBVIOUS
  <2>1. Len(transcript[f]) \in Nat
    BY FileTypes
  <2>2. CASE torn' /\ f = claude.file
    <3>1. Complete(f)' = Complete(f) /\ Complete(f) \in Int
      BY <1>1, <2>1, <2>2 DEF Complete
    <3> QED BY <3>1
  <2>3. CASE ~(torn' /\ f = claude.file)
    <3>1. Complete(f)' = Len(transcript[f]) - 0
      BY <1>1, <2>3, Zenon DEF Complete
    <3>2. Complete(f) \in 0..Len(transcript[f])
      BY Bounds
    <3> QED BY <2>1, <3>1, <3>2
  <2> QED BY <2>2, <2>3
<1>3. Grows
  BY <1>1, <1>2, FileTypes DEF Grows
<1>4. /\ torn' => claude'.on /\ transcript'[claude'.file] # <<>>
      /\ claude'.busy => claude'.on /\ ~torn' /\ prompts' # <<>>
  BY <1>1 DEF FinishEntry, Interrupt, Exit, Written, TypeOK
<1> QED BY <1>1, <1>3, <1>4 DEF Written

LEMMA ClaudeGrows ==
    ASSUME TypeOK, TypeOK', Written, Claude
    PROVE  Grows /\ Written'
<1>1. ASSUME NEW f \in Files, Startup(f) \/ Resume(f) \/ Clear(f)
      PROVE  Grows /\ Written'
  BY <1>1, StartsGrows DEF Startup, Resume, Clear
<1>2. CASE Compact
  BY <1>2, StartsGrows, OffsetTypes DEF Compact
<1> QED BY <1>1, <1>2, SubmitGrows, ReplyGrows, StillGrows DEF Claude

LEMMA OthersGrow ==
    ASSUME TypeOK, Written, UNCHANGED world
    PROVE  Grows /\ Written'
<1>1. UNCHANGED <<transcript, torn, claude, prompts>>
  BY DEF world
<1>2. \A f \in Files : Complete(f)' = Complete(f)
  BY <1>1 DEF Complete
<1>3. \A f \in Files : Complete(f) <= Complete(f)
  BY Bounds, FileTypes
<1>4. \A f \in Files : Len(transcript[f]) \in Nat
  BY FileTypes
<1> QED BY <1>1, <1>2, <1>3, <1>4 DEF Grows, Written

\* All but claude leave its world alone.
LEMMA NextGrows ==
    ASSUME TypeOK, TypeOK', Written, [Next]_vars
    PROVE  Grows /\ Written'
<1>1. CASE Daemon \/ Mishap \/ UNCHANGED vars
  <2>1. UNCHANGED world
    BY <1>1 DEF Daemon, BeginClear, Resumed, CapturePrompt, CaptureTranscript, FinishClear, ShimConnected,
                ShimDisconnected, Take, Mishap, Crash, CrashMidway, Restarted, LoseHook, vars
  <2> QED BY <2>1, OthersGrow
<1> QED BY <1>1, ClaudeGrows DEF Next

-----------------------------------------------------------------------------
(* Steps that store nothing                                                *)

\* Where the offset is, if there is one.
LEMMA OffsetInFile ==
    ASSUME TypeOK, Written, Caught, offset # None
    PROVE  /\ offset.file \in Files /\ offset.at \in Nat
           /\ offset.at <= Len(transcript[offset.file]) /\ Len(transcript[offset.file]) \in Nat
           /\ From(offset.file) = offset.at
<1>1. offset.file \in Files /\ offset.at \in Nat
  BY OffsetTypes
<1>2. Complete(offset.file) \in 0..Len(transcript[offset.file]) /\ Len(transcript[offset.file]) \in Nat
  BY <1>1, Bounds, FileTypes
<1>3. offset.at <= Len(transcript[offset.file]) /\ ~(offset.at > Complete(offset.file))
  BY <1>1, <1>2 DEF Caught
<1> QED BY <1>1, <1>2, <1>3 DEF From

\* The rows as sets of prompts have their types.
LEMMA RowTypes ==
    ASSUME TypeOK
    PROVE  /\ ByHook \subseteq Ids /\ ByTail \subseteq Ids /\ Behind \subseteq Local /\ Ahead \subseteq Local
           /\ \A t : Passed(t) \subseteq Local
BY DEF ByHook, ByTail, Behind, Ahead, Between, Passed, Saying

\* What claude writes changes no set that the counts are about, but for new prompts.
LEMMA SameSets ==
    ASSUME TypeOK, TypeOK', Written, Caught, Grows, UNCHANGED <<offset, inbound>>
    PROVE  /\ Local \subseteq Local' /\ Local' \cap DOMAIN prompts \subseteq Local
           /\ Behind' = Behind
           /\ Ahead \subseteq Ahead' /\ Ahead' \cap DOMAIN prompts \subseteq Ahead
           /\ ByHook' = ByHook /\ ByTail' = ByTail
           /\ \A A \in SUBSET DOMAIN prompts : \A t : {n \in A : prompts'[n].text = t} = Saying(A, t)
<1>1. Local \subseteq Local' /\ Local' \cap DOMAIN prompts \subseteq Local
  BY DEF Grows, Local
<1>2. ByHook' = ByHook /\ ByTail' = ByTail
  BY DEF ByHook, ByTail
<1>3. \A A \in SUBSET DOMAIN prompts : \A t : {n \in A : prompts'[n].text = t} = Saying(A, t)
  BY DEF Grows, Saying
<1>4. CASE offset = None
  <2>1. Behind = {} /\ Behind' = {} /\ Ahead = Local /\ Ahead' = Local'
    BY <1>4 DEF Behind, Ahead
  <2> QED BY <1>1, <1>2, <1>3, <2>1
<1>5. CASE offset # None
  <2> DEFINE g == offset.file
             a == offset.at
  <2>1. /\ g \in Files /\ a \in Nat /\ a <= Len(transcript[g]) /\ Len(transcript[g]) \in Nat
        /\ offset' = offset
    BY <1>5, OffsetInFile
  <2>2. Len(transcript[g]) <= Len(transcript'[g]) /\ Len(transcript'[g]) \in Nat
    BY <2>1, FileTypes DEF Grows, TypeOK
  <2>3. \A i \in 1..Len(transcript[g]) :
          transcript'[g][i] = transcript[g][i] /\ transcript[g][i][2] \in DOMAIN prompts
    BY <2>1 DEF Grows, Written
  <2>4. /\ Behind = Between(g, 1, a) /\ Ahead = Between(g, a + 1, Len(transcript[g]))
        /\ Behind' = {n \in Local' : \E i \in 1..a : transcript'[g][i] = <<"user", n>>}
        /\ Ahead' = {n \in Local' : \E i \in (a + 1)..Len(transcript'[g]) : transcript'[g][i] = <<"user", n>>}
    BY <1>5, <2>1 DEF Behind, Ahead, Between
  <2> HIDE DEF g, a
  <2>5. Behind' = Behind
    <3>1. \A i \in 1..a : i \in 1..Len(transcript[g])
      BY <2>1
    <3>2. ASSUME NEW n \in Behind' PROVE n \in Behind
      <4>1. PICK i \in 1..a : transcript'[g][i] = <<"user", n>>
        BY <2>4, <3>2
      <4>2. transcript[g][i] = <<"user", n>> /\ n \in DOMAIN prompts
        BY <2>3, <3>1, <4>1
      <4> QED BY <1>1, <2>4, <3>2, <4>2 DEF Between
    <3>3. ASSUME NEW n \in Behind PROVE n \in Behind'
      BY <1>1, <2>3, <2>4, <3>1, <3>3 DEF Between
    <3> QED BY <3>2, <3>3
  <2>6. Ahead \subseteq Ahead'
    <3>1. \A i \in (a + 1)..Len(transcript[g]) :
            i \in 1..Len(transcript[g]) /\ i \in (a + 1)..Len(transcript'[g])
      BY <2>1, <2>2
    <3> QED BY <1>1, <2>3, <2>4, <3>1 DEF Between
  <2>7. Ahead' \cap DOMAIN prompts \subseteq Ahead
    <3> SUFFICES ASSUME NEW n \in Ahead', n \in DOMAIN prompts PROVE n \in Ahead
      OBVIOUS
    <3>1. PICK i \in (a + 1)..Len(transcript'[g]) : transcript'[g][i] = <<"user", n>>
      BY <2>4
    <3>2. transcript'[g][i][1] = "user" /\ transcript'[g][i][2] = n
      BY <3>1
    <3>3. i \notin (Len(transcript[g]) + 1)..Len(transcript'[g])
      BY <2>1, <3>2 DEF Grows
    <3>4. i \in (a + 1)..Len(transcript[g]) /\ i \in 1..Len(transcript[g])
      BY <2>1, <2>2, <3>3
    <3> QED BY <1>1, <2>3, <2>4, <3>1, <3>4 DEF Between
  <2> QED BY <1>1, <1>2, <1>3, <2>5, <2>6, <2>7
<1> QED BY <1>1, <1>2, <1>3, <1>4, <1>5

\* Nothing is stored, and no other hook is on its way than those of new prompts.
LEMMA CalmCaught ==
    ASSUME TypeOK, TypeOK', Written, Caught, Grows, UNCHANGED <<offset, inbound, eager, dropped, steady>>
    PROVE  Caught'
<1>1. /\ Local \subseteq Local' /\ Ahead' \cap DOMAIN prompts \subseteq Ahead
      /\ ByHook' = ByHook /\ ByTail' = ByTail
  BY SameSets
<1>2. (ByHook \cup ByTail \cup dropped)' \subseteq Local' /\ (eager' # None => eager' \in ByHook')
  BY <1>1 DEF Caught
<1>3. (offset # None => offset.at <= Complete(offset.file))'
  <2> SUFFICES ASSUME offset # None PROVE (offset.at <= Complete(offset.file))'
    OBVIOUS
  <2>1. PICK g \in Files : offset.file = g /\ offset'.file = g
    BY OffsetInFile
  <2>2. offset'.at = offset.at /\ offset.at \in Nat /\ Len(transcript[g]) \in Nat
    BY <2>1, OffsetInFile
  <2>3. Complete(g) \in 0..Len(transcript[g]) /\ offset.at <= Complete(g)
    BY <2>1, Bounds DEF Caught
  <2>4. Complete(g) <= Complete(g)'
    BY DEF Grows
  <2>5. Complete(g)' \in Int
    <3>1. Len(transcript'[g]) \in Nat
      BY DEF TypeOK
    <3>2. CASE torn' /\ g = claude'.file
      <4>1. Complete(g)' = Len(transcript'[g]) - 1
        BY <3>2, Zenon DEF Complete
      <4> QED BY <3>1, <4>1
    <3>3. CASE ~(torn' /\ g = claude'.file)
      <4>1. Complete(g)' = Len(transcript'[g]) - 0
        BY <3>3, Zenon DEF Complete
      <4> QED BY <3>1, <4>1
    <3> QED BY <3>2, <3>3
  <2>6. offset.at <= Complete(g)'
    BY <2>2, <2>3, <2>4, <2>5
  <2> QED BY <2>1, <2>2, <2>6
<1>4. ASSUME steady' PROVE ByTail' \cap Ahead' = {}
  <2>1. ByTail \subseteq DOMAIN prompts /\ ByTail \cap Ahead = {}
    BY <1>4, PromptTypes DEF Caught
  <2> QED BY <1>1, <2>1
<1> QED BY <1>2, <1>3, <1>4 DEF Caught

LEMMA CalmCounts ==
    ASSUME TypeOK, TypeOK', Written, Caught, Grows, ReadIsShown, UsedOnce,
           UNCHANGED <<offset, inbound, eager, dropped, steady>>,
           overtaken => overtaken', Pending' \cap DOMAIN prompts \subseteq Pending
    PROVE  ReadIsShown' /\ UsedOnce'
<1>1. /\ Local \subseteq Local'
      /\ Behind' = Behind
      /\ Ahead \subseteq Ahead' /\ Ahead' \cap DOMAIN prompts \subseteq Ahead
      /\ ByHook' = ByHook /\ ByTail' = ByTail
      /\ \A A \in SUBSET DOMAIN prompts : \A t : {n \in A : prompts'[n].text = t} = Saying(A, t)
  BY SameSets
<1>2. /\ Local \subseteq DOMAIN prompts /\ ByHook \subseteq DOMAIN prompts /\ Behind \subseteq DOMAIN prompts
      /\ DOMAIN prompts \subseteq Ids
  BY PromptTypes, RowTypes DEF Caught
<1>3. ReadIsShown'
  <2>1. \A t : /\ Saying(Behind \ ByTail, t)' = Saying(Behind \ ByTail, t)
               /\ Saying(ByHook \ {eager}, t)' = Saying(ByHook \ {eager}, t)
    <3> SUFFICES ASSUME NEW t
                 PROVE  /\ Saying(Behind \ ByTail, t)' = Saying(Behind \ ByTail, t)
                        /\ Saying(ByHook \ {eager}, t)' = Saying(ByHook \ {eager}, t)
      OBVIOUS
    <3>1. Behind \ ByTail \in SUBSET DOMAIN prompts /\ ByHook \ {eager} \in SUBSET DOMAIN prompts
      BY <1>2
    <3>2. /\ Saying(Behind \ ByTail, t)' = {n \in Behind \ ByTail : prompts'[n].text = t}
          /\ Saying(ByHook \ {eager}, t)' = {n \in ByHook \ {eager} : prompts'[n].text = t}
      BY <1>1 DEF Saying
    <3> QED BY <1>1, <3>1, <3>2
  <2> QED BY <2>1 DEF ReadIsShown
<1>4. \A t : /\ Saying(ByHook \ (dropped \cup {eager}), t)' = Saying(ByHook \ (dropped \cup {eager}), t)
             /\ Saying(ByHook \ dropped, t)' = Saying(ByHook \ dropped, t)
  <2> SUFFICES ASSUME NEW t
               PROVE  /\ Saying(ByHook \ (dropped \cup {eager}), t)' = Saying(ByHook \ (dropped \cup {eager}), t)
                      /\ Saying(ByHook \ dropped, t)' = Saying(ByHook \ dropped, t)
    OBVIOUS
  <2>1. /\ ByHook \ (dropped \cup {eager}) \in SUBSET DOMAIN prompts
        /\ ByHook \ dropped \in SUBSET DOMAIN prompts
    BY <1>2
  <2>2. /\ Saying(ByHook \ (dropped \cup {eager}), t)'
             = {n \in ByHook \ (dropped \cup {eager}) : prompts'[n].text = t}
        /\ Saying(ByHook \ dropped, t)' = {n \in ByHook \ dropped : prompts'[n].text = t}
    BY <1>1 DEF Saying
  <2> QED BY <1>1, <2>1, <2>2
<1>5. \A t : Passed(t) \ Pending \subseteq Passed(t)' \ Pending'
  <2> SUFFICES ASSUME NEW t, NEW n \in Passed(t), n \notin Pending
               PROVE  n \in Passed(t)' /\ n \notin Pending'
    OBVIOUS
  <2>1. /\ n \in Local /\ prompts[n].text = t /\ n \notin Ahead /\ n \notin ByTail
        /\ n \in DOMAIN prompts
    BY <1>2 DEF Passed, Saying
  <2>2. prompts'[n] = prompts[n]
    BY <2>1 DEF Grows
  <2> QED BY <1>1, <2>1, <2>2 DEF Passed, Saying
<1>6. UsedOnce'
  <2> SUFFICES ASSUME steady', ~overtaken', NEW t \in Texts
               PROVE  /\ Cardinality(Saying(ByHook \ (dropped \cup {eager}), t)')
                           <= Cardinality(Passed(t)' \ Pending')
                      /\ eager' # None /\ eager' \notin dropped' /\ eager' \notin Ahead' =>
                           Cardinality(Saying(ByHook \ dropped, t)') <= Cardinality(Passed(t)' \ Pending')
    BY DEF UsedOnce
  <2>1. /\ Cardinality(Saying(ByHook \ (dropped \cup {eager}), t)) <= Cardinality(Passed(t) \ Pending)
        /\ eager # None /\ eager \notin dropped /\ eager \notin Ahead =>
             Cardinality(Saying(ByHook \ dropped, t)) <= Cardinality(Passed(t) \ Pending)
    BY DEF UsedOnce
  <2>2. Passed(t)' \subseteq Ids /\ Passed(t) \subseteq Ids
    <3>1. Local' \subseteq Ids
      <4>1. DOMAIN prompts' \subseteq Ids
        BY SessionCaptureAssumption DEF TypeOK, Ids
      <4> QED BY <4>1 DEF Local
    <3>2. Passed(t)' \subseteq Local'
      BY DEF Passed, Saying
    <3> QED BY <1>2, <3>1, <3>2, RowTypes
  <2>3. Cardinality(Passed(t) \ Pending) <= Cardinality(Passed(t)' \ Pending')
    BY <1>5, <2>2, Smaller
  <2>4. /\ Cardinality(Passed(t) \ Pending) \in Nat /\ Cardinality(Passed(t)' \ Pending') \in Nat
        /\ Cardinality(Saying(ByHook \ (dropped \cup {eager}), t)) \in Nat
        /\ Cardinality(Saying(ByHook \ dropped, t)) \in Nat
    <3>1. Saying(ByHook \ (dropped \cup {eager}), t) \subseteq Ids /\ Saying(ByHook \ dropped, t) \subseteq Ids
      BY RowTypes DEF Saying
    <3> QED BY <2>2, <3>1, Sizes
  <2>5. eager' = eager /\ dropped' = dropped /\ (eager' \notin Ahead' => eager \notin Ahead)
    BY <1>1
  <2> QED BY <1>4, <2>1, <2>3, <2>4, <2>5
<1> QED BY <1>3, <1>6

LEMMA CalmReplies ==
    ASSUME TypeOK, Written, Caught, Grows, RepliesAreStored, UNCHANGED <<offset, outbound, skipped>>
    PROVE  RepliesAreStored'
<1> SUFFICES ASSUME offset # None, NEW i \in 1..offset.at,
                    transcript'[offset.file][i][1] = "assistant"
             PROVE  transcript'[offset.file][i][2] \in outbound \cup skipped
  BY DEF RepliesAreStored
<1>1. /\ offset.file \in Files /\ offset.at \in Nat /\ offset.at <= Len(transcript[offset.file])
      /\ Len(transcript[offset.file]) \in Nat
  BY OffsetInFile
<1>2. transcript'[offset.file][i] = transcript[offset.file][i]
  BY <1>1 DEF Grows
<1> QED BY <1>2 DEF RepliesAreStored

-----------------------------------------------------------------------------
(* The queue of hooks                                                      *)

LEMMA PendingTypes ==
    ASSUME TypeOK
    PROVE  /\ Pending \subseteq Ids
           /\ \A i \in DOMAIN hooks : hooks[i].prompt # None => hooks[i].prompt \in Pending
BY HookTypes DEF Pending

\* A hook that leaves the queue takes its prompt along.
LEMMA LeavesPending ==
    ASSUME TypeOK, InOrder, NEW i \in DOMAIN hooks, hooks' = RemoveAt(hooks, i)
    PROVE  /\ InOrder'
           /\ Pending' \subseteq Pending
           /\ hooks[i].prompt # None => hooks[i].prompt \notin Pending'
           /\ hooks[i].prompt # None /\ i = 1 => \A n \in Pending' : n > hooks[1].prompt
<1>1. /\ DOMAIN hooks = 1..Len(hooks) /\ Len(hooks) \in Nat
      /\ DOMAIN hooks' = 1..(Len(hooks) - 1)
      /\ \A k \in DOMAIN hooks' : hooks'[k] = IF k < i THEN hooks[k] ELSE hooks[k + 1]
  BY HookTypes, LeavesQueue
<1>2. ASSUME NEW k \in DOMAIN hooks'
      PROVE  \E j \in DOMAIN hooks : j # i /\ hooks'[k] = hooks[j] /\ (k < i => j = k) /\ (k >= i => j = k + 1)
  <2>1. CASE k < i
    BY <1>1, <2>1
  <2>2. CASE ~(k < i)
    <3>1. k + 1 \in DOMAIN hooks /\ k + 1 # i /\ hooks'[k] = hooks[k + 1]
      BY <1>1, <2>2
    <3> QED BY <1>1, <2>2, <3>1
  <2> QED BY <2>1, <2>2
<1>3. InOrder'
  <2> SUFFICES ASSUME NEW k \in DOMAIN hooks', NEW l \in DOMAIN hooks', k < l,
                      hooks'[k].prompt # None, hooks'[l].prompt # None
               PROVE  hooks'[k].prompt < hooks'[l].prompt
    BY DEF InOrder
  <2>1. PICK a \in DOMAIN hooks : hooks'[k] = hooks[a] /\ (k < i => a = k) /\ (k >= i => a = k + 1)
    BY <1>2
  <2>2. PICK b \in DOMAIN hooks : hooks'[l] = hooks[b] /\ (l < i => b = l) /\ (l >= i => b = l + 1)
    BY <1>2
  <2>3. a < b
    BY <1>1, <2>1, <2>2
  <2> QED BY <2>1, <2>2, <2>3 DEF InOrder
<1>4. ASSUME NEW n \in Pending'
      PROVE  \E j \in DOMAIN hooks : j # i /\ hooks[j].prompt = n /\ n # None
  <2>1. PICK k \in DOMAIN hooks' : n = hooks'[k].prompt /\ n # None
    BY DEF Pending
  <2> QED BY <1>2, <2>1
<1>5. Pending' \subseteq Pending
  BY <1>4 DEF Pending
<1>6. ASSUME hooks[i].prompt # None, hooks[i].prompt \in Pending' PROVE FALSE
  <2>1. PICK j \in DOMAIN hooks : j # i /\ hooks[j].prompt = hooks[i].prompt
    BY <1>4, <1>6
  <2>2. hooks[i].prompt \in Nat
    BY <1>6, HookTypes DEF Ids
  <2>3. j < i \/ i < j
    BY <1>1, <2>1
  <2> QED BY <1>6, <2>1, <2>2, <2>3 DEF InOrder
<1>7. ASSUME hooks[i].prompt # None, i = 1, NEW n \in Pending' PROVE n > hooks[1].prompt
  <2>1. PICK j \in DOMAIN hooks : j # i /\ hooks[j].prompt = n /\ n # None
    BY <1>4
  <2>2. i < j
    BY <1>1, <1>7, <2>1
  <2>3. hooks[1].prompt \in Nat /\ n \in Nat
    BY <1>7, <2>1, HookTypes DEF Ids
  <2>4. hooks[1].prompt < n
    BY <1>7, <2>1, <2>2 DEF InOrder
  <2> QED BY <2>3, <2>4
<1> QED BY <1>3, <1>5, <1>6, <1>7

\* A hook that joins it brings a new prompt or none.
LEMMA JoinsPending ==
    ASSUME TypeOK, Queued, NEW name \in {"SessionStart", "UserPromptSubmit", "Stop"},
           NEW source \in {"startup", "clear", "resume", "compact", None},
           NEW prompt \in Ids \cup {None}, NEW f \in Files, Fire(name, source, prompt, f),
           prompt = None \/ prompt = Len(prompts) + 1
    PROVE  InOrder' /\ Pending' \subseteq Pending \cup ({prompt} \ {None})
<1>1. /\ DOMAIN hooks = 1..Len(hooks) /\ Len(hooks) \in Nat
      /\ DOMAIN hooks' = 1..(Len(hooks) + 1)
      /\ \A k \in DOMAIN hooks : hooks'[k] = hooks[k]
      /\ hooks'[Len(hooks) + 1].prompt = prompt
  <2> DEFINE h == [name |-> name, source |-> source, prompt |-> prompt, file |-> f]
  <2>1. hooks \in Seq(Hooks) /\ h \in Hooks /\ hooks' = Append(hooks, h) /\ h.prompt = prompt
    BY DEF TypeOK, Hooks, Fire
  <2> HIDE DEF h
  <2>2. /\ Len(hooks') = Len(hooks) + 1 /\ hooks' \in Seq(Hooks)
        /\ \A k \in 1..Len(hooks) : hooks'[k] = hooks[k]
        /\ hooks'[Len(hooks) + 1] = h
    BY <2>1, AppendElements
  <2>3. DOMAIN hooks' = 1..(Len(hooks) + 1) /\ DOMAIN hooks = 1..Len(hooks) /\ Len(hooks) \in Nat
    BY <2>1, <2>2
  <2> QED BY <2>1, <2>2, <2>3
<1>2. \A k \in DOMAIN hooks' : (k \in DOMAIN hooks /\ hooks'[k] = hooks[k]) \/ k = Len(hooks) + 1
  BY <1>1
<1>3. Pending' \subseteq Pending \cup ({prompt} \ {None})
  BY <1>1, <1>2 DEF Pending
<1>4. InOrder'
  <2> SUFFICES ASSUME NEW k \in DOMAIN hooks', NEW l \in DOMAIN hooks', k < l,
                      hooks'[k].prompt # None, hooks'[l].prompt # None
               PROVE  hooks'[k].prompt < hooks'[l].prompt
    BY DEF InOrder
  <2>1. k \in DOMAIN hooks /\ hooks'[k] = hooks[k]
    BY <1>1, <1>2
  <2>2. CASE l \in DOMAIN hooks /\ hooks'[l] = hooks[l]
    BY <2>1, <2>2 DEF InOrder, Queued
  <2>3. CASE l = Len(hooks) + 1
    <3>1. hooks'[l].prompt = Len(prompts) + 1
      BY <1>1, <2>3
    <3>2. hooks[k].prompt \in 1..Len(prompts)
      BY <2>1, PendingTypes, PromptTypes DEF Queued
    <3> QED BY <2>1, <3>1, <3>2
  <2> QED BY <1>2, <2>2, <2>3
<1> QED BY <1>3, <1>4

LEMMA CalmQueued ==
    ASSUME TypeOK, TypeOK', Written, Queued, Caught, Grows, UNCHANGED <<offset, inbound, eager>>,
           overtaken => overtaken', InOrder',
           Pending' \subseteq DOMAIN prompts', Pending' \cap DOMAIN prompts \subseteq Pending
    PROVE  Queued'
<1>1. ByHook' = ByHook /\ ByHook \subseteq DOMAIN prompts /\ Pending' \subseteq Ids
  <2>1. DOMAIN prompts' \subseteq Ids
    BY SessionCaptureAssumption DEF TypeOK, Ids
  <2> QED BY <2>1, SameSets, PromptTypes DEF Caught
<1>2. Pending' \cap ByHook' = {}
  BY <1>1 DEF Queued
<1>3. ASSUME ~overtaken', eager' # None, NEW n \in Pending' PROVE n > eager'
  <2>1. eager' = eager /\ eager \in DOMAIN prompts /\ DOMAIN prompts = 1..Len(prompts)
        /\ Len(prompts) \in Nat /\ n \in Nat
    BY <1>1, <1>3, PromptTypes DEF Caught, Ids
  <2>2. CASE n \in DOMAIN prompts
    BY <1>3, <2>1, <2>2 DEF Queued
  <2>3. CASE n \notin DOMAIN prompts
    <3>1. n \in Ids
      BY <1>1
    <3> QED BY <2>1, <2>3, <3>1 DEF Ids
  <2> QED BY <2>2, <2>3
<1> QED BY <1>2, <1>3 DEF Queued

\* The invariants but for types, claude's world and its activity.
Stores == Queued /\ Caught /\ ReadIsShown /\ UsedOnce /\ RepliesAreStored

LEMMA CalmStores ==
    ASSUME TypeOK, TypeOK', Written, Stores, Grows,
           UNCHANGED <<database, eager, dropped, skipped, steady>>,
           overtaken => overtaken', InOrder',
           Pending' \subseteq DOMAIN prompts', Pending' \cap DOMAIN prompts \subseteq Pending
    PROVE  Stores'
<1>1. UNCHANGED <<offset, inbound, outbound, eager, dropped, skipped, steady>>
  BY DEF database
<1>2. Queued' /\ Caught'
  BY <1>1, CalmQueued, CalmCaught DEF Stores
<1>3. ReadIsShown' /\ UsedOnce'
  BY <1>1, CalmCounts DEF Stores
<1>4. RepliesAreStored'
  BY <1>1, CalmReplies DEF Stores
<1> QED BY <1>2, <1>3, <1>4 DEF Stores

LEMMA ClaudeStores ==
    ASSUME TypeOK, TypeOK', Written, Stores, Claude
    PROVE  Stores'
<1>1. /\ Grows /\ UNCHANGED <<database, eager, dropped, skipped, steady, overtaken>>
  <2>1. UNCHANGED <<memory, database, history>>
    BY DEF Claude, Startup, Resume, Clear, Compact, Starts, Submit, Reply, FinishEntry, Interrupt, Exit
  <2> QED BY <2>1, ClaudeGrows DEF memory, history
<1>2. DOMAIN prompts = 1..Len(prompts) /\ Len(prompts) \in Nat
  BY PromptTypes
<1>3. InOrder' /\ Pending' \subseteq DOMAIN prompts' /\ Pending' \cap DOMAIN prompts \subseteq Pending
  <2>1. Queued /\ Pending \subseteq DOMAIN prompts'
    BY <1>1 DEF Stores, Queued, Grows
  <2>2. ASSUME NEW source \in {"startup", "clear", "resume", "compact"}, NEW f \in Files, Starts(source, f)
        PROVE  InOrder' /\ Pending' \subseteq Pending
    <3>1. Fire("SessionStart", source, None, f)
      BY <2>2 DEF Starts
    <3>2. InOrder' /\ Pending' \subseteq Pending \cup ({None} \ {None})
      BY <2>1, <3>1, JoinsPending
    <3> QED BY <3>2
  <2>3. ASSUME NEW f \in Files, Startup(f) \/ Resume(f) \/ Clear(f)
        PROVE  InOrder' /\ Pending' \subseteq Pending
    BY <2>2, <2>3 DEF Startup, Resume, Clear
  <2>4. CASE Compact
    <3>1. claude.file \in Files
      BY OffsetTypes
    <3>2. InOrder' /\ Pending' \subseteq Pending
      BY <2>2, <2>4, <3>1 DEF Compact
    <3> QED BY <2>1, <3>2
  <2>5. CASE Reply
    <3>1. Fire("Stop", None, None, claude.file) /\ claude.file \in Files
      BY <2>5, OffsetTypes DEF Reply
    <3>2. InOrder' /\ Pending' \subseteq Pending \cup ({None} \ {None})
      BY <2>1, <3>1, JoinsPending
    <3> QED BY <2>1, <3>2
  <2>6. CASE FinishEntry \/ Interrupt \/ Exit
    <3>1. hooks' = hooks
      BY <2>6 DEF FinishEntry, Interrupt, Exit, hookVars
    <3>2. InOrder' /\ Pending' = Pending
      BY <2>1, <3>1 DEF Queued, InOrder, Pending
    <3> QED BY <2>1, <3>2
  <2>7. ASSUME NEW p \in Prompts, NEW whole \in BOOLEAN, Submit(p, whole)
        PROVE  InOrder' /\ Pending' \subseteq DOMAIN prompts' /\ Pending' \cap DOMAIN prompts \subseteq Pending
    <3> DEFINE n == Len(prompts) + 1
               m == IF whole THEN n ELSE None
    <3>1. n \in Ids /\ n \notin DOMAIN prompts
      BY <2>7, <1>2, SessionCaptureAssumption DEF Submit, Ids
    <3>2. DOMAIN prompts' = 1..n
      BY <2>7, <1>2 DEF Submit, TypeOK
    <3>3. Fire("UserPromptSubmit", None, m, claude.file) /\ claude.file \in Files
      BY <2>7, OffsetTypes DEF Submit
    <3>4. m \in Ids \cup {None} /\ (m = None \/ m = n)
      BY <3>1
    <3> HIDE DEF m
    <3>5. InOrder' /\ Pending' \subseteq Pending \cup ({m} \ {None})
      BY <2>1, <3>3, <3>4, JoinsPending
    <3>6. {m} \ {None} \subseteq {n} /\ n \in DOMAIN prompts'
      BY <1>2, <3>2, <3>4
    <3> QED BY <2>1, <3>1, <3>5, <3>6
  <2> QED BY <2>1, <2>3, <2>4, <2>5, <2>6, <2>7 DEF Claude
<1> QED BY <1>1, <1>3, CalmStores

\* A hook that stores nothing, or none at all.
LEMMA HandledStores ==
    ASSUME TypeOK, TypeOK', Written, Stores, UNCHANGED <<world, database, eager, dropped, skipped, steady>>,
           overtaken => overtaken',
           hooks' = hooks \/ \E i \in DOMAIN hooks : hooks' = RemoveAt(hooks, i)
    PROVE  Stores'
<1>1. Grows /\ prompts' = prompts
  BY OthersGrow DEF world
<1>2. InOrder' /\ Pending' \subseteq Pending
  <2>1. CASE hooks' = hooks
    BY <2>1 DEF Stores, Queued, InOrder, Pending
  <2> QED BY <2>1, LeavesPending DEF Stores, Queued
<1>3. Pending' \subseteq DOMAIN prompts' /\ Pending' \cap DOMAIN prompts \subseteq Pending
  BY <1>1, <1>2 DEF Stores, Queued
<1> QED BY <1>1, <1>2, <1>3, CalmStores

LEMMA CalmStepStores ==
    ASSUME TypeOK, TypeOK', Written, Stores,
           \/ \E i \in DOMAIN hooks : BeginClear(i) \/ Resumed(i) \/ LoseHook(i)
           \/ \E i \in DOMAIN hooks : CapturePrompt(i) /\ UNCHANGED <<inbound, eager, dropped>>
           \/ ShimConnected \/ ShimDisconnected
           \/ UNCHANGED vars
    PROVE  Stores'
<1>1. ASSUME NEW i \in DOMAIN hooks, BeginClear(i) \/ Resumed(i) \/ LoseHook(i)
      PROVE  Stores'
  <2>1. /\ UNCHANGED <<world, database, eager, dropped, skipped, steady>> /\ (overtaken => overtaken')
        /\ hooks' = RemoveAt(hooks, i)
    <3>1. CASE BeginClear(i)
      BY <3>1 DEF BeginClear, Take
    <3>2. CASE Resumed(i)
      BY <3>2 DEF Resumed, Take
    <3>3. CASE LoseHook(i)
      BY <3>3 DEF LoseHook, memory, history
    <3> QED BY <1>1, <3>1, <3>2, <3>3
  <2> QED BY <2>1, HandledStores
<1>2. CASE \E i \in DOMAIN hooks : CapturePrompt(i) /\ UNCHANGED <<inbound, eager, dropped>>
  <2>1. /\ UNCHANGED <<world, database, eager, dropped, skipped, steady>> /\ (overtaken => overtaken')
        /\ \E i \in DOMAIN hooks : hooks' = RemoveAt(hooks, i)
    BY <1>2 DEF CapturePrompt, Take, database
  <2> QED BY <2>1, HandledStores
<1>3. CASE ShimConnected \/ ShimDisconnected \/ UNCHANGED vars
  <2>1. UNCHANGED <<world, database, eager, dropped, skipped, steady, overtaken, hooks>>
    BY <1>3 DEF ShimConnected, ShimDisconnected, vars, hookVars, memory, history
  <2> QED BY <2>1, HandledStores
<1> QED BY <1>1, <1>2, <1>3

-----------------------------------------------------------------------------
(* A prompt that its hook brings                                           *)

LEMMA ByHookGrows ==
    ASSUME TypeOK, NEW n \in Ids, inbound' = InsertPrompts("ups", {n})
    PROVE  ByHook' = ByHook \cup {n} /\ ByTail' = ByTail
BY DEF InsertPrompts, ByHook, ByTail

\* While claude writes nothing and the offset stays, so do the sets of prompts.
LEMMA SameWorldSets ==
    ASSUME UNCHANGED <<transcript, prompts, offset>>
    PROVE  /\ Local' = Local /\ Behind' = Behind /\ Ahead' = Ahead
           /\ \A A, t : {n \in A : prompts'[n].text = t} = Saying(A, t)
BY DEF Local, Behind, Ahead, Between, Saying

LEMMA CapturePromptStores ==
    ASSUME TypeOK, TypeOK', Written, Stores, NEW i \in DOMAIN hooks,
           CapturePrompt(i), ~UNCHANGED <<inbound, eager, dropped>>
    PROVE  Stores'
<1> DEFINE n == hooks[i].prompt
<1>1. /\ n # None /\ ~prompts[n].relayed
      /\ inbound' = InsertPrompts("ups", {n}) /\ eager' = n
      /\ dropped' = dropped \cup ({eager} \ {None}) \cup {m \in {n} : <<"uuid", m>> \in inbound}
  BY DEF CapturePrompt
<1>2. /\ UNCHANGED <<transcript, torn, claude, prompts, offset, outbound, skipped, steady>>
      /\ hooks' = RemoveAt(hooks, i) /\ overtaken' = (overtaken \/ i > 1)
  BY DEF CapturePrompt, Take, world
<1>3. Queued /\ Caught /\ InOrder
  BY DEF Stores, Queued
<1>4. /\ InOrder' /\ Pending' \subseteq Pending /\ n \in Pending /\ n \notin Pending'
      /\ i = 1 => \A m \in Pending' : m > n
  BY <1>1, <1>2, <1>3, LeavesPending, PendingTypes
<1>5. n \in Local /\ n \in Ids /\ n \notin ByHook /\ DOMAIN prompts = 1..Len(prompts)
  BY <1>1, <1>3, <1>4, PendingTypes, PromptTypes DEF Queued, Local
<1>6. ByHook' = ByHook \cup {n} /\ ByTail' = ByTail
  BY <1>1, <1>5, ByHookGrows
<1>7. Local' = Local /\ Behind' = Behind /\ Ahead' = Ahead /\ \A A, t : {m \in A : prompts'[m].text = t} = Saying(A, t)
  BY <1>2, SameWorldSets
<1>8. Local \subseteq Ids /\ ByHook \subseteq Local /\ dropped \subseteq Local /\ ByTail \subseteq Local
  BY <1>3, PromptTypes DEF Caught
<1>9. ByHook \ {eager} \subseteq ByHook /\ dropped' \subseteq Local /\ eager \in dropped' \cup {None}
      /\ (n \notin dropped' => n \notin ByTail) /\ dropped \subseteq dropped'
  <2>1. eager # None => eager \in Local
    BY <1>3, <1>8 DEF Caught
  <2>2. n \in ByTail => n \in dropped'
    BY <1>1 DEF ByTail
  <2> QED BY <1>1, <1>5, <1>8, <2>1, <2>2
<1> HIDE DEF n
<1>10. Queued'
  <2>1. Pending' \subseteq DOMAIN prompts' /\ Pending' \cap ByHook' = {}
    BY <1>2, <1>3, <1>4, <1>6 DEF Queued
  <2>2. i \in 1..Len(hooks) /\ Len(hooks) \in Nat
    BY HookTypes
  <2>3. ASSUME ~overtaken' PROVE i = 1
    <3>1. ~(i > 1)
      BY <1>2, <2>3, Zenon
    <3> QED BY <2>2, <3>1
  <2> QED BY <1>1, <1>4, <2>1, <2>3 DEF Queued
<1>11. Caught'
  <2>1. (ByHook \cup ByTail \cup dropped)' \subseteq Local' /\ eager' \in ByHook'
    BY <1>1, <1>5, <1>6, <1>7, <1>8, <1>9
  <2>2. (offset # None => offset.at <= Complete(offset.file))'
    BY <1>2, <1>3 DEF Caught, Complete
  <2>3. steady' => ByTail' \cap Ahead' = {}
    BY <1>2, <1>3, <1>6, <1>7 DEF Caught
  <2> QED BY <2>1, <2>2, <2>3 DEF Caught
<1>12. ReadIsShown'
  <2> SUFFICES ASSUME steady', NEW t \in Texts
               PROVE  Cardinality(Saying(Behind \ ByTail, t)') <= Cardinality(Saying(ByHook \ {eager}, t)')
    BY DEF ReadIsShown
  <2>1. Cardinality(Saying(Behind \ ByTail, t)) <= Cardinality(Saying(ByHook \ {eager}, t))
    BY <1>2 DEF Stores, ReadIsShown
  <2>2. Saying(Behind \ ByTail, t)' = Saying(Behind \ ByTail, t)
    BY <1>6, <1>7 DEF Saying
  <2>3. Saying(ByHook \ {eager}, t)' = Saying(ByHook, t)
    <3>1. (ByHook \ {eager})' = ByHook
      BY <1>1, <1>5, <1>6 DEF n
    <3> QED BY <1>7, <3>1 DEF Saying
  <2>4. Saying(ByHook \ {eager}, t) \subseteq Saying(ByHook, t) /\ Saying(ByHook, t) \subseteq Ids
        /\ Saying(Behind \ ByTail, t) \subseteq Ids
    BY <1>8, RowTypes DEF Saying
  <2>5. Cardinality(Saying(ByHook \ {eager}, t)) <= Cardinality(Saying(ByHook, t))
    BY <2>4, Smaller
  <2>6. /\ Cardinality(Saying(ByHook \ {eager}, t)) \in Nat /\ Cardinality(Saying(ByHook, t)) \in Nat
        /\ Cardinality(Saying(Behind \ ByTail, t)) \in Nat
    BY <2>4, Sizes
  <2> QED BY <2>1, <2>2, <2>3, <2>5, <2>6
<1>13. UsedOnce'
  <2> SUFFICES ASSUME steady', ~overtaken', NEW t \in Texts
               PROVE  /\ Cardinality(Saying(ByHook \ (dropped \cup {eager}), t)') <= Cardinality(Passed(t)' \ Pending')
                      /\ eager' \notin dropped' /\ eager' \notin Ahead' =>
                           Cardinality(Saying(ByHook \ dropped, t)') <= Cardinality(Passed(t)' \ Pending')
    BY DEF UsedOnce
  <2> DEFINE old == Saying(ByHook \ (dropped \cup {eager}), t)
             free == Passed(t) \ Pending
             more == Passed(t) \ Pending'
  <2>1. Cardinality(old) <= Cardinality(free)
    BY <1>2 DEF Stores, UsedOnce
  <2>2. Passed(t)' = Passed(t)
    BY <1>2, <1>6, <1>7 DEF Passed, Saying
  <2>3. Saying(ByHook \ (dropped \cup {eager}), t)' \subseteq old
    <3>1. (ByHook \ (dropped \cup {eager}))' \subseteq ByHook \ (dropped \cup {eager})
      <4>1. None \notin ByHook
        BY <1>8, PromptTypes
      <4> QED BY <1>1, <1>6, <1>9, <4>1 DEF n
    <3> QED BY <1>2, <3>1 DEF Saying
  <2>4. Saying(ByHook \ dropped, t)' \subseteq old \cup {n}
    <3>1. (ByHook \ dropped)' \subseteq (ByHook \ (dropped \cup {eager})) \cup {n}
      <4>1. None \notin ByHook
        BY <1>8, PromptTypes
      <4> QED BY <1>6, <1>9, <4>1
    <3> QED BY <1>2, <3>1 DEF Saying
  <2>5. old \subseteq Ids /\ free \subseteq more /\ more \subseteq Ids
    BY <1>4, <1>8, RowTypes DEF Saying
  <2>6. Cardinality(old) \in Nat /\ Cardinality(free) \in Nat /\ Cardinality(more) \in Nat
    BY <2>5, Sizes
  <2>7. Cardinality(free) <= Cardinality(more)
    BY <2>5, Smaller
  <2>8. /\ Cardinality(Saying(ByHook \ (dropped \cup {eager}), t)') <= Cardinality(old)
        /\ Cardinality(Saying(ByHook \ (dropped \cup {eager}), t)') \in Nat
    <3>1. Saying(ByHook \ (dropped \cup {eager}), t)' \subseteq Ids
      BY <2>3, <2>5
    <3> QED BY <2>3, <2>5, <3>1, Smaller, Sizes
  <2>9. ASSUME n \notin dropped', n \notin Ahead
        PROVE  Cardinality(Saying(ByHook \ dropped, t)') <= Cardinality(more)
    <3>1. Saying(ByHook \ dropped, t)' \subseteq Ids
      BY <1>5, <2>4, <2>5
    <3>2. Cardinality(Saying(ByHook \ dropped, t)') \in Nat
      BY <3>1, Sizes
    <3>3. CASE prompts[n].text = t
      <4>1. n \in more \ free
        BY <1>4, <1>5, <1>9, <2>9, <3>3 DEF Passed, Saying
      <4>2. Cardinality(free) + 1 <= Cardinality(more)
        BY <2>5, <4>1, OneLess
      <4>3. Cardinality(Saying(ByHook \ dropped, t)') <= Cardinality(old) + 1
        BY <2>4, <2>5, <3>1, OneMore
      <4> QED BY <2>1, <2>6, <3>2, <4>2, <4>3
    <3>4. CASE prompts[n].text # t
      <4>1. n \notin Saying(ByHook \ dropped, t)'
        BY <1>2, <3>4 DEF Saying
      <4>2. Saying(ByHook \ dropped, t)' \subseteq old
        BY <2>4, <4>1
      <4>3. Cardinality(Saying(ByHook \ dropped, t)') <= Cardinality(old)
        BY <2>5, <4>2, Smaller
      <4> QED BY <2>1, <2>6, <2>7, <3>2, <4>3
    <3> QED BY <3>3, <3>4
  <2> HIDE DEF old, free
  <2> QED BY <1>1, <1>7, <2>1, <2>2, <2>6, <2>7, <2>8, <2>9 DEF n
<1>14. RepliesAreStored'
  BY <1>2 DEF Stores, RepliesAreStored
<1> QED BY <1>10, <1>11, <1>12, <1>13, <1>14 DEF Stores

-----------------------------------------------------------------------------
(* A transcript that is read                                               *)

LEMMA Least ==
    ASSUME NEW T \in SUBSET Nat, T # {}
    PROVE  \E x \in T : \A y \in T : x <= y
<1> DEFINE R == {ss \in Nat \X Nat : ss[1] < ss[2]}
<1>1. IsWellFoundedOn(R, Nat)
  BY NatLessThanWellFounded, Zenon DEF OpToRel
<1>2. \A x, y \in Nat : <<y, x>> \notin R => x <= y
  OBVIOUS
<1> HIDE DEF R
<1>3. \E x \in T : \A y \in T : ~(<<y, x>> \in R)
  BY <1>1, WFMin
<1> QED BY <1>2, <1>3

\* The first prompt that says what the cached one does is used for it.
LEMMA CachedIsFirst ==
    ASSUME TypeOK, NEW ns \in SUBSET Ids
    PROVE  /\ Cached(ns) \subseteq ns
           /\ \A m \in Cached(ns) : eager # None /\ prompts[m].text = prompts[eager].text
           /\ \A m \in Cached(ns), n \in ns :
                prompts[n].text = prompts[eager].text => m <= n
           /\ \A m, n \in Cached(ns) : m = n
<1>1. \A m \in Cached(ns), n \in ns : prompts[n].text = prompts[eager].text => m <= n
  BY DEF Cached
<1>2. \A m \in Cached(ns) : m \in ns /\ eager # None /\ prompts[m].text = prompts[eager].text
  BY DEF Cached
<1>3. ASSUME NEW m \in Cached(ns), NEW n \in Cached(ns) PROVE m = n
  <2>1. m <= n /\ n <= m /\ m \in Ids /\ n \in Ids
    BY <1>1, <1>2
  <2> QED BY <2>1, SessionCaptureAssumption DEF Ids
<1> QED BY <1>1, <1>2, <1>3

LEMMA CachedExists ==
    ASSUME NEW ns \in SUBSET Ids, eager # None,
           NEW n \in ns, prompts[n].text = prompts[eager].text
    PROVE  Cached(ns) # {}
<1> DEFINE same == {m \in ns : eager # None /\ prompts[m].text = prompts[eager].text}
<1>1. same \in SUBSET Nat /\ same # {}
  <2>1. n \in same
    OBVIOUS
  <2>2. same \subseteq Nat
    BY SessionCaptureAssumption DEF Ids
  <2> QED BY <2>1, <2>2
<1>2. Cached(ns) = {m \in same : \A k \in same : m <= k}
  BY DEF Cached
<1> HIDE DEF same
<1>3. \E m \in same : \A k \in same : m <= k
  BY <1>1, Least
<1> QED BY <1>2, <1>3

\* What is unread is ahead, and is behind when it has been read.
LEMMA ReadSets ==
    ASSUME TypeOK, Written, Caught, steady, NEW f \in Files,
           offset = None \/ offset.file = f, Consume(f), UNCHANGED world
    PROVE  LET ns == Unread(f, "user", Complete(f)) IN
             /\ ns \subseteq Ahead
             /\ Behind' \subseteq Behind \cup ns
             /\ Between(f, 1, Complete(f)) \subseteq Behind'
             /\ Ahead' \subseteq Ahead /\ ns \cap Ahead' = {}
             /\ \A m \in ns, n \in Ahead' : m < n
<1> DEFINE a == From(f)
           c == Complete(f)
           l == Len(transcript[f])
           ns == Unread(f, "user", c)
<1>1. a \in 0..l /\ c \in 0..l /\ l \in Nat
  BY Bounds, FileTypes
<1>2. UNCHANGED <<transcript, prompts>> /\ Local' = Local
  BY DEF world, Local
<1>3. ns = Between(f, a + 1, c)
  <2>1. \A n : IsLocal(<<"user", n>>) <=> ~prompts[n].relayed
    BY DEF IsLocal
  <2> QED BY <2>1 DEF Unread, Between, Local
<1>4. /\ offset' = IF c > a \/ a = l THEN [file |-> f, at |-> c] ELSE offset
      /\ \A x \in Nat : [file |-> f, at |-> x] # None
  BY OffsetTypes DEF Consume, NewOffset
<1>5. /\ offset = None => a = 0 /\ Behind = {} /\ Ahead = Local
      /\ offset # None => a = offset.at /\ a <= c /\ Behind = Between(f, 1, a) /\ Ahead = Between(f, a + 1, l)
  <2>1. CASE offset = None
    BY <2>1 DEF From, Behind, Ahead
  <2>2. CASE offset # None
    <3>1. offset.file = f /\ a = offset.at /\ offset.at <= c
      BY <2>2, OffsetInFile DEF Caught
    <3> QED BY <2>2, <3>1 DEF Behind, Ahead
  <2> QED BY <2>1, <2>2
<1>6. a <= c
  BY <1>1, <1>5
<1>7. /\ \A x, y : Between(f, x, y) \subseteq Local
      /\ \A x, y : {n \in Local' : \E i \in x..y : transcript'[f][i] = <<"user", n>>} = Between(f, x, y)
  BY <1>2 DEF Between
<1>8. ASSUME NEW x \in Nat, NEW y \in Nat, NEW z \in Nat, x <= y + 1, y <= z
      PROVE  Between(f, x, y) \cup Between(f, y + 1, z) = Between(f, x, z)
  <2>1. \A i : i \in x..z <=> i \in x..y \/ i \in (y + 1)..z
    BY <1>8
  <2> QED BY <2>1 DEF Between
<1>9. ASSUME NEW m \in Between(f, 1, c), NEW n \in Between(f, c + 1, l)
      PROVE  m < n
  <2>1. PICK i \in 1..c : transcript[f][i] = <<"user", m>>
    BY DEF Between
  <2>2. PICK j \in (c + 1)..l : transcript[f][j] = <<"user", n>>
    BY DEF Between
  <2>3. i \in 1..l /\ j \in 1..l /\ i < j
    BY <1>1
  <2>4. /\ transcript[f][i][1] = "user" /\ transcript[f][i][2] = m
        /\ transcript[f][j][1] = "user" /\ transcript[f][j][2] = n
    BY <2>1, <2>2
  <2> QED BY <2>3, <2>4 DEF Written
<1>10. ASSUME NEW m \in Local, m < m PROVE FALSE
  BY <1>10, PromptTypes DEF Ids
<1> HIDE DEF a, c, l, ns
<1>11. CASE c > a \/ a = l
  <2>1. offset' # None /\ offset'.file = f /\ offset'.at = c
    BY <1>1, <1>4, <1>11
  <2>2. Behind' = Between(f, 1, c) /\ Ahead' = Between(f, c + 1, l)
    BY <1>2, <1>7, <2>1 DEF Behind, Ahead, Between, l
  <2>3. ns \subseteq Between(f, 1, c)
    BY <1>1, <1>3 DEF Between
  <2>4. Behind' \subseteq Behind \cup ns
    <3>1. Between(f, 1, a) \cup Between(f, a + 1, c) = Between(f, 1, c)
      BY <1>1, <1>6, <1>8
    <3>2. offset = None => Between(f, 1, a) = {}
      BY <1>5 DEF Between
    <3> QED BY <1>3, <1>5, <2>2, <3>1, <3>2
  <2>5. ns \subseteq Ahead /\ Ahead' \subseteq Ahead
    <3>1. Between(f, a + 1, c) \cup Between(f, c + 1, l) = Between(f, a + 1, l)
      BY <1>1, <1>6, <1>8
    <3> QED BY <1>3, <1>5, <1>7, <2>2, <3>1
  <2>6. \A m \in ns, n \in Ahead' : m < n
    BY <1>9, <2>2, <2>3
  <2>7. ns \cap Ahead' = {}
    BY <1>3, <1>7, <1>10, <2>6
  <2> QED BY <2>2, <2>4, <2>5, <2>6, <2>7 DEF ns, c
<1>12. CASE ~(c > a \/ a = l)
  <2>1. offset' = offset /\ c = a
    BY <1>1, <1>4, <1>6, <1>12
  <2>2. ns = {}
    BY <1>1, <1>3, <2>1 DEF Between
  <2>3. Behind' = Behind /\ Ahead' = Ahead
    BY <1>2, <2>1, SameWorldSets
  <2>4. Between(f, 1, c) \subseteq Behind
    BY <1>5, <2>1 DEF Between
  <2> QED BY <2>2, <2>3, <2>4 DEF ns, c
<1> QED BY <1>11, <1>12

LEMMA ByTailGrows ==
    ASSUME TypeOK, NEW ns \in SUBSET Ids, inbound' = InsertPrompts("uuid", ns)
    PROVE  ByHook' = ByHook /\ ByTail' = ByTail \cup ns
BY DEF InsertPrompts, ByHook, ByTail

\* A complete reply is stored, was skipped, is skipped now or will be inserted.
LEMMA EveryReply ==
    ASSUME TypeOK, Written, RepliesAreStored, NEW f \in Files,
           NEW k \in 1..Complete(f), transcript[f][k][1] = "assistant"
    PROVE  transcript[f][k][2] \in outbound \cup skipped \cup Foreign(f)
                                     \cup Unread(f, "assistant", Complete(f))
<1> DEFINE c == Complete(f)
           n == transcript[f][k][2]
<1>1. /\ c \in 0..Len(transcript[f]) /\ Len(transcript[f]) \in Nat /\ From(f) \in Nat
      /\ From(f) = 0 \/ (offset # None /\ From(f) = offset.at)
  BY Bounds, FileTypes
<1>2. transcript[f][k] = <<"assistant", n>> /\ n \in DOMAIN prompts
  <2>1. k \in 1..Len(transcript[f])
    BY <1>1
  <2> QED BY <2>1, FileTypes DEF Written
<1>3. CASE k <= From(f) /\ offset.file = f
  <2>1. offset # None /\ k \in 1..offset.at
    BY <1>1, <1>3
  <2> QED BY <1>3, <2>1 DEF RepliesAreStored
<1>4. CASE k <= From(f) /\ offset.file # f
  <2>1. offset # None /\ k \in 1..From(f)
    BY <1>1, <1>4
  <2> QED BY <1>2, <1>4, <2>1 DEF Foreign
<1>5. CASE ~(k <= From(f))
  <2>1. k \in (From(f) + 1)..c
    BY <1>1, <1>5
  <2>2. IsLocal(<<"assistant", n>>)
    BY DEF IsLocal
  <2> QED BY <1>2, <2>1, <2>2 DEF Unread
<1> QED BY <1>3, <1>4, <1>5

LEMMA CaptureTranscriptStores ==
    ASSUME TypeOK, TypeOK', Written, Stores, NEW i \in DOMAIN hooks, CaptureTranscript(i)
    PROVE  Stores'
<1> DEFINE f == hooks[i].file
           c == Complete(f)
           ns == Unread(f, "user", c)
           used == Cached(ns)
<1>1. /\ UNCHANGED <<world, transcript, torn, claude, prompts, dropped>>
      /\ hooks' = RemoveAt(hooks, i) /\ (overtaken => overtaken')
      /\ Consume(f) /\ Capture(f, c) /\ eager' = Left(ns)
      /\ steady' = (steady /\ (offset = None \/ offset.file = f))
  BY DEF CaptureTranscript, Take, world, Consume
<1>2. Queued /\ Caught /\ InOrder /\ f \in Files
  BY HookTypes DEF Stores, Queued
<1>3. ns \subseteq Local /\ Local \subseteq Ids /\ None \notin Ids /\ Local \subseteq DOMAIN prompts
  BY UnreadTypes, PromptTypes
<1>4. /\ used \subseteq ns
      /\ \A m \in used : eager # None /\ prompts[m].text = prompts[eager].text
      /\ \A m \in used, n \in ns : prompts[n].text = prompts[eager].text => m <= n
      /\ \A m, n \in used : m = n
      /\ \A n \in ns : eager # None /\ prompts[n].text = prompts[eager].text => used # {}
  BY <1>3, CachedIsFirst, CachedExists
<1>5. eager' = IF used = {} THEN eager ELSE None
  BY <1>1 DEF Left
<1>6. ByHook' = ByHook /\ ByTail' = ByTail \cup (ns \ used)
  <2>1. inbound' = InsertPrompts("uuid", ns \ used) /\ ns \ used \in SUBSET Ids
    BY <1>1, <1>3 DEF Capture
  <2> QED BY <2>1, ByTailGrows
<1>7. InOrder' /\ Pending' \subseteq Pending
  BY <1>1, <1>2, LeavesPending
<1>8. Local' = Local /\ \A A, t : {n \in A : prompts'[n].text = t} = Saying(A, t)
  BY <1>1 DEF Local, Saying
<1>9. ByHook \subseteq Local /\ ByTail \subseteq Local /\ dropped \subseteq Local /\ (eager # None => eager \in ByHook)
  BY <1>2 DEF Caught
<1>10. steady' => /\ ns \subseteq Ahead
                  /\ Behind' \subseteq Behind \cup ns
                  /\ Between(f, 1, c) \subseteq Behind'
                  /\ Ahead' \subseteq Ahead /\ ns \cap Ahead' = {}
                  /\ \A m \in ns, n \in Ahead' : m < n
  BY <1>1, <1>2, ReadSets DEF Stores
<1>11. steady' => ByTail \cap Ahead = {} /\ steady
  BY <1>1, <1>2 DEF Caught
<1>12. Behind \subseteq Local /\ Behind' \subseteq Local' /\ Ahead \subseteq Local
  BY RowTypes DEF Behind, Between
<1>13. c \in 0..Len(transcript[f]) /\ Len(transcript[f]) \in Nat /\ From(f) \in Nat
  BY <1>2, Bounds, FileTypes
<1>19. \A g \in Files : Complete(g)' = Complete(g) /\ Complete(g) \in Nat
  <2>1. \A g \in Files : Complete(g)' = Complete(g)
    BY <1>1 DEF Complete
  <2> QED BY <2>1, Bounds, FileTypes
<1> HIDE DEF f, c, ns, used
<1>14. Queued'
  <2>1. Pending' \cap ByHook' = {} /\ Pending' \subseteq DOMAIN prompts'
    BY <1>1, <1>2, <1>6, <1>7 DEF Queued
  <2>2. ~overtaken' /\ eager' # None => \A n \in Pending' : n > eager'
    BY <1>1, <1>2, <1>5, <1>7 DEF Queued
  <2> QED BY <1>7, <2>1, <2>2 DEF Queued
<1>15. Caught'
  <2>1. (ByHook \cup ByTail \cup dropped)' \subseteq Local'
    BY <1>1, <1>3, <1>6, <1>8, <1>9
  <2>2. eager' # None => eager' \in ByHook'
    BY <1>5, <1>6, <1>9
  <2>3. (offset # None => offset.at <= Complete(offset.file))'
    <3>1. CASE offset' = [file |-> f, at |-> c]
      <4>1. PICK g \in Files : g = f
        BY <1>2
      <4>2. offset'.file = g /\ offset'.at = Complete(g)
        BY <3>1, <4>1 DEF c
      <4>3. offset'.at <= Complete(g)'
        BY <1>19, <4>2
      <4> QED BY <4>2, <4>3
    <3>2. CASE offset' = offset
      BY <1>1, <1>2, <3>2 DEF Caught, Complete
    <3> QED BY <1>1, <3>1, <3>2 DEF Consume, NewOffset, c
  <2>4. steady' => ByTail' \cap Ahead' = {}
    BY <1>6, <1>10, <1>11
  <2> QED BY <2>1, <2>2, <2>3, <2>4 DEF Caught
<1>16. ASSUME steady', NEW t \in Texts
       PROVE  Cardinality(Saying(Behind \ ByTail, t)') <= Cardinality(Saying(ByHook \ {eager}, t)')
  <2> DEFINE shown == Saying(Behind \ ByTail, t)
             free == Saying(ByHook \ {eager}, t)
  <2>1. Cardinality(shown) <= Cardinality(free)
    BY <1>11, <1>16 DEF Stores, ReadIsShown
  <2>2. /\ shown \subseteq Ids /\ free \subseteq Ids
        /\ Saying(Behind \ ByTail, t)' \subseteq Ids /\ Saying(ByHook \ {eager}, t)' \subseteq Ids
    BY <1>3, <1>6, <1>8, <1>9, <1>12 DEF Saying
  <2>3. /\ Cardinality(shown) \in Nat /\ Cardinality(free) \in Nat
        /\ Cardinality(Saying(Behind \ ByTail, t)') \in Nat
        /\ Cardinality(Saying(ByHook \ {eager}, t)') \in Nat
    BY <2>2, Sizes
  <2>4. Saying(Behind \ ByTail, t)' \subseteq shown \cup {n \in used : prompts[n].text = t}
    <3>1. (Behind \ ByTail)' \subseteq (Behind \ ByTail) \cup used
      BY <1>6, <1>10, <1>16
    <3> QED BY <1>1, <3>1 DEF Saying
  <2>5. free \subseteq Saying(ByHook \ {eager}, t)'
    <3>1. ByHook \ {eager} \subseteq (ByHook \ {eager})'
      BY <1>3, <1>5, <1>6, <1>9
    <3> QED BY <1>1, <3>1 DEF Saying
  <2>6. CASE {n \in used : prompts[n].text = t} = {}
    <3>1. Saying(Behind \ ByTail, t)' \subseteq shown
      BY <2>4, <2>6
    <3>2. Cardinality(Saying(Behind \ ByTail, t)') <= Cardinality(shown)
      BY <2>2, <3>1, Smaller
    <3>3. Cardinality(free) <= Cardinality(Saying(ByHook \ {eager}, t)')
      BY <2>2, <2>5, Smaller
    <3> HIDE DEF shown, free
    <3> QED BY <2>1, <2>3, <3>2, <3>3
  <2>7. CASE {n \in used : prompts[n].text = t} # {}
    <3>1. PICK m \in used : prompts[m].text = t
      BY <2>7
    <3>2. {n \in used : prompts[n].text = t} = {m}
      BY <1>4, <3>1
    <3>3. Cardinality(Saying(Behind \ ByTail, t)') <= Cardinality(shown) + 1
      BY <2>2, <2>4, <3>2, OneMore
    <3>4. eager # None /\ prompts[eager].text = t /\ eager' = None /\ eager \in ByHook
      BY <1>4, <1>5, <1>9, <3>1
    <3>5. eager \in Saying(ByHook \ {eager}, t)' \ free
      <4>1. eager \in (ByHook \ {eager})'
        BY <1>6, <3>4
      <4> QED BY <1>1, <3>4, <4>1 DEF Saying
    <3>6. Cardinality(free) + 1 <= Cardinality(Saying(ByHook \ {eager}, t)')
      BY <2>2, <2>5, <3>5, OneLess
    <3> HIDE DEF shown, free
    <3> QED BY <2>1, <2>3, <3>3, <3>6
  <2> QED BY <2>6, <2>7
<1>17. ASSUME steady', ~overtaken', NEW t \in Texts
       PROVE  /\ Cardinality(Saying(ByHook \ (dropped \cup {eager}), t)') <= Cardinality(Passed(t)' \ Pending')
              /\ eager' # None /\ eager' \notin dropped' /\ eager' \notin Ahead' =>
                   Cardinality(Saying(ByHook \ dropped, t)') <= Cardinality(Passed(t)' \ Pending')
  <2> DEFINE old == Saying(ByHook \ (dropped \cup {eager}), t)
             all == Saying(ByHook \ dropped, t)
             free == Passed(t) \ Pending
             more == Passed(t)' \ Pending'
  <2>1. /\ Cardinality(old) <= Cardinality(free)
        /\ eager # None /\ eager \notin dropped /\ eager \notin Ahead => Cardinality(all) <= Cardinality(free)
    BY <1>1, <1>11, <1>17 DEF Stores, UsedOnce
  <2>2. Passed(t) \subseteq Passed(t)'
    BY <1>1, <1>6, <1>8, <1>10, <1>17 DEF Passed, Saying
  <2>3. /\ old \subseteq Ids /\ all \subseteq Ids /\ free \subseteq Ids /\ more \subseteq Ids
        /\ free \subseteq more /\ old \subseteq all /\ all \subseteq old \cup {eager}
    <3>1. Passed(t)' \subseteq Local' /\ Passed(t) \subseteq Local
      BY DEF Passed, Saying
    <3> QED BY <1>3, <1>7, <1>8, <1>9, <2>2, <3>1 DEF Saying
  <2>4. /\ Cardinality(old) \in Nat /\ Cardinality(all) \in Nat
        /\ Cardinality(free) \in Nat /\ Cardinality(more) \in Nat
    BY <2>3, Sizes
  <2>5. Cardinality(free) <= Cardinality(more) /\ Cardinality(all) <= Cardinality(old) + 1
    BY <2>3, Smaller, OneMore
  <2>6. /\ Saying(ByHook \ dropped, t)' = all
        /\ used = {} => Saying(ByHook \ (dropped \cup {eager}), t)' = old
        /\ used # {} => Saying(ByHook \ (dropped \cup {eager}), t)' = all
    <3>1. (ByHook \ dropped)' = ByHook \ dropped
      BY <1>1, <1>6
    <3>2. used = {} => (ByHook \ (dropped \cup {eager}))' = ByHook \ (dropped \cup {eager})
      BY <1>1, <1>5, <1>6
    <3>3. used # {} => (ByHook \ (dropped \cup {eager}))' = ByHook \ dropped
      BY <1>1, <1>3, <1>5, <1>6, <1>9
    <3> QED BY <1>1, <3>1, <3>2, <3>3 DEF Saying
  \* The cached prompt was ahead: now it has passed itself, or the one it was used for has.
  <2>7. ASSUME eager # None, eager \in Ahead, prompts[eager].text = t, used # {} \/ eager \notin Ahead'
        PROVE  Cardinality(free) + 1 <= Cardinality(more)
    <3>1. eager \notin Pending' /\ eager \in Local /\ eager \in Nat /\ eager \notin ByTail
      <4>1. eager \in ByHook /\ eager \in Local
        BY <1>9, <2>7
      <4>2. eager \notin Pending'
        BY <1>2, <1>7, <4>1 DEF Queued
      <4>3. eager \in Nat
        BY <1>3, <4>1, SessionCaptureAssumption DEF Ids
      <4>4. eager \notin ByTail
        BY <1>11, <1>17, <2>7
      <4> QED BY <4>1, <4>2, <4>3, <4>4
    <3>2. CASE eager \notin ns /\ eager \notin Ahead'
      <4>1. eager \in Passed(t)' /\ eager \notin Passed(t)
        BY <1>1, <1>6, <1>8, <2>7, <3>1, <3>2 DEF Passed, Saying
      <4>2. eager \in more \ free
        BY <3>1, <4>1
      <4> QED BY <2>3, <4>2, OneLess
    <3>3. CASE eager \in ns \/ eager \in Ahead'
      <4>1. used # {}
        BY <1>4, <2>7, <3>3
      <4>2. PICK m \in used : TRUE
        BY <4>1
      <4>3. m \in ns /\ m \in Local /\ m \in Nat /\ prompts[m].text = t
        BY <1>3, <1>4, <2>7, <4>2 DEF Ids
      <4>4. m <= eager
        BY <1>4, <1>10, <1>17, <2>7, <3>1, <3>3, <4>2, <4>3
      <4>5. m \notin Pending'
        <5>1. \A n \in Pending : n > eager
          BY <1>1, <1>2, <1>17, <2>7 DEF Queued
        <5> QED BY <1>7, <3>1, <4>3, <4>4, <5>1
      <4>6. m \notin ByTail' /\ m \notin Ahead' /\ m \in Ahead
        BY <1>6, <1>10, <1>11, <1>17, <4>2, <4>3
      <4>7. m \in Passed(t)' /\ m \notin Passed(t)
        BY <1>1, <1>8, <4>3, <4>6 DEF Passed, Saying
      <4>8. m \in more \ free
        BY <4>5, <4>7
      <4> QED BY <2>3, <4>8, OneLess
    <3> QED BY <3>2, <3>3
  <2>8. eager \in dropped \/ eager = None \/ prompts[eager].text # t => all = old
    BY <1>3, <1>9 DEF Saying
  <2>9. ASSUME used # {} \/ (eager # None /\ eager \notin Ahead')
        PROVE  Cardinality(all) <= Cardinality(more)
    <3>1. CASE eager \in dropped \/ eager = None \/ prompts[eager].text # t
      <4>1. all = old
        BY <2>8, <3>1
      <4> HIDE DEF all, old, free, more
      <4> QED BY <2>1, <2>4, <2>5, <4>1
    <3>2. CASE eager \notin dropped /\ eager # None /\ eager \notin Ahead
      <4> HIDE DEF all, old, free, more
      <4> QED BY <2>1, <2>4, <2>5, <3>2
    <3>3. CASE eager # None /\ prompts[eager].text = t /\ eager \in Ahead
      <4>1. Cardinality(free) + 1 <= Cardinality(more)
        BY <2>7, <2>9, <3>3
      <4> HIDE DEF all, old, free, more
      <4> QED BY <2>1, <2>4, <2>5, <4>1
    <3> QED BY <3>1, <3>2, <3>3
  <2>10. CASE used = {}
    <3> HIDE DEF all, old, free, more
    <3>1. Cardinality(old) <= Cardinality(more)
      BY <2>1, <2>4, <2>5
    <3>2. eager' = eager
      BY <1>5, <2>10
    <3> QED BY <2>6, <2>9, <2>10, <3>1, <3>2 DEF more
  <2>11. CASE used # {}
    BY <1>5, <2>6, <2>9, <2>11
  <2> QED BY <2>10, <2>11
<1>18. RepliesAreStored'
  <2> SUFFICES ASSUME offset' # None, NEW k \in 1..offset'.at,
                      transcript'[offset'.file][k][1] = "assistant"
               PROVE  transcript'[offset'.file][k][2] \in outbound' \cup skipped'
    BY DEF RepliesAreStored
  <2>1. offset' = [file |-> f, at |-> c] \/ offset' = offset
    BY <1>1 DEF Consume, NewOffset, c
  <2>2. /\ outbound' = outbound \cup Unread(f, "assistant", c)
        /\ skipped' = skipped \cup Foreign(f)
    BY Zenon DEF CaptureTranscript, Capture, InsertReplies, f, c
  <2>4. CASE offset' = offset
    <3>1. transcript[offset.file][k][2] \in outbound \cup skipped
      BY <1>1, <2>4 DEF Stores, RepliesAreStored
    <3> QED BY <1>1, <2>2, <2>4, <3>1
  <2>5. CASE offset' = [file |-> f, at |-> c]
    <3>1. k \in 1..c /\ transcript[f][k][1] = "assistant"
      BY <1>1, <2>5
    <3>2. transcript[f][k][2] \in outbound \cup skipped \cup Foreign(f) \cup Unread(f, "assistant", c)
      BY <1>2, <3>1, EveryReply DEF Stores, c
    <3> QED BY <1>1, <2>2, <2>5, <3>2
  <2> QED BY <2>1, <2>4, <2>5
<1> QED BY <1>14, <1>15, <1>16, <1>17, <1>18 DEF Stores, ReadIsShown, UsedOnce

-----------------------------------------------------------------------------
(* Clears and crashes                                                      *)

\* No set of prompts is smaller than the empty one.
LEMMA Nothing ==
    ASSUME NEW A \in SUBSET Ids
    PROVE  Cardinality({}) <= Cardinality(A)
BY FS_EmptySet, Sizes

LEMMA FinishClearStores ==
    ASSUME TypeOK, TypeOK', Written, Stores, FinishClear
    PROVE  Stores'
<1>1. /\ UNCHANGED <<transcript, torn, claude, prompts, hooks, overtaken>>
      /\ offset' = None /\ inbound' = {} /\ eager' = None /\ dropped' = {}
  BY DEF FinishClear, Forgotten, world, hookVars
<1>2. ByHook' = {} /\ ByTail' = {} /\ Behind' = {} /\ Local' = Local
  BY <1>1 DEF ByHook, ByTail, Behind, Local
<1>3. Queued'
  BY <1>1, <1>2 DEF Stores, Queued, InOrder, Pending
<1>4. Caught'
  BY <1>1, <1>2 DEF Caught
<1>5. ASSUME NEW t
      PROVE  /\ Saying(Behind \ ByTail, t)' = {} /\ Saying(ByHook \ {eager}, t)' \subseteq Ids
             /\ Saying(ByHook \ (dropped \cup {eager}), t)' = {}
             /\ Passed(t)' \ Pending' \subseteq Ids
  <2>1. Passed(t)' \subseteq Local' /\ Local \subseteq Ids
    BY PromptTypes DEF Passed, Saying
  <2> QED BY <1>2, <2>1 DEF Saying
<1>6. ReadIsShown'
  BY <1>5, Nothing DEF ReadIsShown
<1>7. UsedOnce'
  <2> SUFFICES ASSUME NEW t \in Texts
               PROVE  Cardinality(Saying(ByHook \ (dropped \cup {eager}), t)') <= Cardinality(Passed(t)' \ Pending')
    BY <1>1 DEF UsedOnce
  <2> QED BY <1>5, Nothing
<1>8. RepliesAreStored'
  BY <1>1 DEF RepliesAreStored
<1> QED BY <1>3, <1>4, <1>6, <1>7, <1>8 DEF Stores

LEMMA RestartedQueued ==
    ASSUME TypeOK, Restarted
    PROVE  Queued' /\ Pending' = {}
<1>1. hooks' = <<>> /\ eager' = None /\ DOMAIN hooks' = {}
  BY DEF Restarted
<1> QED BY <1>1 DEF Queued, InOrder, Pending

LEMMA CrashStores ==
    ASSUME TypeOK, TypeOK', Written, Stores, Crash
    PROVE  Stores'
<1>1. /\ UNCHANGED <<transcript, torn, claude, prompts, offset, inbound, outbound, skipped, steady, overtaken>>
      /\ eager' = None /\ dropped' = dropped \cup ({eager} \ {None})
  BY DEF Crash, Restarted, world, database
<1>2. /\ ByHook' = ByHook /\ ByTail' = ByTail /\ Behind' = Behind /\ Ahead' = Ahead /\ Local' = Local
      /\ \A A, t : {n \in A : prompts'[n].text = t} = Saying(A, t)
  BY <1>1, SameWorldSets DEF ByHook, ByTail
<1>3. /\ Caught /\ Pending' = {} /\ Queued'
      /\ Local \subseteq Ids /\ ByHook \subseteq Local /\ Behind \subseteq Ids /\ None \notin Ids
  BY RestartedQueued, PromptTypes, RowTypes DEF Stores, Caught, Crash
<1>4. Caught'
  <2>1. (ByHook \cup ByTail \cup dropped)' \subseteq Local'
    BY <1>1, <1>2, <1>3 DEF Caught
  <2>2. (offset # None => offset.at <= Complete(offset.file))'
    BY <1>1, <1>3 DEF Caught, Complete
  <2>3. steady' => ByTail' \cap Ahead' = {}
    BY <1>1, <1>2, <1>3 DEF Caught
  <2> QED BY <1>1, <2>1, <2>2, <2>3 DEF Caught
<1>5. ASSUME steady', NEW t \in Texts
      PROVE  Cardinality(Saying(Behind \ ByTail, t)') <= Cardinality(Saying(ByHook \ {eager}, t)')
  <2>1. /\ Saying(Behind \ ByTail, t)' = Saying(Behind \ ByTail, t)
        /\ Saying(ByHook \ {eager}, t) \subseteq Saying(ByHook \ {eager}, t)'
    <3>1. ByHook \ {eager} \subseteq (ByHook \ {eager})' /\ (Behind \ ByTail)' = Behind \ ByTail
      BY <1>1, <1>2, <1>3
    <3> QED BY <1>1, <3>1 DEF Saying
  <2>2. Cardinality(Saying(Behind \ ByTail, t)) <= Cardinality(Saying(ByHook \ {eager}, t))
    BY <1>1, <1>5 DEF Stores, ReadIsShown
  <2>3. /\ Saying(ByHook \ {eager}, t)' \subseteq Ids /\ Saying(ByHook \ {eager}, t) \subseteq Ids
        /\ Saying(Behind \ ByTail, t) \subseteq Ids
    BY <1>2, <1>3 DEF Saying
  <2>4. Cardinality(Saying(ByHook \ {eager}, t)) <= Cardinality(Saying(ByHook \ {eager}, t)')
    BY <2>1, <2>3, Smaller
  <2>5. /\ Cardinality(Saying(ByHook \ {eager}, t)) \in Nat
        /\ Cardinality(Saying(ByHook \ {eager}, t)') \in Nat
        /\ Cardinality(Saying(Behind \ ByTail, t)) \in Nat
    BY <2>3, Sizes
  <2> QED BY <2>1, <2>2, <2>4, <2>5
<1>6. ASSUME steady', ~overtaken', NEW t \in Texts
      PROVE  Cardinality(Saying(ByHook \ (dropped \cup {eager}), t)') <= Cardinality(Passed(t)' \ Pending')
  <2>1. Saying(ByHook \ (dropped \cup {eager}), t)' \subseteq Saying(ByHook \ (dropped \cup {eager}), t)
    <3>1. (ByHook \ (dropped \cup {eager}))' \subseteq ByHook \ (dropped \cup {eager})
      BY <1>1, <1>2, <1>3
    <3> QED BY <1>1, <3>1 DEF Saying
  <2>2. Passed(t) \ Pending \subseteq Passed(t)' \ Pending'
    <3>1. Passed(t)' = Passed(t)
      BY <1>1, <1>2 DEF Passed, Saying
    <3> QED BY <1>3, <3>1
  <2>3. Cardinality(Saying(ByHook \ (dropped \cup {eager}), t)) <= Cardinality(Passed(t) \ Pending)
    BY <1>1, <1>6 DEF Stores, UsedOnce
  <2>4. Saying(ByHook \ (dropped \cup {eager}), t) \subseteq Ids /\ Passed(t)' \ Pending' \subseteq Ids
    <3>1. Passed(t)' \subseteq Local'
      BY DEF Passed, Saying
    <3> QED BY <1>2, <1>3, <3>1 DEF Saying
  <2>5. /\ Cardinality(Saying(ByHook \ (dropped \cup {eager}), t)')
             <= Cardinality(Saying(ByHook \ (dropped \cup {eager}), t))
        /\ Cardinality(Passed(t) \ Pending) <= Cardinality(Passed(t)' \ Pending')
    BY <2>1, <2>2, <2>4, Smaller
  <2>6. /\ Cardinality(Saying(ByHook \ (dropped \cup {eager}), t)') \in Nat
        /\ Cardinality(Saying(ByHook \ (dropped \cup {eager}), t)) \in Nat
        /\ Cardinality(Passed(t) \ Pending) \in Nat /\ Cardinality(Passed(t)' \ Pending') \in Nat
    <3>1. Saying(ByHook \ (dropped \cup {eager}), t)' \subseteq Ids /\ Passed(t) \ Pending \subseteq Ids
      BY <2>1, <2>2, <2>4
    <3> QED BY <2>4, <3>1, Sizes
  <2> QED BY <2>3, <2>5, <2>6
<1>7. RepliesAreStored'
  BY <1>1 DEF Stores, RepliesAreStored
<1> QED BY <1>1, <1>3, <1>4, <1>5, <1>6, <1>7 DEF Stores, ReadIsShown, UsedOnce

\* The offset is stored and the rows are not all: only what needs no count remains.
LEMMA CrashMidwayStores ==
    ASSUME TypeOK, TypeOK', Written, Stores, NEW i \in DOMAIN hooks, CrashMidway(i)
    PROVE  Stores'
<1>1. PICK g \in Files : g = hooks[i].file
  BY HookTypes
<1>2. PICK last \in (From(g) + 1)..Complete(g) : Capture(g, last - 1)
  BY <1>1 DEF CrashMidway
<1> DEFINE ns == Unread(g, "user", last - 1)
<1>3. /\ UNCHANGED <<transcript, torn, claude, prompts>> /\ Queued' /\ ~steady'
      /\ offset'.file = g /\ offset'.at = Complete(g) /\ eager' = None
      /\ dropped' = dropped \cup ({eager} \ {None})
  BY <1>1, RestartedQueued DEF CrashMidway, Restarted, world, NewOffset
<1>4. ns \subseteq Local /\ Local \subseteq Ids
  BY UnreadTypes, PromptTypes
<1>5. ByHook' = ByHook /\ ByTail' \subseteq ByTail \cup ns
  <2>1. inbound' = InsertPrompts("uuid", ns \ Cached(ns)) /\ ns \ Cached(ns) \in SUBSET Ids
    BY <1>2, <1>4 DEF Capture
  <2>2. ByHook' = ByHook /\ ByTail' = ByTail \cup (ns \ Cached(ns))
    BY <2>1, ByTailGrows
  <2> QED BY <2>2
<1>6. Caught'
  <2>1. (ByHook \cup ByTail \cup dropped)' \subseteq Local'
    <3>1. Local' = Local
      BY <1>3 DEF Local
    <3>2. ByHook \cup ByTail \cup dropped \subseteq Local /\ (eager # None => eager \in ByHook)
      BY DEF Stores, Caught
    <3> QED BY <1>3, <1>4, <1>5, <3>1, <3>2
  <2>2. (offset.at <= Complete(offset.file))'
    <3>1. Complete(g)' = Complete(g)
      BY <1>3 DEF Complete
    <3>3. Complete(g) \in Nat
      BY Bounds, FileTypes
    <3>2. offset'.at <= Complete(g)'
      BY <1>3, <3>1, <3>3
    <3> QED BY <1>3, <3>2
  <2> QED BY <1>3, <2>1, <2>2 DEF Caught
<1>7. RepliesAreStored'
  <2> SUFFICES ASSUME NEW k \in 1..Complete(g), transcript[g][k][1] = "assistant"
               PROVE  transcript[g][k][2] \in outbound' \cup skipped'
    BY <1>3 DEF RepliesAreStored
  <2>1. skipped' = skipped \cup Foreign(g) \cup (Unread(g, "assistant", Complete(g)) \ outbound')
    BY <1>1 DEF CrashMidway
  <2>2. outbound \subseteq outbound'
    BY <1>2 DEF Capture, InsertReplies
  <2>3. transcript[g][k][2] \in outbound \cup skipped \cup Foreign(g)
                                  \cup Unread(g, "assistant", Complete(g))
    BY EveryReply DEF Stores
  <2> QED BY <2>1, <2>2, <2>3
<1> QED BY <1>3, <1>6, <1>7 DEF Stores, ReadIsShown, UsedOnce

LEMMA NextStores ==
    ASSUME TypeOK, TypeOK', Written, Stores, [Next]_vars
    PROVE  Stores'
<1>1. CASE Daemon
  <2>1. ASSUME NEW i \in DOMAIN hooks, CapturePrompt(i)
        PROVE  Stores'
    BY <2>1, CalmStepStores, CapturePromptStores
  <2> QED BY <1>1, <2>1, CalmStepStores, CaptureTranscriptStores, FinishClearStores DEF Daemon
<1>2. CASE Mishap
  BY <1>2, CalmStepStores, CrashStores, CrashMidwayStores DEF Mishap
<1> QED BY <1>1, <1>2, ClaudeStores, CalmStepStores DEF Next

-----------------------------------------------------------------------------
(* What the dashboard shows                                                *)

\* So far no hook was lost, cut or overtaken, and no turn interrupted.
Smooth == mishaps = 0 /\ ~overtaken
Busy == activity.seen /\ ~activity.stop

\* A hook that joins the queue: no prompt waits there without its Stop, or it brings it.
LEMMA JoinsWorks ==
    ASSUME TypeOK, Works, NEW name \in {"SessionStart", "UserPromptSubmit", "Stop"},
           NEW source \in {"startup", "clear", "resume", "compact", None},
           NEW prompt \in Ids \cup {None}, NEW f \in Files, Fire(name, source, prompt, f),
           name = "Stop" => source = None, UNCHANGED activity, Smooth' => Smooth,
           ~claude.busy \/ name = "Stop", name = "UserPromptSubmit" => claude'.busy
    PROVE  Works'
<1>1. /\ DOMAIN hooks = 1..Len(hooks) /\ Len(hooks) \in Nat
      /\ Len(hooks') = Len(hooks) + 1 /\ DOMAIN hooks' = 1..(Len(hooks) + 1)
      /\ \A k \in DOMAIN hooks : hooks'[k] = hooks[k]
      /\ hooks'[Len(hooks) + 1].name = name /\ hooks'[Len(hooks) + 1].source = source
      /\ hooks' # <<>> /\ (hooks = <<>> <=> Len(hooks) = 0)
  <2> DEFINE h == [name |-> name, source |-> source, prompt |-> prompt, file |-> f]
  <2>1. /\ hooks \in Seq(Hooks) /\ h \in Hooks /\ hooks' = Append(hooks, h)
        /\ h.name = name /\ h.source = source
    BY DEF TypeOK, Hooks, Fire
  <2> HIDE DEF h
  <2>2. /\ Len(hooks') = Len(hooks) + 1 /\ hooks' \in Seq(Hooks)
        /\ \A k \in 1..Len(hooks) : hooks'[k] = hooks[k]
        /\ hooks'[Len(hooks) + 1] = h
    BY <2>1, AppendElements
  <2>3. DOMAIN hooks' = 1..(Len(hooks) + 1) /\ DOMAIN hooks = 1..Len(hooks) /\ Len(hooks) \in Nat
    BY <2>1, <2>2
  <2>4. hooks' # <<>> /\ (hooks = <<>> <=> Len(hooks) = 0)
    BY <2>1, <2>2, <2>3
  <2> QED BY <2>1, <2>2, <2>3, <2>4
<1>2. \A k \in DOMAIN hooks' : k \in DOMAIN hooks \/ k = Len(hooks) + 1
  BY <1>1
<1>3. ASSUME NEW k \in DOMAIN hooks', hooks'[k].name = "Stop" PROVE hooks'[k].source = None
  BY <1>1, <1>2, <1>3 DEF Works
<1>4. ASSUME Smooth', NEW k \in DOMAIN hooks', hooks'[k].name = "UserPromptSubmit"
      PROVE  IF k = Len(hooks') THEN claude'.busy ELSE hooks'[k + 1].name = "Stop"
  <2>1. CASE k = Len(hooks) + 1
    BY <1>1, <1>4, <2>1
  <2>2. CASE k \in DOMAIN hooks
    <3>1. IF k = Len(hooks) THEN claude.busy ELSE hooks[k + 1].name = "Stop"
      BY <1>1, <1>4, <2>2 DEF Works, Smooth
    <3>2. k # Len(hooks') /\ k + 1 \in DOMAIN hooks'
      BY <1>1, <2>2
    <3>3. CASE k = Len(hooks)
      BY <1>1, <3>1, <3>2, <3>3
    <3>4. CASE k # Len(hooks)
      <4>1. k + 1 \in DOMAIN hooks
        BY <1>1, <2>2, <3>4
      <4> QED BY <1>1, <3>1, <3>2, <3>4, <4>1
    <3> QED BY <3>3, <3>4
  <2> QED BY <1>2, <2>1, <2>2
<1>5. ASSUME Smooth', Busy' PROVE hooks'[1].name = "Stop"
  <2>1. IF hooks = <<>> THEN claude.busy ELSE hooks[1].name = "Stop"
    BY <1>5 DEF Works, Smooth, Busy
  <2>2. CASE hooks = <<>>
    BY <1>1, <2>1, <2>2
  <2>3. CASE hooks # <<>>
    <3>1. 1 \in DOMAIN hooks
      BY <1>1, <2>3
    <3> QED BY <1>1, <2>1, <2>3, <3>1
  <2> QED BY <2>2, <2>3
<1> QED BY <1>1, <1>3, <1>4, <1>5 DEF Works, Smooth, Busy

\* One that leaves it, first in order as long as all is smooth.
LEMMA LeavesWorks ==
    ASSUME TypeOK, Works, NEW i \in DOMAIN hooks, hooks' = RemoveAt(hooks, i), UNCHANGED claude,
           Smooth' => Smooth /\ i = 1, Smooth' /\ Busy' => hooks[1].name = "UserPromptSubmit"
    PROVE  Works'
<1>1. /\ DOMAIN hooks = 1..Len(hooks) /\ Len(hooks) \in Nat /\ 1 \in DOMAIN hooks
      /\ Len(hooks') = Len(hooks) - 1 /\ DOMAIN hooks' = 1..(Len(hooks) - 1)
      /\ \A k \in DOMAIN hooks' : hooks'[k] = IF k < i THEN hooks[k] ELSE hooks[k + 1]
      /\ (hooks' = <<>> <=> Len(hooks) = 1)
  <2>1. /\ hooks' \in Seq(Hooks) /\ Len(hooks') = Len(hooks) - 1
        /\ DOMAIN hooks' = 1..(Len(hooks) - 1)
        /\ \A k \in DOMAIN hooks' : hooks'[k] = IF k < i THEN hooks[k] ELSE hooks[k + 1]
    BY LeavesQueue
  <2>2. DOMAIN hooks = 1..Len(hooks) /\ Len(hooks) \in Nat /\ i \in 1..Len(hooks)
    BY HookTypes
  <2>3. hooks' = <<>> <=> Len(hooks) = 1
    BY <2>1, <2>2
  <2> QED BY <2>1, <2>2, <2>3
<1>2. ASSUME NEW k \in DOMAIN hooks', hooks'[k].name = "Stop" PROVE hooks'[k].source = None
  <2>1. k \in DOMAIN hooks /\ k + 1 \in DOMAIN hooks
    BY <1>1
  <2> QED BY <1>1, <1>2, <2>1 DEF Works
<1>3. ASSUME i = 1, NEW k \in DOMAIN hooks'
      PROVE  hooks'[k] = hooks[k + 1] /\ k + 1 \in DOMAIN hooks
  BY <1>1, <1>3
<1>4. ASSUME Smooth', NEW k \in DOMAIN hooks', hooks'[k].name = "UserPromptSubmit"
      PROVE  IF k = Len(hooks') THEN claude'.busy ELSE hooks'[k + 1].name = "Stop"
  <2>1. hooks[k + 1].name = "UserPromptSubmit" /\ k + 1 \in DOMAIN hooks
    BY <1>3, <1>4
  <2>2. IF k + 1 = Len(hooks) THEN claude.busy ELSE hooks[(k + 1) + 1].name = "Stop"
    BY <1>4, <2>1 DEF Works, Smooth
  <2>3. CASE k = Len(hooks')
    BY <1>1, <2>2, <2>3
  <2>4. CASE k # Len(hooks')
    <3>1. k + 1 \in DOMAIN hooks' /\ k + 1 # Len(hooks)
      BY <1>1, <2>4
    <3>2. hooks'[k + 1] = hooks[(k + 1) + 1]
      BY <1>3, <1>4, <3>1
    <3> QED BY <2>2, <2>4, <3>1, <3>2
  <2> QED BY <2>3, <2>4
<1>5. ASSUME Smooth', Busy'
      PROVE  IF hooks' = <<>> THEN claude'.busy ELSE hooks'[1].name = "Stop"
  <2>1. IF 1 = Len(hooks) THEN claude.busy ELSE hooks[1 + 1].name = "Stop"
    BY <1>1, <1>5 DEF Works, Smooth
  <2>2. CASE Len(hooks) = 1
    BY <1>1, <2>1, <2>2
  <2>3. CASE Len(hooks) # 1
    <3>1. 1 \in DOMAIN hooks'
      BY <1>1, <2>3
    <3>2. hooks'[1] = hooks[1 + 1]
      BY <1>3, <1>5, <3>1
    <3> QED BY <1>1, <2>1, <2>3, <3>2
  <2> QED BY <2>2, <2>3
<1> QED BY <1>2, <1>4, <1>5 DEF Works, Smooth, Busy

LEMMA StillWorks ==
    ASSUME Works, UNCHANGED hooks, claude'.busy = claude.busy,
           Smooth' => Smooth, Busy' => Busy
    PROVE  Works'
BY DEF Works, Smooth, Busy

LEMMA MishapWorks ==
    ASSUME TypeOK, Works, mishaps' = mishaps + 1,
           hooks' \in {hooks, <<>>} \/ \E i \in DOMAIN hooks : hooks' = RemoveAt(hooks, i)
    PROVE  Works'
<1>1. ~Smooth' /\ (hooks' = <<>> => DOMAIN hooks' = {})
  BY DEF Smooth, TypeOK
<1>2. CASE hooks' \in {hooks, <<>>}
  BY <1>1, <1>2 DEF Works, Smooth
<1>3. ASSUME NEW i \in DOMAIN hooks, hooks' = RemoveAt(hooks, i)
      PROVE  \A k \in DOMAIN hooks' : hooks'[k].name = "Stop" => hooks'[k].source = None
  <2> SUFFICES ASSUME NEW k \in DOMAIN hooks', hooks'[k].name = "Stop" PROVE hooks'[k].source = None
    OBVIOUS
  <2>1. /\ DOMAIN hooks' = 1..(Len(hooks) - 1)
        /\ \A j \in DOMAIN hooks' : hooks'[j] = IF j < i THEN hooks[j] ELSE hooks[j + 1]
    BY <1>3, LeavesQueue
  <2>2. k \in DOMAIN hooks /\ k + 1 \in DOMAIN hooks /\ hooks'[k] \in {hooks[k], hooks[k + 1]}
    BY <2>1, HookTypes
  <2> QED BY <2>2 DEF Works
<1> QED BY <1>1, <1>2, <1>3 DEF Works, Smooth

\* Only a prompt makes a session busy.
LEMMA NotBusy ==
    ASSUME activity' \in {AfterHook("SessionStart"), AfterHook("Stop")} \/ ~activity'.seen
    PROVE  ~Busy'
<1>1. AfterHook("SessionStart").stop = TRUE /\ AfterHook("Stop").stop = TRUE
  BY DEF AfterHook
<1> HIDE DEF AfterHook
<1> QED BY <1>1 DEF Busy

LEMMA ClaudeWorks ==
    ASSUME TypeOK, Written, Works, Claude
    PROVE  Works'
<1>1. UNCHANGED <<activity, overtaken>>
  BY DEF Claude, Startup, Resume, Clear, Compact, Starts, Submit, Reply, FinishEntry, Interrupt, Exit,
         memory, history
<1>2. ASSUME NEW source \in {"startup", "clear", "resume", "compact"}, NEW f \in Files, Starts(source, f),
             ~claude.busy
      PROVE  Works'
  <2>1. Fire("SessionStart", source, None, f) /\ mishaps' = mishaps
    BY <1>2 DEF Starts
  <2> QED BY <1>1, <1>2, <2>1, JoinsWorks DEF Smooth
<1>3. ASSUME NEW f \in Files, Startup(f) \/ Resume(f) \/ Clear(f)
      PROVE  Works'
  <2>1. ~claude.busy
    BY <1>3 DEF Startup, Resume, Clear, Written
  <2> QED BY <1>2, <1>3, <2>1 DEF Startup, Resume, Clear
<1>4. CASE Compact
  BY <1>2, <1>4, OffsetTypes DEF Compact
<1>5. CASE Reply
  <2>1. Fire("Stop", None, None, claude.file) /\ claude.file \in Files /\ mishaps' = mishaps
    BY <1>5, OffsetTypes DEF Reply
  <2> QED BY <1>1, <2>1, JoinsWorks DEF Smooth
<1>6. ASSUME NEW p \in Prompts, NEW whole \in BOOLEAN, Submit(p, whole)
      PROVE  Works'
  <2> DEFINE n == Len(prompts) + 1
             m == IF whole THEN n ELSE None
  <2>1. n \in Ids
    BY <1>6, PromptTypes, SessionCaptureAssumption DEF Submit, Ids
  <2>2. /\ Fire("UserPromptSubmit", None, m, claude.file) /\ claude.file \in Files
        /\ ~claude.busy /\ claude'.busy
    BY <1>6, OffsetTypes DEF Submit, TypeOK
  <2>3. m \in Ids \cup {None}
    BY <2>1
  <2>4. Smooth' => Smooth
    <3>1. mishaps' = mishaps \/ mishaps' = mishaps + 1
      BY <1>6 DEF Submit
    <3>2. mishaps \in Nat
      BY SessionCaptureAssumption DEF TypeOK
    <3> QED BY <1>1, <3>1, <3>2 DEF Smooth
  <2> HIDE DEF m
  <2> QED BY <1>1, <2>2, <2>3, <2>4, JoinsWorks
<1>7. CASE FinishEntry \/ Exit
  <2>1. hooks' = hooks /\ claude'.busy = claude.busy /\ mishaps' = mishaps
    BY <1>7 DEF FinishEntry, Exit, hookVars, TypeOK
  <2> QED BY <1>1, <2>1, StillWorks DEF Smooth, Busy
<1>8. CASE Interrupt
  <2>1. mishaps' = mishaps + 1 /\ hooks' = hooks
    BY <1>8 DEF Interrupt, hookVars
  <2> QED BY <2>1, MishapWorks
<1> QED BY <1>3, <1>4, <1>5, <1>6, <1>7, <1>8 DEF Claude

LEMMA TakenWorks ==
    ASSUME TypeOK, Works, NEW i \in DOMAIN hooks,
           BeginClear(i) \/ Resumed(i) \/ CapturePrompt(i) \/ CaptureTranscript(i)
    PROVE  Works'
<1>1. /\ hooks' = RemoveAt(hooks, i) /\ UNCHANGED <<claude, mishaps>>
      /\ overtaken' = (overtaken \/ i > 1)
  BY DEF BeginClear, Resumed, CapturePrompt, CaptureTranscript, Take, world
<1>2. Smooth' => Smooth /\ i = 1
  <2>1. i \in 1..Len(hooks) /\ Len(hooks) \in Nat
    BY HookTypes
  <2>2. ~overtaken' => ~overtaken /\ ~(i > 1)
    BY <1>1, Zenon
  <2>3. ~(i > 1) => i = 1
    BY <2>1
  <2> QED BY <1>1, <2>2, <2>3 DEF Smooth
<1>3. ASSUME Smooth', Busy' PROVE hooks[1].name = "UserPromptSubmit"
  <2>1. CASE BeginClear(i)
    <3>1. hooks[1].source \in {"startup", "clear"} /\ Busy /\ Smooth
      BY <1>2, <1>3, <2>1 DEF BeginClear, Busy
    <3>2. hooks # <<>> /\ 1 \in DOMAIN hooks
      BY <1>2, <1>3, HookTypes
    <3>3. hooks[1].name = "Stop" /\ hooks[1].source = None
      BY <3>1, <3>2 DEF Works, Smooth, Busy
    <3> QED BY <3>1, <3>3, SessionCaptureAssumption
  <2>2. CASE Resumed(i) \/ CaptureTranscript(i)
    BY <1>3, <2>2, NotBusy DEF Resumed, CaptureTranscript
  <2>3. CASE CapturePrompt(i)
    BY <1>2, <1>3, <2>3 DEF CapturePrompt
  <2> QED BY <2>1, <2>2, <2>3
<1> QED BY <1>1, <1>2, <1>3, LeavesWorks

LEMMA NextWorks ==
    ASSUME TypeOK, Written, Works, [Next]_vars
    PROVE  Works'
<1>1. CASE FinishClear \/ ShimConnected \/ ShimDisconnected \/ UNCHANGED vars
  <2>1. UNCHANGED <<hooks, claude, mishaps, overtaken>>
    BY <1>1 DEF FinishClear, ShimConnected, ShimDisconnected, vars, world, hookVars, history
  <2>2. Busy' => Busy
    <3>1. CASE FinishClear
      BY <3>1, NotBusy DEF FinishClear
    <3>2. CASE ShimDisconnected
      <4>1. ~activity'.seen
        BY <3>2 DEF ShimDisconnected
      <4> QED BY <4>1, NotBusy
    <3>3. CASE ShimConnected \/ UNCHANGED vars
      BY <3>3 DEF ShimConnected, vars, memory, Busy
    <3> QED BY <1>1, <3>1, <3>2, <3>3
  <2> QED BY <2>1, <2>2, StillWorks DEF Smooth
<1>2. CASE Daemon
  BY <1>1, <1>2, TakenWorks DEF Daemon
<1>3. CASE Mishap
  <2>1. /\ mishaps' = mishaps + 1
        /\ hooks' \in {hooks, <<>>} \/ \E i \in DOMAIN hooks : hooks' = RemoveAt(hooks, i)
    BY <1>3 DEF Mishap, Crash, CrashMidway, Restarted, LoseHook
  <2> QED BY <2>1, MishapWorks
<1> QED BY <1>1, <1>2, <1>3, ClaudeWorks DEF Next

-----------------------------------------------------------------------------
(* The theorems                                                            *)

LEMMA InitIInv ==
    ASSUME Init
    PROVE  IInv
<1>1. /\ \A f \in Files : transcript[f] = <<>> /\ Len(transcript[f]) = 0
      /\ ~torn /\ ~claude.busy /\ prompts = <<>> /\ hooks = <<>>
      /\ offset = None /\ inbound = {} /\ eager = None /\ dropped = {} /\ ~activity.seen
  BY DEF Init
<1>2. TypeOK
  <2>1. transcript \in [Files -> Seq(Entries)]
    BY DEF Init
  <2>2. claude \in [on : BOOLEAN, file : Files, busy : BOOLEAN]
    BY DEF Init
  <2>3. prompts = <<>> /\ Len(prompts) = 0 /\ hooks = <<>> /\ starts = 0 /\ mishaps = 0 /\ clears = 0
    BY DEF Init
  <2>4. starts \in 0..MaxStarts /\ mishaps \in 0..MaxMishaps /\ Len(prompts) <= MaxPrompts
    BY <2>3, SessionCaptureAssumption
  <2>5. prompts \in Seq(Prompts) /\ hooks \in Seq(Hooks) /\ clears \in Nat
    BY <2>3
  <2>6. activity \in [seen : BOOLEAN, stop : BOOLEAN]
    BY DEF Init
  <2> QED BY <2>1, <2>2, <2>4, <2>5, <2>6 DEF Init, TypeOK
<1>3. DOMAIN hooks = {} /\ Pending = {} /\ ByHook = {} /\ ByTail = {} /\ Behind = {}
  BY <1>1 DEF Pending, ByHook, ByTail, Behind
<1>4. Written
  BY <1>1 DEF Written
<1>5. Queued /\ Caught /\ RepliesAreStored
  BY <1>1, <1>3 DEF Queued, InOrder, Caught, RepliesAreStored
<1>6. Works
  BY <1>1, <1>3 DEF Works
<1>7. \A t : /\ Saying(Behind \ ByTail, t) = {} /\ Saying(ByHook \ {eager}, t) \subseteq Ids
             /\ Saying(ByHook \ (dropped \cup {eager}), t) = {}
             /\ Passed(t) \ Pending \subseteq Ids
  BY <1>3, <1>2, RowTypes, PromptTypes DEF Saying
<1>8. ReadIsShown
  BY <1>7, Nothing DEF ReadIsShown
<1>9. UsedOnce
  <2> SUFFICES ASSUME NEW t \in Texts
               PROVE  Cardinality(Saying(ByHook \ (dropped \cup {eager}), t)) <= Cardinality(Passed(t) \ Pending)
    BY <1>1 DEF UsedOnce
  <2> QED BY <1>7, Nothing
<1> QED BY <1>2, <1>4, <1>5, <1>6, <1>8, <1>9 DEF IInv

LEMMA NextIInv ==
    ASSUME IInv, [Next]_vars
    PROVE  IInv'
<1>1. TypeOK /\ Written /\ Stores /\ Works
  BY DEF IInv, Stores
<1>2. TypeOK'
  BY <1>1, NextType
<1>3. Written' /\ Stores' /\ Works'
  BY <1>1, <1>2, NextGrows, NextStores, NextWorks
<1> QED BY <1>2, <1>3 DEF IInv, Stores

\* Whatever hooks and transcripts bring, in whatever order, and wherever rederd
\* dies: the rows that they leave, the cached prompt and the offset agree with what
\* claude has written, and the queue of hooks with what the dashboard shows.
THEOREM Inductive == Spec => []IInv
<1>1. Init => IInv
  BY InitIInv
<1>2. IInv /\ [Next]_vars => IInv'
  BY NextIInv
<1> QED BY <1>1, <1>2, PTL DEF Spec

\* The variables keep their types: the queue holds hooks of this session's files, the
\* offset is one of a file, and rows are of prompts that were submitted.
THEOREM TypeCorrect == Spec => []TypeOK
<1>1. IInv => TypeOK
  BY DEF IInv
<1> QED BY <1>1, Inductive, PTL

\* The rows that say a text are those of prompts that say it, by hook and by tail.
LEMMA RowCounts ==
    ASSUME NEW keys \in SUBSET Keys, NEW A \in SUBSET Ids
    PROVE  LET byHook == {n \in A : <<"ups", n>> \in keys}
               byTail == {n \in A : <<"uuid", n>> \in keys} IN
           Cardinality({k \in keys : k[2] \in A}) = Cardinality(byHook) + Cardinality(byTail)
<1> DEFINE byHook == {n \in A : <<"ups", n>> \in keys}
           byTail == {n \in A : <<"uuid", n>> \in keys}
           H == {"ups"} \X byHook
           T == {"uuid"} \X byTail
<1>1. {k \in keys : k[2] \in A} = H \cup T
  <2>1. \A k \in keys : k = <<k[1], k[2]>> /\ k[1] \in {"ups", "uuid"}
    BY DEF Keys
  <2> QED BY <2>1
<1>2. byHook \in SUBSET Ids /\ byTail \in SUBSET Ids
  OBVIOUS
<1>3. H \cap T = {}
  OBVIOUS
<1> HIDE DEF byHook, byTail
<1>4. /\ IsFiniteSet(H) /\ Cardinality(H) = Cardinality(byHook) /\ Cardinality(byHook) \in Nat
      /\ IsFiniteSet(T) /\ Cardinality(T) = Cardinality(byTail) /\ Cardinality(byTail) \in Nat
  BY <1>2, Keyed, Sizes
<1> HIDE DEF H, T
<1>5. Cardinality(H \cup T) = Cardinality(H) + Cardinality(T) - Cardinality(H \cap T)
  BY <1>4, FS_Union
<1>6. Cardinality(H \cap T) = 0
  BY <1>3, FS_EmptySet
<1>7. Cardinality(H \cup T) = Cardinality(byHook) + Cardinality(byTail)
  BY <1>4, <1>5, <1>6
<1> QED BY <1>1, <1>7 DEF byHook, byTail

LEMMA ShownOnce ==
    ASSUME IInv
    PROVE  PromptsAreShownOnce
<1> SUFFICES ASSUME steady, ~overtaken, NEW t \in Texts
             PROVE  Cardinality(Rows(inbound, t)) <=
                      Cardinality(Saying(DOMAIN prompts, t)) + Cardinality(Saying(dropped, t))
  BY DEF PromptsAreShownOnce
<1> DEFINE hook == Saying(ByHook, t)
           tail == Saying(ByTail, t)
           kept == Saying(ByHook \ dropped, t)
           old == Saying(ByHook \ (dropped \cup {eager}), t)
           own == Saying(Local, t)
<1>1. TypeOK /\ Caught /\ UsedOnce
  BY DEF IInv
<1>2. /\ Local \subseteq Ids /\ None \notin Ids /\ Local \subseteq DOMAIN prompts /\ DOMAIN prompts \subseteq Ids
      /\ ByHook \subseteq Local /\ ByTail \subseteq Local /\ dropped \subseteq Local
      /\ (eager # None => eager \in ByHook) /\ ByTail \cap Ahead = {}
  BY <1>1, PromptTypes DEF Caught
<1>3. /\ hook \subseteq Ids /\ tail \subseteq Ids /\ kept \subseteq Ids /\ old \subseteq Ids /\ own \subseteq Ids
      /\ Passed(t) \subseteq own /\ tail \subseteq own /\ Passed(t) \cap tail = {} /\ Passed(t) \subseteq Ids
      /\ hook \subseteq kept \cup Saying(dropped, t) /\ Saying(dropped, t) \subseteq Ids
      /\ kept \subseteq old \cup {eager}
      /\ own \subseteq Saying(DOMAIN prompts, t) /\ Saying(DOMAIN prompts, t) \subseteq Ids
  BY <1>2 DEF Saying, Passed
<1>4. /\ Cardinality(hook) \in Nat /\ Cardinality(tail) \in Nat /\ Cardinality(kept) \in Nat
      /\ Cardinality(old) \in Nat /\ Cardinality(own) \in Nat /\ Cardinality(Passed(t)) \in Nat
      /\ Cardinality(Saying(dropped, t)) \in Nat /\ Cardinality(Saying(DOMAIN prompts, t)) \in Nat
      /\ Cardinality(Passed(t) \ Pending) \in Nat
  BY <1>3, Sizes
<1>5. Cardinality(Rows(inbound, t)) = Cardinality(hook) + Cardinality(tail)
  <2> DEFINE A == {n \in Ids : prompts[n].text = t}
  <2>1. inbound \in SUBSET Keys /\ A \in SUBSET Ids
    BY <1>1 DEF TypeOK
  <2>2. Rows(inbound, t) = {k \in inbound : k[2] \in A}
    BY <2>1 DEF Rows, Keys
  <2>3. hook = {n \in A : <<"ups", n>> \in inbound} /\ tail = {n \in A : <<"uuid", n>> \in inbound}
    BY DEF Saying, ByHook, ByTail
  <2> HIDE DEF A
  <2> QED BY <2>1, <2>2, <2>3, RowCounts
<1>6. /\ Cardinality(hook) <= Cardinality(kept) + Cardinality(Saying(dropped, t))
      /\ Cardinality(own) <= Cardinality(Saying(DOMAIN prompts, t))
      /\ Cardinality(Passed(t) \ Pending) <= Cardinality(Passed(t))
  <2>1. Cardinality(hook) <= Cardinality(kept) + Cardinality(Saying(dropped, t))
    BY <1>3, Split
  <2>2. Cardinality(own) <= Cardinality(Saying(DOMAIN prompts, t))
    BY <1>3, Smaller
  <2>3. Cardinality(Passed(t) \ Pending) <= Cardinality(Passed(t))
    BY <1>3, Smaller
  <2> QED BY <2>1, <2>2, <2>3
<1>7. /\ Cardinality(old) <= Cardinality(Passed(t) \ Pending)
      /\ eager # None /\ eager \notin dropped /\ eager \notin Ahead =>
           Cardinality(kept) <= Cardinality(Passed(t) \ Pending)
  BY <1>1 DEF UsedOnce
<1>8. Cardinality(kept) + Cardinality(tail) <= Cardinality(own)
  <2>1. CASE Cardinality(kept) <= Cardinality(Passed(t) \ Pending)
    <3>1. Cardinality(Passed(t)) + Cardinality(tail) <= Cardinality(own)
      BY <1>3, Disjoint
    <3> HIDE DEF kept, tail, own
    <3> QED BY <1>4, <1>6, <2>1, <3>1
  <2>2. CASE eager = None \/ eager \in dropped \/ prompts[eager].text # t
    <3>1. kept = old
      BY <1>2, <2>2 DEF Saying
    <3> QED BY <1>7, <2>1, <3>1
  <2>3. CASE eager # None /\ eager \notin dropped /\ eager \in Ahead /\ prompts[eager].text = t
    <3> DEFINE rest == own \ {eager}
    <3>1. /\ rest \subseteq own /\ eager \in own \ rest
          /\ Passed(t) \subseteq rest /\ tail \subseteq rest
      BY <1>2, <1>3, <2>3 DEF Passed, Saying
    <3> HIDE DEF rest
    <3>2. Cardinality(rest) + 1 <= Cardinality(own)
      BY <1>3, <3>1, OneLess
    <3>3. Cardinality(Passed(t)) + Cardinality(tail) <= Cardinality(rest)
      BY <1>3, <3>1, Disjoint
    <3>4. Cardinality(kept) <= Cardinality(old) + 1
      BY <1>3, OneMore
    <3>5. Cardinality(rest) \in Nat
      BY <1>3, <3>1, Sizes
    <3> HIDE DEF kept, old, tail, own
    <3> QED BY <1>4, <1>6, <1>7, <3>2, <3>3, <3>4, <3>5
  <2> QED BY <1>7, <2>1, <2>2, <2>3
<1> HIDE DEF hook, tail, kept, old, own
<1> QED BY <1>4, <1>5, <1>6, <1>8

\* A prompt that its hook reports and the transcript has as well is shown once.
\* handleUserPromptSubmit inserts it under one key and caches it, and captureTranscript
\* takes the entry that says the same for it, once: of each text there are no more
\* rows than prompts, but for those whose place in the cache was taken or lost.
THEOREM PromptsShownOnce == Spec => []PromptsAreShownOnce
<1>1. IInv => PromptsAreShownOnce
  BY ShownOnce
<1> QED BY <1>1, Inductive, PTL

\* Once the hooks of a session have arrived, in order and all of them, it is shown as
\* working only while claude works: a Stop follows every UserPromptSubmit, and
\* neither a clear nor a reconnect makes a session busy.
THEOREM WorkingWorks == Spec => []WorkingIsWorking
<1>1. ASSUME IInv PROVE WorkingIsWorking
  <2> SUFFICES ASSUME Shown = "working", hooks = <<>>, mishaps = 0, ~overtaken
               PROVE  claude.busy
    BY DEF WorkingIsWorking
  <2>1. activity.seen /\ ~activity.stop
    BY DEF Shown
  <2>2. Works
    BY <1>1 DEF IInv
  <2> QED BY <2>1, <2>2 DEF Works
<1>2. IInv => WorkingIsWorking
  BY <1>1
<1> QED BY <1>2, Inductive, PTL

\* captureTranscript inserts the replies behind the offset that were written in full, and
\* those before it are stored already, but for what was skipped: replies that a crash
\* caught between the offset and their rows, and those before another file's offset.
\* After a Stop no other reply of its transcript is without a row, whatever the order
\* of the hooks, the crashes and the changes of file.
THEOREM OnlySkippedMissing == Spec => OnlySkippedAreMissing
<1>1. ASSUME IInv, NEW i \in DOMAIN hooks, CaptureTranscript(i),
             NEW n \in LocalIn(hooks[i].file, "assistant")
      PROVE  n \in outbound' \cup skipped'
  <2> DEFINE f == hooks[i].file
  <2>1. PICK k \in 1..Complete(f) : transcript[f][k] = <<"assistant", n>>
    BY DEF LocalIn
  <2>2. TypeOK /\ Written /\ RepliesAreStored /\ f \in Files
    BY <1>1, HookTypes DEF IInv
  <2>3. /\ outbound' = outbound \cup Unread(f, "assistant", Complete(f))
        /\ skipped' = skipped \cup Foreign(f)
    BY <1>1 DEF CaptureTranscript, Capture, InsertReplies
  <2> HIDE DEF f
  <2> QED BY <2>1, <2>2, <2>3, EveryReply
<1>2. IInv /\ [Next]_vars =>
        [\A i \in DOMAIN hooks :
           CaptureTranscript(i) =>
             \A n \in LocalIn(hooks[i].file, "assistant") : n \in outbound' \cup skipped']_vars
  BY <1>1
<1> QED BY <1>2, Inductive, PTL DEF Spec, OnlySkippedAreMissing

\* It inserts the prompts behind the offset too, all but one that is taken for the
\* cached prompt: after a Stop a text has as many rows as the transcript has
\* prompts that say it, so no prompt is lost for another that its hook brought.
THEOREM PromptsCaptured == Spec => PromptsAreCaptured
<1>1. ASSUME IInv, IInv', NEW i \in DOMAIN hooks, CaptureTranscript(i), steady', NEW t \in Texts
      PROVE  Cardinality(Saying(LocalIn(hooks[i].file, "user"), t)) <= Cardinality(Rows(inbound', t))
  <2> DEFINE f == hooks[i].file
             read == Saying(LocalIn(f, "user"), t)
             A == {n \in Ids : prompts[n].text = t}
             hook == {n \in A : <<"ups", n>> \in inbound'}
             tail == {n \in A : <<"uuid", n>> \in inbound'}
             shown == Saying(Behind \ ByTail, t)'
             used == Saying(ByHook \ {eager}, t)'
  <2>1. /\ TypeOK /\ Written /\ Caught /\ f \in Files
        /\ UNCHANGED <<world, prompts>> /\ Consume(f) /\ steady /\ (offset = None \/ offset.file = f)
    BY <1>1, HookTypes DEF IInv, CaptureTranscript, Consume, Take, world
  <2>2. Between(f, 1, Complete(f)) \subseteq Behind'
    BY <2>1, ReadSets
  <2>3. LocalIn(f, "user") = Between(f, 1, Complete(f))
    <3>1. \A n : IsLocal(<<"user", n>>) <=> ~prompts[n].relayed
      BY DEF IsLocal
    <3> QED BY <3>1 DEF LocalIn, Between, Local
  <2>4. LocalIn(f, "user") \subseteq Ids
    BY <2>1, PromptTypes DEF LocalIn
  <2>5. inbound' \in SUBSET Keys /\ A \in SUBSET Ids
    BY <1>1 DEF IInv, TypeOK
  <2>6. /\ read \subseteq shown \cup tail /\ used \subseteq hook
        /\ read \subseteq Ids /\ shown \subseteq Ids /\ used \subseteq Ids
    <3>1. /\ shown = {n \in Behind' : n \notin ByTail' /\ prompts[n].text = t}
          /\ used = {n \in ByHook' : n # eager' /\ prompts[n].text = t}
          /\ ByHook' = {n \in Ids : <<"ups", n>> \in inbound'}
          /\ ByTail' = {n \in Ids : <<"uuid", n>> \in inbound'}
      BY <2>1 DEF Saying, ByHook, ByTail
    <3>2. read = {n \in LocalIn(f, "user") : prompts[n].text = t}
      BY DEF Saying
    <3>3. Behind' \subseteq Ids
      <4>1. Behind' \subseteq Local' /\ Local' = Local
        BY <2>1 DEF Behind, Between, Local
      <4> QED BY <2>1, <4>1, PromptTypes
    <3> HIDE DEF shown, used, read, f
    <3> QED BY <2>2, <2>3, <2>4, <3>1, <3>2, <3>3
  <2>7. Cardinality(shown) <= Cardinality(used)
    BY <1>1 DEF IInv, ReadIsShown
  <2>8. Rows(inbound', t) = {k \in inbound' : k[2] \in A}
    BY <2>5 DEF Rows, Keys
  <2> HIDE DEF A, read, shown, used
  <2>9. Cardinality(Rows(inbound', t)) = Cardinality(hook) + Cardinality(tail)
    BY <2>5, <2>8, RowCounts
  <2>10. hook \subseteq Ids /\ tail \subseteq Ids
    BY <2>5
  <2> HIDE DEF hook, tail
  <2>11. Cardinality(read) <= Cardinality(shown) + Cardinality(tail)
    BY <2>6, <2>10, Split
  <2>12. Cardinality(used) <= Cardinality(hook)
    BY <2>6, <2>10, Smaller
  <2>13. /\ Cardinality(read) \in Nat /\ Cardinality(shown) \in Nat /\ Cardinality(used) \in Nat
         /\ Cardinality(hook) \in Nat /\ Cardinality(tail) \in Nat
    BY <2>6, <2>10, Sizes
  <2>14. Cardinality(read) <= Cardinality(Rows(inbound', t))
    BY <2>7, <2>9, <2>11, <2>12, <2>13
  <2> QED BY <2>14 DEF read, f
<1>2. IInv /\ IInv' /\ [Next]_vars =>
        [\A i \in DOMAIN hooks :
           CaptureTranscript(i) /\ steady' =>
             \A t \in Texts :
               Cardinality(Saying(LocalIn(hooks[i].file, "user"), t)) <= Cardinality(Rows(inbound', t))]_vars
  BY <1>1
<1> QED BY <1>2, Inductive, PTL DEF Spec, PromptsAreCaptured
=============================================================================
