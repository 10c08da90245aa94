--------------------------- MODULE SessionsProofs ---------------------------
(***************************************************************************)
(* What holds of agent sessions and their lifecycle calls for every number *)
(* of sessions, keys, methods and messages: a repeated call publishes once *)
(* and is answered alike, no update of the intent is lost under another,   *)
(* no session that is heard is mistaken for another one, and a transcript  *)
(* that fits the window is shared once.                                    *)
(***************************************************************************)
EXTENDS Sessions, FiniteSetTheorems, TLAPS

Request(s) == <<calls[s].method, calls[s].key>>

\* The shape of the state.  A call that is not over names a request.
CallRecords == [pc : {"idle", "resolve", "publish", "reply"}, method : Methods \cup {NoOne},
                key : Keys \cup {NoOne}, text : Texts \cup {NoOne}, base : Nat, answer : Int]
Hashes == (Identities \cup {NoOne}) \X (Texts \cup {NoOne})
KeyRecords == [hash : Hashes, base : Nat, rev : Nat]
HookRecords == [first : Nat, last : Nat, at : Nat]

CallsTyped ==
  /\ calls \in [Sessions -> CallRecords]
  /\ \A s \in Sessions : calls[s].pc # "idle" => Request(s) \in Requests /\ calls[s].text \in Texts

StoreTyped ==
  /\ stored \in [Requests -> KeyRecords] /\ intentRevision \in Nat
  /\ committed \in [Requests -> 0..2]
  /\ \A x \in rows : x[1] \in Requests /\ x[2] \in Kinds(x[1][1])

EvidenceTyped ==
  /\ sessions \in [Codex -> 0..Live + 1] /\ threads \in [Codex -> 0..Live + 1]
  /\ identity \in [Sessions -> Sessions \cup {NoOne}]
  /\ \A s \in Background : sessions[s] > Live

\* A hook shares the last messages of what its transcript held when it was read.
HooksTyped ==
  /\ said \in [Sessions -> Nat] /\ hooks \in [Sessions -> HookRecords]
  /\ \A s \in Sessions : hooks[s] # NoHook =>
       /\ hooks[s].first = FirstRead(hooks[s].last)
       /\ hooks[s].first <= hooks[s].at /\ hooks[s].at <= hooks[s].last
       /\ hooks[s].last <= said[s]

Typed == CallsTyped /\ StoreTyped /\ EvidenceTyped /\ HooksTyped /\ events \in 0..MaxEvents

\* The calls still to be answered, each of which was paid for with an event, as
\* was every revision of the intent.
Busy == {s \in Sessions : calls[s].pc \in {"resolve", "publish"}}
Paid == intentRevision + Cardinality(Busy) <= events

\* A request is stored once, never for a method that publishes nothing, and a call
\* that was answered with a revision was answered with the stored one.
Answered ==
  /\ \A r \in Requests : Kinds(r[1]) = {} => stored[r] = NoKey
  /\ \A r \in Requests : committed[r] = (IF stored[r] = NoKey THEN 0 ELSE 1)
  /\ \A s \in Sessions : calls[s].pc = "reply" /\ calls[s].answer >= 0 =>
       \/ Kinds(calls[s].method) = {} /\ calls[s].answer = 0
       \/ Known(Request(s)) /\ stored[Request(s)].rev = calls[s].answer

\* No revision that was answered is ahead of the current one.
Ordered == (\A r \in Requests : stored[r].rev <= intentRevision) /\ NoLostUpdate

\* Every message shared of a transcript that still fits the window bears the
\* identity of its place in the transcript.
InPlace ==
  \A x \in queued :
    /\ x \in Sessions \X (Int \X Nat) \X Nat
    /\ said[x[1]] <= Window => x[2] = <<x[3], x[3]>>

-----------------------------------------------------------------------------

\* The initial state has its shape.
LEMMA InitTyped == Init => Typed
BY SessionsAssumption DEF Init, Typed, CallsTyped, StoreTyped, EvidenceTyped, HooksTyped, NoCall,
   NoKey, NoHook, CallRecords, KeyRecords, Hashes, HookRecords, Codex, Requests

\* The hash of a call is never that of a free key, so that a request that is
\* stored is known.
LEMMA HashType ==
  ASSUME Typed, NEW s \in Sessions, calls[s].pc # "idle"
  PROVE  RequestHash(s) \in Hashes /\ RequestHash(s) # NoKey.hash
<1>1. calls[s].text \in Texts /\ calls[s].text # NoOne
  BY SessionsAssumption DEF Typed, CallsTyped, NoOne
<1>2. WorkstreamOf(s) \in Identities
  BY SessionsAssumption DEF Typed, EvidenceTyped, WorkstreamOf, Identities, NoOne
<1> QED
  BY <1>1, <1>2 DEF RequestHash, Hashes, NoKey

\* What PublishLifecycle answers, case by case.
LEMMA AnswerType ==
  ASSUME Typed, NEW s \in Sessions, calls[s].pc # "idle"
  PROVE  LET a == Answer(s)
             r == Request(s)
         IN /\ a.rev \in Int
            /\ a.kind = "new" =>
                 /\ ~Known(r) /\ Kinds(r[1]) # {}
                 /\ r[1] = "update_intent" => calls[s].base = intentRevision
                 /\ a.rev = intentRevision + (IF Increments(r[1]) THEN 1 ELSE 0)
            /\ a.kind # "new" /\ a.rev >= 0 =>
                 \/ Kinds(r[1]) = {} /\ a.rev = 0
                 \/ Known(r) /\ stored[r].rev = a.rev
<1> DEFINE r == Request(s)
           c == calls[s]
<1>1. r \in Requests /\ r = <<c.method, c.key>> /\ r[1] = c.method
  BY DEF Typed, CallsTyped, Request
<1>2. stored[r].rev \in Nat /\ intentRevision \in Nat
  BY <1>1 DEF Typed, StoreTyped, KeyRecords
<1>3. CASE Kinds(c.method) = {}
  <2>1. Answer(s) = [kind |-> "brief", rev |-> 0]
    BY <1>3 DEF Answer
  <2> QED
    BY <2>1, <1>1, <1>3
<1>4. CASE Kinds(c.method) # {} /\ Known(r)
  <2>1. \/ Answer(s) = [kind |-> "duplicate", rev |-> stored[r].rev]
        \/ Answer(s) = [kind |-> "error", rev |-> -1]
    BY <1>4 DEF Answer, Request
  <2> QED
    BY <2>1, <1>1, <1>2, <1>4
<1>5. CASE Kinds(c.method) # {} /\ ~Known(r)
  <2>1. \/ Answer(s) = [kind |-> "error", rev |-> -1]
        \/ /\ Answer(s) = [kind |-> "new", rev |-> intentRevision + (IF Increments(c.method) THEN 1 ELSE 0)]
           /\ c.method = "update_intent" => c.base = intentRevision
    BY <1>5 DEF Answer, Request
  <2> QED
    BY <2>1, <1>1, <1>2, <1>5
<1> QED
  BY <1>3, <1>4, <1>5

\* Every step keeps the shape of the state.
LEMMA TypedStep == Typed /\ [Next]_vars => Typed'
<1> SUFFICES ASSUME Typed, [Next]_vars PROVE Typed'
  OBVIOUS
<1> USE SessionsAssumption
<1>1. ASSUME NEW s \in Sessions, Say(s) PROVE Typed'
  <2>1. EvidenceTyped'
    BY <1>1 DEF Typed, EvidenceTyped, Say, callVars, Codex
  <2>2. HooksTyped'
    BY <1>1 DEF Typed, HooksTyped, Say, HookRecords
  <2> QED
    BY <1>1, <2>1, <2>2 DEF Typed, CallsTyped, StoreTyped, Say, Event, callVars, storeVars, Request
<1>2. ASSUME NEW s \in Sessions, NEW event \in HookEvents, AgentEvent(s, event) PROVE Typed'
  <2>1. EvidenceTyped'
    BY <1>2 DEF Typed, EvidenceTyped, AgentEvent, RecordAgentSession, callVars, Codex
  <2>2. HooksTyped'
    BY <1>2 DEF Typed, HooksTyped, AgentEvent, HookRecords, FirstRead, NoHook
  <2> QED
    BY <1>2, <2>1, <2>2 DEF Typed, CallsTyped, StoreTyped, AgentEvent, Event, callVars, storeVars, Request
<1>3. ASSUME NEW s \in Sessions, ShareMessage(s) PROVE Typed'
  <2>1. HooksTyped'
    BY <1>3 DEF Typed, HooksTyped, ShareMessage, HookRecords, NoHook
  <2> QED
    BY <1>3, <2>1 DEF Typed, CallsTyped, StoreTyped, EvidenceTyped, ShareMessage, Event, callVars, storeVars, Request
<1>4. ASSUME NEW s \in Sessions, Resolve(s) PROVE Typed'
  <2>1. EvidenceTyped'
    <3>1. PICK i \in IF identity[s] # NoOne THEN {identity[s]} ELSE IF s \in Claude THEN {s} ELSE Resolved :
            identity' = [identity EXCEPT ![s] = i]
      BY <1>4 DEF Resolve
    <3>2. i \in Sessions \cup {NoOne}
      <4>1. Resolved \subseteq Sessions \cup {NoOne}
        BY DEF Resolved, ActiveAgentSessions, LiveThreads, Codex
      <4> QED
        BY <3>1, <4>1 DEF Typed, EvidenceTyped
    <3> QED
      BY <1>4, <3>1, <3>2 DEF Typed, EvidenceTyped, Resolve
  <2>2. CallsTyped'
    BY <1>4 DEF Typed, CallsTyped, Resolve, CallRecords, Request
  <2> QED
    BY <1>4, <2>1, <2>2 DEF Typed, StoreTyped, HooksTyped, Resolve, storeVars, hookVars
<1>5. ASSUME NEW s \in Sessions, Unresolved(s) \/ Retry(s) \/ Refuse(s) \/ Reply(s) PROVE Typed'
  <2>1. CallsTyped'
    BY <1>5 DEF Typed, CallsTyped, Unresolved, Retry, Refuse, Reply, NoCall, CallRecords, Request
  <2>2. events' \in 0..MaxEvents
    BY <1>5 DEF Typed, Unresolved, Retry, Refuse, Reply, Event
  <2> QED
    BY <1>5, <2>1, <2>2 DEF Typed, StoreTyped, HooksTyped, EvidenceTyped, Unresolved, Retry, Refuse, Reply,
       storeVars, hookVars
<1>6. ASSUME NEW s \in Sessions, NEW m \in Methods, NEW k \in Keys, NEW text \in Texts,
             NEW base \in IF m = "update_intent" THEN 1..intentRevision ELSE {0}, CallTool(s, m, k, text, base)
      PROVE  Typed'
  <2>1. base \in Nat
    BY DEF Typed, StoreTyped
  <2>2. CallsTyped'
    BY <1>6, <2>1 DEF Typed, CallsTyped, CallTool, CallRecords, Request, Requests
  <2> QED
    BY <1>6, <2>2 DEF Typed, StoreTyped, HooksTyped, EvidenceTyped, CallTool, Event, storeVars, hookVars
<1>7. ASSUME NEW s \in Sessions, PublishLifecycle(s) PROVE Typed'
  <2> DEFINE r == Request(s)
             a == Answer(s)
  <2>1. /\ calls[s].pc # "idle" /\ r \in Requests /\ r[1] = calls[s].method
        /\ r = <<calls[s].method, calls[s].key>> /\ calls[s].base \in Nat
    BY <1>7 DEF PublishLifecycle, Typed, CallsTyped, Request, CallRecords
  <2>2. a.rev \in Int /\ (a.kind = "new" => a.rev \in Nat)
    BY <2>1, AnswerType DEF Typed, StoreTyped
  <2>3. CallsTyped'
    <3>1. calls' = [calls EXCEPT ![s] = [calls[s] EXCEPT !.pc = "reply", !.answer = a.rev]]
      BY <1>7 DEF PublishLifecycle, Typed, CallsTyped
    <3>2. PICK n \in Int : calls' = [calls EXCEPT ![s] = [calls[s] EXCEPT !.pc = "reply", !.answer = n]]
      BY <2>2, <3>1
    <3>3. [calls[s] EXCEPT !.pc = "reply", !.answer = n] \in CallRecords
      BY DEF Typed, CallsTyped, CallRecords
    <3>4. calls' \in [Sessions -> CallRecords]
      BY <3>2, <3>3 DEF Typed, CallsTyped
    <3>5. \A t \in Sessions : /\ calls'[t].method = calls[t].method /\ calls'[t].key = calls[t].key
                             /\ calls'[t].text = calls[t].text
      BY <3>2 DEF Typed, CallsTyped, CallRecords
    <3>6. \A t \in Sessions : t # s => calls'[t] = calls[t]
      BY <3>2 DEF Typed, CallsTyped
    <3> QED
      BY <2>1, <3>4, <3>5, <3>6 DEF Typed, CallsTyped, Request
  <2>4. CASE a.kind = "new"
    <3>1. RequestHash(s) \in Hashes
      BY <2>1, HashType
    <3>2. /\ stored' = [stored EXCEPT ![r] = [hash |-> RequestHash(s), base |-> calls[s].base, rev |-> a.rev]]
          /\ intentRevision' = a.rev
          /\ rows' = rows \cup ({r} \X Kinds(r[1]))
          /\ committed' = [committed EXCEPT ![r] = IF @ < 2 THEN @ + 1 ELSE @]
      BY <1>7, <2>1, <2>4 DEF PublishLifecycle
    <3>3. StoreTyped'
      <4>1. stored' \in [Requests -> KeyRecords] /\ intentRevision' \in Nat
        BY <2>1, <2>2, <2>4, <3>1, <3>2 DEF Typed, StoreTyped, KeyRecords
      <4>2. committed' \in [Requests -> 0..2]
        BY <2>1, <3>2 DEF Typed, StoreTyped
      <4>3. \A x \in rows' : x[1] \in Requests /\ x[2] \in Kinds(x[1][1])
        <5> SUFFICES ASSUME NEW x \in rows' PROVE x[1] \in Requests /\ x[2] \in Kinds(x[1][1])
          OBVIOUS
        <5>1. CASE x \in rows
          BY <5>1 DEF Typed, StoreTyped
        <5>2. CASE x \in {r} \X Kinds(r[1])
          BY <5>2, <2>1
        <5> QED
          BY <3>2, <5>1, <5>2
      <4> QED
        BY <4>1, <4>2, <4>3 DEF StoreTyped
    <3> QED
      BY <1>7, <2>3, <3>3 DEF PublishLifecycle, Typed, EvidenceTyped, HooksTyped, hookVars
  <2>5. CASE a.kind # "new"
    BY <1>7, <2>3, <2>5 DEF PublishLifecycle, Typed, StoreTyped, EvidenceTyped, HooksTyped, hookVars, storeVars
  <2> QED
    BY <2>4, <2>5
<1>8. ASSUME \/ \E row \in rows : Prune(row)
             \/ RebindWorkspace
      PROVE  Typed'
  BY <1>8 DEF Typed, CallsTyped, StoreTyped, HooksTyped, EvidenceTyped, Prune, RebindWorkspace, Event,
     callVars, hookVars, Request
<1>9. ASSUME Crash PROVE Typed'
  <2>1. CallsTyped'
    BY <1>9 DEF Typed, CallsTyped, Crash, NoCall, CallRecords, Request
  <2>2. HooksTyped'
    BY <1>9 DEF Typed, HooksTyped, Crash, HookRecords, NoHook
  <2> QED
    BY <1>9, <2>1, <2>2 DEF Typed, StoreTyped, EvidenceTyped, Crash, Event, storeVars
<1>10. ASSUME Tick PROVE Typed'
  <2>1. EvidenceTyped'
    BY <1>10 DEF Typed, EvidenceTyped, Tick, Older, callVars, Codex
  <2> QED
    BY <1>10, <2>1 DEF Typed, CallsTyped, StoreTyped, HooksTyped, Tick, callVars, storeVars, hookVars, Request
<1>11. ASSUME UNCHANGED vars PROVE Typed'
  BY <1>11 DEF vars, Typed, CallsTyped, StoreTyped, HooksTyped, EvidenceTyped, Request
<1> QED
  BY <1>1, <1>2, <1>3, <1>4, <1>5, <1>6, <1>7, <1>8, <1>9, <1>10, <1>11 DEF Next

-----------------------------------------------------------------------------
\* Lifecycle calls.

\* Only PublishLifecycle writes a key or the revision, and only it gives an answer
\* that is not an error.
LEMMA StoreStep ==
  ASSUME Typed, [Next]_vars, ~\E s \in Sessions : PublishLifecycle(s)
  PROVE  /\ UNCHANGED <<stored, intentRevision, committed>>
         /\ \A s \in Sessions :
              calls'[s] = calls[s] \/ calls'[s].pc # "reply" \/ calls'[s].answer = -1
<1>1. ASSUME NEW s \in Sessions, Say(s) \/ ShareMessage(s) \/ (\E event \in HookEvents : AgentEvent(s, event))
      PROVE  UNCHANGED <<stored, intentRevision, committed, calls>>
  BY <1>1 DEF Say, ShareMessage, AgentEvent, storeVars, callVars
<1>2. ASSUME NEW s \in Sessions,
             \/ Resolve(s) \/ Unresolved(s) \/ Refuse(s) \/ Reply(s) \/ Retry(s)
             \/ \E m \in Methods, k \in Keys, text \in Texts :
                  \E base \in IF m = "update_intent" THEN 1..intentRevision ELSE {0} :
                  CallTool(s, m, k, text, base)
      PROVE  /\ UNCHANGED <<stored, intentRevision, committed>>
             /\ \A t \in Sessions : calls'[t] = calls[t] \/ calls'[t].pc # "reply" \/ calls'[t].answer = -1
  <2>1. UNCHANGED <<stored, intentRevision, committed>>
    BY <1>2 DEF Resolve, Unresolved, Refuse, Reply, Retry, CallTool, storeVars
  <2>2. \A t \in Sessions : t # s => calls'[t] = calls[t]
    BY <1>2 DEF Typed, CallsTyped, Resolve, Unresolved, Refuse, Reply, Retry, CallTool
  <2>3. calls'[s].pc # "reply" \/ calls'[s].answer = -1
    BY <1>2 DEF Typed, CallsTyped, CallRecords, Resolve, Unresolved, Refuse, Reply, Retry, CallTool, NoCall
  <2> QED
    BY <2>1, <2>2, <2>3
<1>3. ASSUME (\E row \in rows : Prune(row)) \/ RebindWorkspace \/ Tick \/ UNCHANGED vars
      PROVE  UNCHANGED <<stored, intentRevision, committed, calls>>
  BY <1>3 DEF Prune, RebindWorkspace, Tick, vars, storeVars, callVars
<1>4. ASSUME Crash
      PROVE  /\ UNCHANGED <<stored, intentRevision, committed>>
             /\ \A t \in Sessions : calls'[t] = calls[t] \/ calls'[t].pc # "reply"
  BY <1>4 DEF Crash, storeVars, NoCall
<1> QED
  BY <1>1, <1>2, <1>3, <1>4 DEF Next

\* PublishLifecycle stores a request that was unknown; or it stores nothing, and
\* answers with an error or as it answered before.
Stores(s) ==
  LET r == Request(s)
  IN /\ ~Known(r) /\ Kinds(r[1]) # {}
     /\ r[1] = "update_intent" => calls[s].base = intentRevision
     /\ intentRevision' = intentRevision + (IF Increments(r[1]) THEN 1 ELSE 0)
     /\ Answer(s).rev = intentRevision'
     /\ stored' = [stored EXCEPT ![r] =
                    [hash |-> RequestHash(s), base |-> calls[s].base, rev |-> intentRevision']]
     /\ committed' = [committed EXCEPT ![r] = IF @ < 2 THEN @ + 1 ELSE @]
     /\ stored'[r] # NoKey

Repeats(s) ==
  LET r == Request(s)
  IN /\ UNCHANGED <<stored, intentRevision, committed>>
     /\ Answer(s).rev >= 0 => \/ Kinds(r[1]) = {} /\ Answer(s).rev = 0
                              \/ Known(r) /\ stored[r].rev = Answer(s).rev

\* What PublishLifecycle does to the store and to its call.
LEMMA Published ==
  ASSUME Typed, NEW s \in Sessions, PublishLifecycle(s)
  PROVE  /\ calls[s].pc = "publish" /\ Request(s) \in Requests /\ Request(s)[1] = calls[s].method
         /\ calls'[s] = [calls[s] EXCEPT !.pc = "reply", !.answer = Answer(s).rev]
         /\ \A t \in Sessions : t # s => calls'[t] = calls[t]
         /\ Stores(s) \/ Repeats(s)
<1> DEFINE r == Request(s)
           a == Answer(s)
<1>1. /\ calls[s].pc = "publish" /\ r \in Requests /\ r[1] = calls[s].method
      /\ r = <<calls[s].method, calls[s].key>>
  BY DEF PublishLifecycle, Typed, CallsTyped, Request
<1>2. /\ calls'[s] = [calls[s] EXCEPT !.pc = "reply", !.answer = a.rev]
      /\ \A t \in Sessions : t # s => calls'[t] = calls[t]
  BY DEF PublishLifecycle, Typed, CallsTyped
<1>3. CASE a.kind = "new"
  <2>1. /\ stored' = [stored EXCEPT ![r] = [hash |-> RequestHash(s), base |-> calls[s].base, rev |-> a.rev]]
        /\ intentRevision' = a.rev
        /\ committed' = [committed EXCEPT ![r] = IF @ < 2 THEN @ + 1 ELSE @]
    BY <1>1, <1>3 DEF PublishLifecycle
  <2>2. stored'[r] # NoKey
    BY <1>1, <2>1, HashType DEF NoKey, Typed, StoreTyped
  <2>3. /\ ~Known(r) /\ Kinds(r[1]) # {}
        /\ r[1] = "update_intent" => calls[s].base = intentRevision
        /\ a.rev = intentRevision + (IF Increments(r[1]) THEN 1 ELSE 0)
    BY <1>1, <1>3, AnswerType
  <2> QED
    BY <1>1, <1>2, <2>1, <2>2, <2>3 DEF Stores
<1>4. CASE a.kind # "new"
  <2>1. UNCHANGED <<stored, intentRevision, committed>>
    BY <1>4 DEF PublishLifecycle, storeVars
  <2>2. a.rev >= 0 => \/ Kinds(r[1]) = {} /\ a.rev = 0
                      \/ Known(r) /\ stored[r].rev = a.rev
    BY <1>1, <1>4, AnswerType
  <2> QED
    BY <1>1, <1>2, <2>1, <2>2 DEF Repeats
<1> QED
  BY <1>3, <1>4

\* Every request that is stored was committed once and its answers agree with it.
LEMMA AnsweredStep == Typed /\ Answered /\ [Next]_vars => Answered'
<1> SUFFICES ASSUME Typed, Answered, [Next]_vars PROVE Answered'
  OBVIOUS
<1>1. CASE ~\E s \in Sessions : PublishLifecycle(s)
  BY <1>1, StoreStep DEF Answered, Known, Request
<1>2. ASSUME NEW s \in Sessions, PublishLifecycle(s) PROVE Answered'
  <2> DEFINE r == Request(s)
  <2>1. /\ calls[s].pc = "publish" /\ r \in Requests /\ r[1] = calls[s].method
        /\ \A t \in Sessions : t # s => calls'[t] = calls[t]
        /\ calls'[s].method = calls[s].method /\ calls'[s].key = calls[s].key
        /\ calls'[s].answer = Answer(s).rev
    <3>1. calls[s] \in CallRecords
      BY DEF Typed, CallsTyped
    <3> QED
      BY <1>2, <3>1, Published DEF CallRecords
  <2>2. Request(s)' = r /\ \A t \in Sessions : t # s => Request(t)' = Request(t)
    BY <2>1 DEF Request
  <2>3. CASE Repeats(s)
    BY <2>1, <2>2, <2>3 DEF Answered, Known, Repeats
  <2>4. CASE Stores(s)
    <3>1. /\ ~Known(r) /\ Kinds(r[1]) # {}
          /\ stored'[r] # NoKey /\ stored'[r].rev = Answer(s).rev
          /\ \A q \in Requests : q # r => stored'[q] = stored[q] /\ committed'[q] = committed[q]
          /\ committed[r] = 0 => committed'[r] = 1
      BY <2>1, <2>4 DEF Typed, StoreTyped, Stores
    <3>2. \A q \in Requests : /\ Kinds(q[1]) = {} => stored'[q] = NoKey
                              /\ committed'[q] = (IF stored'[q] = NoKey THEN 0 ELSE 1)
      BY <2>1, <3>1 DEF Answered, Known
    <3>3. \A t \in Sessions \ {s} : calls[t].pc = "reply" /\ Known(Request(t)) => Request(t) # r
      BY <3>1
    <3>4. \A t \in Sessions \ {s} : calls[t].pc = "reply" => Request(t) \in Requests
      BY DEF Typed, CallsTyped
    <3>5. ASSUME NEW t \in Sessions, calls'[t].pc = "reply", calls'[t].answer >= 0
          PROVE  \/ Kinds(calls'[t].method) = {} /\ calls'[t].answer = 0
                 \/ stored'[Request(t)'] # NoKey /\ stored'[Request(t)'].rev = calls'[t].answer
      <4>1. CASE t = s
        BY <2>1, <2>2, <3>1, <4>1
      <4>2. CASE t # s
        BY <2>1, <2>2, <3>1, <3>3, <3>4, <3>5, <4>2 DEF Answered, Known
      <4> QED
        BY <4>1, <4>2
    <3> QED
      BY <3>2, <3>5 DEF Answered, Known
  <2> QED
    BY <1>2, <2>3, <2>4, Published
<1> QED
  BY <1>1, <1>2

\* An update is accepted on the current revision only, and makes the next one.
LEMMA OrderedStep == Typed /\ Answered /\ Ordered /\ [Next]_vars => Ordered'
<1> SUFFICES ASSUME Typed, Answered, Ordered, [Next]_vars PROVE Ordered'
  OBVIOUS
<1>1. CASE UNCHANGED <<stored, intentRevision>>
  BY <1>1 DEF Ordered, NoLostUpdate
<1>2. CASE ~UNCHANGED <<stored, intentRevision>>
  <2>1. PICK s \in Sessions : PublishLifecycle(s)
    BY <1>2, StoreStep
  <2> DEFINE r == Request(s)
  <2>2. /\ r \in Requests /\ ~Known(r) /\ intentRevision \in Nat
        /\ r[1] = "update_intent" => calls[s].base = intentRevision
        /\ intentRevision' = intentRevision + (IF Increments(r[1]) THEN 1 ELSE 0)
        /\ stored'[r].base = calls[s].base /\ stored'[r].rev = intentRevision'
        /\ \A q \in Requests : q # r => stored'[q] = stored[q]
    <3>1. r \in Requests /\ Stores(s)
      BY <1>2, <2>1, Published DEF Repeats
    <3> QED
      BY <3>1 DEF Typed, StoreTyped, Stores
  <2>3. \A q \in Requests : stored'[q].rev <= intentRevision' /\ stored[q].rev \in Nat
    BY <2>2 DEF Ordered, Typed, StoreTyped, KeyRecords
  <2>4. \A q \in Requests : q[1] = "update_intent" /\ stored'[q] # NoKey => stored'[q].rev = stored'[q].base + 1
    BY <2>2 DEF Ordered, NoLostUpdate, Increments
  <2>5. ASSUME NEW p \in Requests, NEW q \in Requests, p # q, Increments(p[1]), Increments(q[1]),
               stored'[p] # NoKey, stored'[q] # NoKey
        PROVE  stored'[p].rev # stored'[q].rev
    <3>1. \A x \in Requests : x # r => stored'[x].rev < intentRevision + 1
      BY <2>2, <2>3 DEF Ordered
    <3>2. CASE p = r \/ q = r
      BY <2>2, <2>3, <2>5, <3>1, <3>2
    <3>3. CASE p # r /\ q # r
      BY <2>2, <2>5, <3>3 DEF Ordered, NoLostUpdate
    <3> QED
      BY <3>2, <3>3
  <2> QED
    BY <2>3, <2>4, <2>5 DEF Ordered, NoLostUpdate
<1> QED
  BY <1>1, <1>2

-----------------------------------------------------------------------------
\* Bounds.

\* A step that ends a call pays with it, any other adds one call at most and pays
\* with an event: the revision stays within the bound on events.
LEMMA PaidStep == Typed /\ Paid /\ [Next]_vars => Paid'
<1> SUFFICES ASSUME Typed, Paid, [Next]_vars PROVE Paid'
  OBVIOUS
<1> USE SessionsAssumption
<1>1. IsFiniteSet(Busy) /\ IsFiniteSet(Busy') /\ Cardinality(Busy) \in Nat /\ Cardinality(Busy') \in Nat
  <2>1. Busy \subseteq Sessions /\ Busy' \subseteq Sessions
    BY DEF Busy
  <2> QED
    BY <2>1, FS_Subset, FS_CardinalityType
<1>2. intentRevision \in Nat /\ events \in Nat /\ events' \in Nat /\ intentRevision' \in Nat
      /\ (events' = events \/ events' = events + 1)
  <2>1. Typed'
    BY TypedStep
  <2>2. events' = events \/ events' = events + 1
    BY DEF Next, vars, Say, ShareMessage, Resolve, Unresolved, PublishLifecycle, Refuse, Reply, Retry,
       AgentEvent, CallTool, Prune, RebindWorkspace, Crash, Tick, Event
  <2> QED
    BY <2>1, <2>2 DEF Typed, StoreTyped
<1>3. ASSUME NEW s \in Sessions, PublishLifecycle(s) PROVE Paid'
  <2>1. Busy' = Busy \ {s} /\ s \in Busy
    <3>1. calls[s] \in CallRecords
      BY DEF Typed, CallsTyped
    <3>2. /\ calls[s].pc = "publish"
          /\ calls'[s] = [calls[s] EXCEPT !.pc = "reply", !.answer = Answer(s).rev]
          /\ \A t \in Sessions : t # s => calls'[t] = calls[t]
      BY <1>3, Published
    <3>3. calls'[s].pc = "reply"
      BY <3>1, <3>2 DEF CallRecords
    <3> QED
      BY <3>2, <3>3 DEF Busy
  <2>2. Cardinality(Busy') = Cardinality(Busy) - 1
    BY <1>1, <2>1, FS_RemoveElement
  <2>3. intentRevision' <= intentRevision + 1
    <3>1. Stores(s) \/ Repeats(s)
      BY <1>3, Published
    <3> QED
      BY <1>2, <3>1 DEF Stores, Repeats
  <2> QED
    BY <1>1, <1>2, <2>2, <2>3 DEF Paid
<1>4. ASSUME ~\E s \in Sessions : PublishLifecycle(s) PROVE Paid'
  <2>1. intentRevision' = intentRevision
    BY <1>4, StoreStep
  <2>2. CASE Busy' \subseteq Busy
    <3>1. Cardinality(Busy') <= Cardinality(Busy)
      BY <1>1, <2>2, FS_Subset
    <3> QED
      BY <1>1, <1>2, <2>1, <3>1 DEF Paid
  <2>3. CASE ~(Busy' \subseteq Busy)
    <3>1. PICK s \in Sessions :
            \/ Retry(s)
            \/ \E m \in Methods, k \in Keys, text \in Texts :
                  \E base \in IF m = "update_intent" THEN 1..intentRevision ELSE {0} :
                 CallTool(s, m, k, text, base)
      <4>1. ASSUME NEW s \in Sessions, Resolve(s) \/ Unresolved(s) \/ Refuse(s) \/ Reply(s)
            PROVE  Busy' \subseteq Busy
        BY <4>1 DEF Resolve, Unresolved, Refuse, Reply, NoCall, Busy, Typed, CallsTyped, CallRecords
      <4>2. Crash => Busy' \subseteq Busy
        BY DEF Crash, Busy, NoCall
      <4>3. UNCHANGED calls => Busy' \subseteq Busy
        BY DEF Busy
      <4> QED
        BY <1>4, <2>3, <4>1, <4>2, <4>3 DEF Next, vars, Say, ShareMessage, AgentEvent, Prune,
           RebindWorkspace, Tick, callVars
    <3>2. events' = events + 1
      BY <3>1 DEF Retry, CallTool, Event
    <3>3. Busy' = Busy \cup {s}
      BY <3>1 DEF Retry, CallTool, Busy, Typed, CallsTyped, CallRecords
    <3>4. Cardinality(Busy') <= Cardinality(Busy) + 1
      BY <1>1, <3>3, FS_AddElement
    <3> QED
      BY <1>1, <1>2, <2>1, <3>2, <3>4 DEF Paid
  <2> QED
    BY <2>2, <2>3
<1> QED
  BY <1>3, <1>4

-----------------------------------------------------------------------------
\* Identities and messages.

\* The only candidate of a resolution is the session itself if it is heard.
LEMMA ResolvedOwn ==
  ASSUME Typed, NEW s \in ActiveAgentSessions, NEW i \in Resolved
  PROVE  i \in {s, NoOne}
<1>1. IsFiniteSet(ActiveAgentSessions)
  <2>1. ActiveAgentSessions \subseteq Sessions
    BY DEF ActiveAgentSessions, Codex
  <2> QED
    BY <2>1, SessionsAssumption, FS_Subset
<1>2. CASE Cardinality(ActiveAgentSessions) = 1
  <2>1. PICK x : ActiveAgentSessions = {x}
    BY <1>1, <1>2, FS_Singleton
  <2>2. Resolved = ActiveAgentSessions
    BY <1>2, <2>1 DEF Resolved
  <2> QED
    BY <2>1, <2>2
<1>3. CASE Cardinality(ActiveAgentSessions) # 1
  <2>1. ActiveAgentSessions # {}
    OBVIOUS
  <2>2. Resolved = {NoOne}
    BY <1>3, <2>1 DEF Resolved
  <2> QED
    BY <2>2
<1> QED
  BY <1>2, <1>3

\* An identity is taken once, and evidence only leads astray who left none.
LEMMA MistakenStep == Typed /\ NeverMistaken /\ [Next]_vars => NeverMistaken'
<1> SUFFICES ASSUME Typed, NeverMistaken, [Next]_vars PROVE NeverMistaken'
  OBVIOUS
<1>1. ASSUME NEW s \in Sessions, Resolve(s) PROVE NeverMistaken'
  <2>1. PICK i \in IF identity[s] # NoOne THEN {identity[s]} ELSE IF s \in Claude THEN {s} ELSE Resolved :
          /\ identity' = [identity EXCEPT ![s] = i]
          /\ misled' = IF s \in Codex /\ identity[s] = NoOne /\ i \notin {s, NoOne}
                          /\ s \notin ActiveAgentSessions
                       THEN misled \cup {s} ELSE misled
    BY <1>1 DEF Resolve
  <2>2. misled \subseteq misled'
    BY <2>1
  <2>3. ASSUME i \notin {s, NoOne} PROVE s \in misled'
    <3>1. CASE identity[s] # NoOne
      BY <2>1, <2>2, <2>3, <3>1 DEF NeverMistaken
    <3>2. CASE identity[s] = NoOne
      <4>1. s \notin Claude /\ i \in Resolved
        BY <2>1, <2>3, <3>2
      <4>2. s \notin ActiveAgentSessions
        BY <2>3, <4>1, ResolvedOwn
      <4> QED
        BY <2>1, <2>3, <3>2, <4>1, <4>2 DEF Codex
    <3> QED
      BY <3>1, <3>2
  <2> QED
    BY <2>1, <2>2, <2>3 DEF NeverMistaken, Typed, EvidenceTyped
<1>2. ASSUME UNCHANGED <<identity, misled>> PROVE NeverMistaken'
  BY <1>2 DEF NeverMistaken
<1> QED
  BY <1>1, <1>2 DEF Next, vars, callVars, Say, ShareMessage, Unresolved, PublishLifecycle, Refuse, Reply,
     Retry, AgentEvent, CallTool, Prune, RebindWorkspace, Crash, Tick

\* A hook of a transcript that fits the window reads it from its first message.
LEMMA InPlaceStep == Typed /\ InPlace /\ [Next]_vars => InPlace'
<1> SUFFICES ASSUME Typed, InPlace, [Next]_vars PROVE InPlace'
  OBVIOUS
<1>1. ASSUME NEW s \in Sessions, Say(s) PROVE InPlace'
  <2>1. queued' = queued /\ \A t \in Sessions : said[t] \in Nat /\ (said'[t] = said[t] \/ said'[t] = said[t] + 1)
    BY <1>1 DEF Say, Typed, HooksTyped
  <2>2. \A t \in Sessions : said'[t] <= Window => said[t] <= Window
    BY <2>1, SessionsAssumption
  <2>3. \A x \in queued : x[1] \in Sessions
    BY DEF InPlace
  <2> QED
    BY <2>1, <2>2, <2>3 DEF InPlace
<1>2. ASSUME NEW s \in Sessions, ShareMessage(s) PROVE InPlace'
  <2> DEFINE h == hooks[s]
             m == hooks[s].at
             x == <<s, MessageId(h, m), m>>
  <2>1. said' = said /\ (queued' = queued \/ queued' = queued \cup {x})
    BY <1>2 DEF ShareMessage
  <2>2. /\ h.first \in Nat /\ h.last \in Nat /\ m \in Nat /\ said[s] \in Nat
        /\ h.first = FirstRead(h.last) /\ h.last <= said[s]
    BY <1>2 DEF ShareMessage, Typed, HooksTyped, HookRecords
  <2>3. said[s] <= Window => h.first = 1
    BY <2>2, SessionsAssumption DEF FirstRead
  <2>4. MessageId(h, m) \in Int \X Nat /\ (said[s] <= Window => MessageId(h, m) = <<m, m>>)
    BY <2>2, <2>3 DEF MessageId
  <2> QED
    BY <2>1, <2>2, <2>4 DEF InPlace
<1>3. ASSUME UNCHANGED <<queued, said>> PROVE InPlace'
  BY <1>3 DEF InPlace
<1> QED
  BY <1>1, <1>2, <1>3 DEF Next, vars, hookVars, Resolve, Unresolved, PublishLifecycle, Refuse, Reply,
     Retry, AgentEvent, CallTool, Prune, RebindWorkspace, Crash, Tick

-----------------------------------------------------------------------------

\* The inductive invariant.
SessionsInv == Typed /\ Paid /\ Answered /\ Ordered /\ NeverMistaken /\ InPlace

\* It holds of every reachable state.
LEMMA SessionsInvariant == Spec => []SessionsInv
<1>1. Init => SessionsInv
  <2> SUFFICES ASSUME Init PROVE SessionsInv
    OBVIOUS
  <2>1. Typed
    BY InitTyped
  <2>2. Busy = {}
    BY DEF Init, Busy, NoCall
  <2>3. Paid
    BY <2>2, FS_EmptySet, SessionsAssumption DEF Paid, Init
  <2>4. Answered
    BY DEF Init, Answered, NoCall
  <2>5. Ordered
    BY DEF Init, Ordered, NoLostUpdate, NoKey
  <2>6. NeverMistaken /\ InPlace
    BY DEF Init, NeverMistaken, InPlace
  <2> QED
    BY <2>1, <2>3, <2>4, <2>5, <2>6 DEF SessionsInv
<1>2. SessionsInv /\ [Next]_vars => SessionsInv'
  BY TypedStep, PaidStep, AnsweredStep, OrderedStep, MistakenStep, InPlaceStep DEF SessionsInv
<1> QED
  BY <1>1, <1>2, PTL DEF Spec

\* Every variable has its type at every step, the revision of the intent within the
\* bound on events: the evidence, the calls, the stored keys and the hooks that
\* share a transcript keep their shape through stops, moves and prunes.
THEOREM SessionsTyped == Spec => []SessionsTypeOK
<1>1. SessionsInv => SessionsTypeOK
  <2> SUFFICES ASSUME SessionsInv PROVE SessionsTypeOK
    OBVIOUS
  <2>1. intentRevision \in 0..MaxEvents
    <3>1. Busy \subseteq Sessions
      BY DEF Busy
    <3>2. Cardinality(Busy) \in Nat
      BY <3>1, SessionsAssumption, FS_Subset, FS_CardinalityType
    <3> QED
      BY <3>2, SessionsAssumption DEF SessionsInv, Paid, Typed, StoreTyped
  <2>2. \A r \in Requests : stored[r].hash[1] \in Identities \cup {NoOne} /\ stored[r].rev \in 0..MaxEvents
    BY <2>1, SessionsAssumption DEF SessionsInv, Ordered, Typed, StoreTyped, KeyRecords, Hashes
  <2>3. \A s \in Sessions : calls[s].pc \in {"idle", "resolve", "publish", "reply"}
    BY DEF SessionsInv, Typed, CallsTyped, CallRecords
  <2> QED
    BY <2>1, <2>2, <2>3 DEF SessionsInv, Typed, EvidenceTyped, StoreTyped, HooksTyped, SessionsTypeOK
<1> QED
  BY <1>1, SessionsInvariant, PTL

\* A call made with one key publishes its events once, and every try that is
\* answered with a revision is answered with the same one, whatever became of the
\* events in between (PublishLifecycle, pruning, RebindWorkspace).
THEOREM RetriesAlwaysAgree == Spec => []RetriesAgree
<1>1. SessionsInv => RetriesAgree
  <2> SUFFICES ASSUME SessionsInv PROVE RetriesAgree
    OBVIOUS
  <2>1. ASSUME NEW s \in Sessions, calls[s].pc = "reply", calls[s].answer >= 0
        PROVE  stored[<<calls[s].method, calls[s].key>>].rev = calls[s].answer
    <3>1. Request(s) \in Requests /\ Request(s)[1] = calls[s].method
      BY <2>1 DEF SessionsInv, Typed, CallsTyped, Request
    <3>2. CASE Kinds(calls[s].method) = {} /\ calls[s].answer = 0
      BY <3>1, <3>2 DEF SessionsInv, Answered, Request, NoKey
    <3>3. CASE stored[Request(s)].rev = calls[s].answer
      BY <3>3 DEF Request
    <3> QED
      BY <2>1, <3>2, <3>3 DEF SessionsInv, Answered
  <2> QED
    BY <2>1 DEF SessionsInv, Answered, RetriesAgree
<1> QED
  BY <1>1, SessionsInvariant, PTL

\* Every accepted update of the intent was based on the revision before its own and
\* no two calls made the same revision (the compare of PublishLifecycle).
THEOREM NoUpdateLost == Spec => []NoLostUpdate
BY SessionsInvariant, PTL DEF SessionsInv, Ordered

\* An MCP process holds another session's identity only if its own session had left
\* no evidence when it was resolved (handleAgentSessionResolution).
THEOREM HeardIsNeverMistaken == Spec => []NeverMistaken
BY SessionsInvariant, PTL DEF SessionsInv

\* A message of a transcript that fits the window is shared under one identity,
\* however many hooks read it and wherever one is cut off (shareTranscript).
THEOREM SharedOnce == Spec => []MessageSharedOnce
<1>1. InPlace => MessageSharedOnce
  BY DEF InPlace, MessageSharedOnce
<1> QED
  BY <1>1, SessionsInvariant, PTL DEF SessionsInv
=============================================================================
