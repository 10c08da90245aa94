------------------------------ MODULE Sessions ------------------------------
(***************************************************************************)
(* Agent sessions of one checkout: what their hooks report (agent_event),  *)
(* the local evidence that tells which session an MCP process belongs to,  *)
(* the lifecycle calls an MCP process makes and repeats, and the messages  *)
(* of a session's transcript that are shared with the Project.             *)
(*                                                                         *)
(* All sessions work in the same directory of one registered repository,   *)
(* which is where identities can be confused.  A session stands for its    *)
(* parse-time handle and for the identity PublishedWorkstreamID makes of   *)
(* it: the scoping is injective.                                           *)
(***************************************************************************)
EXTENDS Integers, FiniteSets, Sequences

CONSTANTS
  Sessions,     \* agent sessions
  Claude,       \* those whose MCP process is told its session
  Background,   \* Codex threads that write no rollout
  Keys,         \* idempotency keys, checkpoint ids or brief ids
  Methods,      \* lifecycle methods that occur
  Texts,        \* what calls say: titles, summaries, outcomes
  HookEvents,   \* hook events that occur
  Workspace,    \* the workstream of the repository itself
  Live,         \* ticks a hook counts as evidence (agentSessionLiveWindow)
  Window,       \* messages read of a transcript (MaxMessages)
  ToolAt,       \* positions of a transcript that are tool messages
  MaxEvents     \* bound: messages, hooks, tries of calls, lost replies, stops,
                \* failed writes, moves and time-outs together

ASSUME SessionsAssumption ==
  /\ Claude \subseteq Sessions /\ Background \subseteq Sessions \ Claude
  /\ Methods \subseteq {"begin_work", "update_intent", "check_coordination", "report_checkpoint",
                        "acknowledge_context", "finish_work", "report_event"}
  /\ HookEvents \subseteq {"SessionStart", "UserPromptSubmit", "PreToolUse", "PermissionRequest", "PostToolUse",
                           "PostToolUseFailure", "SubagentStart", "SubagentStop", "Stop", "SessionEnd"}
  /\ IsFiniteSet(Sessions) /\ Workspace \notin Sessions
  /\ "none" \notin Sessions \cup {Workspace} \cup Texts
  /\ Live \in Nat /\ Window \in Nat \ {0}
  /\ MaxEvents \in Nat

Codex == Sessions \ Claude
NoOne == "none"
Identities == Sessions \cup {Workspace}

VARIABLES
  sessions,   \* agent_sessions: ticks since the last hook, Live + 1 for no live row
  threads,    \* Codex's own threads of this directory: ticks since their update
  identity,   \* agentWorkstreamID of each MCP process
  calls,      \* the lifecycle call each MCP process is busy with
  stored,     \* idempotency_keys: the hash of what was asked and the revision
              \* answered; base, on which an update was built, is history
  intentRevision,
  rows,       \* events of lifecycle calls in event_queue: the call and the kind
  committed,  \* history: how often the events of a call were committed
  said,       \* messages in each session's transcript
  hooks,      \* the agent_event of each session that is being handled
  queued,     \* agent.conversation_shared events: session, message id, message
  misled,     \* history: sessions resolved to another one without evidence of their own
  events

vars == <<sessions, threads, identity, calls, stored, intentRevision, rows, committed,
          said, hooks, queued, misled, events>>

Requests == Methods \X Keys
NoCall == [pc |-> "idle", method |-> NoOne, key |-> NoOne, text |-> NoOne, base |-> 0, answer |-> 0]
NoKey == [hash |-> <<NoOne, NoOne>>, base |-> 0, rev |-> 0]
NoHook == [first |-> 1, last |-> 0, at |-> 1]

Init ==
  /\ sessions = [s \in Codex |-> Live + 1] /\ threads = [s \in Codex |-> Live + 1]
  /\ identity = [s \in Sessions |-> NoOne] /\ calls = [s \in Sessions |-> NoCall]
  /\ stored = [r \in Requests |-> NoKey] /\ intentRevision = 0
  /\ rows = {} /\ committed = [r \in Requests |-> 0]
  /\ said = [s \in Sessions |-> 0] /\ hooks = [s \in Sessions |-> NoHook] /\ queued = {}
  /\ misled = {} /\ events = 0

Event == events < MaxEvents /\ events' = events + 1

storeVars == <<stored, intentRevision, rows, committed>>
callVars == <<identity, calls, misled>>
hookVars == <<said, hooks, queued>>

-----------------------------------------------------------------------------
(* Hooks *)

\* The agent or its member says something, which the vendor writes down.
Say(s) ==
  /\ Event /\ s \notin Background
  /\ said' = [said EXCEPT ![s] = @ + 1]
  /\ threads' = IF s \in Codex THEN [threads EXCEPT ![s] = 0] ELSE threads
  /\ UNCHANGED <<sessions, callVars, storeVars, hooks, queued>>

\* sessiontranscript.Read keeps the last messages.
FirstRead(n) == IF n > Window THEN n - Window + 1 ELSE 1

\* Parse: the status a hook event stands for.
Status(event) ==
  CASE event = "PermissionRequest" -> "waiting"
    [] event = "PostToolUseFailure" -> "error"
    [] event = "Stop" -> "idle"
    [] event = "SessionEnd" -> "done"
    [] OTHER -> "active"

\* RecordAgentSession: the row of a session, which "done" takes out of the answers
\* of ActiveAgentSessions.
RecordAgentSession(s, status) ==
  sessions' = IF s \in Codex THEN [sessions EXCEPT ![s] = IF status = "done" THEN Live + 1 ELSE 0] ELSE sessions

\* handleAgentEvent up to shareTranscript.  A Codex thread without a rollout is
\* counted and nothing else.  The activity event itself is Publisher's business.
AgentEvent(s, event) ==
  /\ Event /\ hooks[s] = NoHook
  /\ IF s \in Background
     THEN UNCHANGED <<sessions, hooks>>
     ELSE /\ RecordAgentSession(s, Status(event))
          /\ hooks' = [hooks EXCEPT ![s] = IF said[s] = 0 THEN NoHook
               ELSE [first |-> FirstRead(said[s]), last |-> said[s], at |-> FirstRead(said[s])]]
  /\ UNCHANGED <<threads, callVars, storeVars, said, queued>>

\* Mutant: the identity is that of the event which carries the message.
MessageIdOfHook(h, m) == <<h.last, m>>

\* The identity of a shared message: its index in what was read, and its text.
MessageId(h, m) == <<m - h.first + 1, m>>

\* One message of shareTranscript: tool messages are skipped, and one that cannot
\* be queued is skipped until the next hook.
ShareMessage(s) ==
  LET h == hooks[s]
      m == h.at
  IN /\ h # NoHook
     /\ \/ /\ m \notin ToolAt
           /\ queued' = queued \cup {<<s, MessageId(h, m), m>>} /\ UNCHANGED events
        \/ m \in ToolAt /\ UNCHANGED <<queued, events>>
        \/ m \notin ToolAt /\ Event /\ UNCHANGED queued
     /\ hooks' = [hooks EXCEPT ![s] = IF m = h.last THEN NoHook ELSE [h EXCEPT !.at = m + 1]]
     /\ UNCHANGED <<sessions, threads, callVars, storeVars, said>>

-----------------------------------------------------------------------------
(* Which session an MCP process belongs to *)

\* ActiveAgentSessions and, without hook evidence, the two newest threads.
ActiveAgentSessions == {s \in Codex : sessions[s] <= Live}
LiveThreads == {s \in Codex : threads[s] <= Live}

\* Mutant: of several sessions the one heard last is taken.
ResolvedNewest ==
  LET newest == {s \in ActiveAgentSessions : \A t \in ActiveAgentSessions : sessions[s] <= sessions[t]}
  IN IF newest # {} THEN newest
     ELSE IF Cardinality(LiveThreads) = 1 THEN LiveThreads ELSE {NoOne}

\* handleAgentSessionResolution: one candidate, or nobody.
Resolved ==
  CASE Cardinality(ActiveAgentSessions) = 1 -> ActiveAgentSessions
    [] ActiveAgentSessions = {} /\ Cardinality(LiveThreads) = 1 -> LiveThreads
    [] OTHER -> {NoOne}

\* callingSessionWorkstream: an identity is kept once it is known.
Resolve(s) ==
  /\ calls[s].pc = "resolve"
  /\ \E i \in IF identity[s] # NoOne THEN {identity[s]}
              ELSE IF s \in Claude THEN {s} ELSE Resolved :
       /\ identity' = [identity EXCEPT ![s] = i]
       /\ misled' = IF s \in Codex /\ identity[s] = NoOne /\ i \notin {s, NoOne}
                       /\ s \notin ActiveAgentSessions
                    THEN misled \cup {s} ELSE misled
  /\ calls' = [calls EXCEPT ![s].pc = "publish"]
  /\ UNCHANGED <<sessions, threads, storeVars, hookVars, events>>

\* The app-server does not answer in time, or the service does not.
Unresolved(s) ==
  /\ calls[s].pc = "resolve" /\ identity[s] = NoOne /\ s \in Codex
  /\ Event
  /\ calls' = [calls EXCEPT ![s].pc = "publish"]
  /\ UNCHANGED <<sessions, threads, identity, misled, storeVars, hookVars>>

-----------------------------------------------------------------------------
(* Lifecycle calls *)

\* A tool of the MCP process is called: begin_work, update_intent and so on.  An
\* update states the revision it is based on.
CallTool(s, m, k, text, base) ==
  /\ Event /\ calls[s].pc = "idle"
  /\ calls' = [calls EXCEPT ![s] =
                 [pc |-> "resolve", method |-> m, key |-> k, text |-> text, base |-> base, answer |-> 0]]
  /\ UNCHANGED <<sessions, threads, identity, misled, storeVars, hookVars>>

\* The workstream of the call: the session if it is known, else the repository's.
WorkstreamOf(s) == IF identity[s] = NoOne THEN Workspace ELSE identity[s]

Increments(m) == m \in {"begin_work", "update_intent"}

\* The hash of a call: of its events' payloads, in which the workstream stands
\* unless the call acknowledges a brief or reports an event, and the revision an
\* update is based on never does.
RequestHash(s) ==
  <<IF calls[s].method \in {"acknowledge_context", "report_event"} THEN NoOne ELSE WorkstreamOf(s),
    calls[s].text>>

\* The events a call publishes; a check of the coordination publishes none.
Kinds(m) ==
  CASE Increments(m) -> {"workstream.intent_reported"}
    [] m = "report_checkpoint" -> {"workstream.checkpoint_reported"}
    [] m = "acknowledge_context" -> {"context.acknowledged"}
    [] m = "finish_work" -> {"workstream.checkpoint_reported", "activity.reported", "workstream.status_changed"}
    [] m = "report_event" -> {"activity.reported"}
    [] OTHER -> {}

Queued(r) == \E kind \in Kinds(r[1]) : <<r, kind>> \in rows

\* Mutant: a key whose events have left the queue is free again.
KnownWhileQueued(r) == stored[r] # NoKey /\ Queued(r)

\* The lookup in idempotency_keys.
Known(r) == stored[r] # NoKey

\* Mutant: an update is not compared with the current revision.
AnswerUnchecked(s) ==
  LET r == <<calls[s].method, calls[s].key>>
  IN IF Known(r) THEN [kind |-> "duplicate", rev |-> stored[r].rev]
     ELSE [kind |-> "new", rev |-> intentRevision + (IF Increments(r[1]) THEN 1 ELSE 0)]

\* What PublishLifecycle answers: an error (-1), the revision of an earlier try, or
\* the revision it makes.
Answer(s) ==
  LET c == calls[s]
      r == <<c.method, c.key>>
  IN CASE Kinds(c.method) = {} -> [kind |-> "brief", rev |-> 0]
       [] Kinds(c.method) # {} /\ Known(r)
            -> IF stored[r].hash = RequestHash(s)
               THEN [kind |-> "duplicate", rev |-> stored[r].rev]
               ELSE [kind |-> "error", rev |-> -1]
       [] Kinds(c.method) # {} /\ ~Known(r)
          /\ (Queued(r) \/ (c.method = "update_intent" /\ c.base # intentRevision))
            -> [kind |-> "error", rev |-> -1]
       [] OTHER -> [kind |-> "new", rev |-> intentRevision + (IF Increments(c.method) THEN 1 ELSE 0)]

\* handleLifecycle and PublishLifecycle, one transaction: the key, the revision
\* and the events of the call together.
PublishLifecycle(s) ==
  LET c == calls[s]
      r == <<c.method, c.key>>
      a == Answer(s)
  IN /\ c.pc = "publish"
     /\ IF a.kind = "new"
        THEN /\ stored' = [stored EXCEPT ![r] = [hash |-> RequestHash(s), base |-> c.base, rev |-> a.rev]]
             /\ intentRevision' = a.rev
             /\ rows' = rows \cup ({r} \X Kinds(c.method))
             /\ committed' = [committed EXCEPT ![r] = IF @ < 2 THEN @ + 1 ELSE @]
        ELSE UNCHANGED storeVars
     /\ calls' = [calls EXCEPT ![s].pc = "reply", ![s].answer = a.rev]
     /\ UNCHANGED <<sessions, threads, identity, misled, hookVars, events>>

\* A call whose input is refused by a validator changes nothing.
Refuse(s) ==
  /\ calls[s].pc = "publish"
  /\ calls' = [calls EXCEPT ![s].pc = "reply", ![s].answer = -1]
  /\ UNCHANGED <<sessions, threads, identity, misled, storeVars, hookVars, events>>

\* The reply arrives; or it does not, and the agent tries again with the same key.
Reply(s) ==
  /\ calls[s].pc = "reply"
  /\ calls' = [calls EXCEPT ![s] = NoCall]
  /\ UNCHANGED <<sessions, threads, identity, misled, storeVars, hookVars, events>>

Retry(s) ==
  /\ calls[s].pc = "reply" /\ Event
  /\ calls' = [calls EXCEPT ![s].pc = "resolve"]
  /\ UNCHANGED <<sessions, threads, identity, misled, storeVars, hookVars>>

\* An acknowledged event is pruned; a move to another backend empties the queue.
\* Neither touches idempotency_keys.
Prune(row) ==
  /\ row \in rows /\ rows' = rows \ {row}
  /\ UNCHANGED <<sessions, threads, callVars, stored, intentRevision, committed, hookVars, events>>

RebindWorkspace ==
  /\ rows # {} /\ Event /\ rows' = {}
  /\ UNCHANGED <<sessions, threads, callVars, stored, intentRevision, committed, hookVars>>

\* The service stops: hooks and calls it was busy with end, unanswered.
Crash ==
  /\ Event
  /\ hooks' = [s \in Sessions |-> NoHook]
  /\ calls' = [s \in Sessions |-> IF calls[s].pc = "publish" THEN NoCall ELSE calls[s]]
  /\ UNCHANGED <<sessions, threads, identity, misled, storeVars, said, queued>>

Older(n) == IF n > Live THEN n ELSE n + 1

Tick ==
  /\ sessions' = [s \in Codex |-> Older(sessions[s])]
  /\ threads' = [s \in Codex |-> Older(threads[s])]
  /\ <<sessions, threads>>' # <<sessions, threads>>
  /\ UNCHANGED <<callVars, storeVars, hookVars, events>>

Next ==
  \/ \E s \in Sessions :
       \/ Say(s) \/ ShareMessage(s) \/ Resolve(s) \/ Unresolved(s)
       \/ PublishLifecycle(s) \/ Refuse(s) \/ Reply(s) \/ Retry(s)
       \/ \E event \in HookEvents : AgentEvent(s, event)
       \/ \E m \in Methods, k \in Keys, text \in Texts :
            \E base \in IF m = "update_intent" THEN 1..intentRevision ELSE {0} : CallTool(s, m, k, text, base)
  \/ \E row \in rows : Prune(row)
  \/ RebindWorkspace \/ Crash \/ Tick

Spec == Init /\ [][Next]_vars

-----------------------------------------------------------------------------

\* Every variable has its type; a hook shares a stretch of its transcript, and
\* no thread that Codex runs in the background leaves evidence of a session.
SessionsTypeOK ==
  /\ sessions \in [Codex -> 0..Live + 1] /\ threads \in [Codex -> 0..Live + 1]
  /\ identity \in [Sessions -> Sessions \cup {NoOne}]
  /\ \A s \in Sessions : calls[s].pc \in {"idle", "resolve", "publish", "reply"}
  /\ \A r \in Requests : stored[r].hash[1] \in Identities \cup {NoOne} /\ stored[r].rev \in 0..MaxEvents
  /\ intentRevision \in 0..MaxEvents /\ \A row \in rows : row[1] \in Requests /\ row[2] \in Kinds(row[1][1])
  /\ \A s \in Sessions : hooks[s] = NoHook \/
       (hooks[s].first <= hooks[s].at /\ hooks[s].at <= hooks[s].last /\ hooks[s].last <= said[s])
  /\ \A s \in Background : sessions[s] > Live

\* A call made with one key publishes once, however often it is repeated and
\* whatever became of its events (pruned, dropped by a move): a key that was
\* answered is known for good and every try that is answered with a revision is
\* answered with the same one.
RetriesAgree ==
  /\ \A r \in Requests : committed[r] = (IF stored[r] = NoKey THEN 0 ELSE 1)
  /\ \A s \in Sessions : calls[s].pc = "reply" /\ calls[s].answer >= 0 =>
       stored[<<calls[s].method, calls[s].key>>].rev = calls[s].answer

\* Every accepted update of the intent was based on the revision before its own,
\* and no two calls made the same revision: no update is lost under another.
NoLostUpdate ==
  /\ \A r \in Requests : r[1] = "update_intent" /\ stored[r] # NoKey => stored[r].rev = stored[r].base + 1
  /\ \A p, q \in {r \in Requests : Increments(r[1]) /\ stored[r] # NoKey} :
       p # q => stored[p].rev # stored[q].rev

\* A session whose hooks are heard is never taken for another one: an MCP process
\* holds another session's identity only if its own had left no evidence when it
\* was resolved.
NeverMistaken == \A s \in Sessions : identity[s] \notin {s, NoOne} => s \in misled

\* A message of a transcript that fits the window is shared under one identity,
\* however many hooks of the session read it and wherever a hook is cut off.
MessageSharedOnce ==
  \A x, y \in queued : x[1] = y[1] /\ x[3] = y[3] /\ said[x[1]] <= Window => x[2] = y[2]

=============================================================================
