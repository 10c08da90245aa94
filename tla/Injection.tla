------------------------------ MODULE Injection ------------------------------
(***************************************************************************)
(* How a coordination item of the backend reaches an agent's turn: the     *)
(* hook process asks the service (agent_injection), the service checks the *)
(* mid-turn window and the focus of the session, fetches a brief, drops    *)
(* what the session received before, picks what fits, claims it, answers,  *)
(* and the hook prints the answer if it is still waiting for it.           *)
(*                                                                         *)
(* Deliveries and focus are rows of the store and survive a stop of the    *)
(* service; the mid-turn windows are memory.  Times are kept as what is    *)
(* left of them, or as the age of a call, and Tick moves them all.         *)
(***************************************************************************)
EXTENDS Integers, FiniteSets, SequencesExt

CONSTANTS
  Sessions,      \* agent sessions of this device, by published identity
  Claude,        \* those whose vendor renders context after a tool call
  Order,         \* the Project's items, most urgent first: a sequence
  Required,      \* items whose advisory action is coordination_required
  Hooks,         \* hook processes that may run at the same time
  BriefBudget,   \* size of a brief (injectionBudget)
  LineBudget,    \* size of an injection (maxInjectionChars)
  HookBudget,    \* ticks after which a hook gives up (1200 ms)
  FetchBudget,   \* ticks after which fetchContext expires (1500 ms)
  Window,        \* ticks between mid-turn fetches of a session
  DefaultFocus, MaxFocus, \* ticks of a focus
  MaxRevisions,  \* bound: revisions made, of all items together
  MaxFocusCalls, \* bound: focus calls
  MaxFaults      \* bound: stops of the service and killed hooks

ASSUME InjectionAssumption ==
  /\ Sessions # {} /\ Claude \subseteq Sessions /\ Required \subseteq Range(Order)
  /\ BriefBudget \in Nat /\ LineBudget \in Nat
  /\ HookBudget \in Nat \ {0} /\ FetchBudget \in Nat \ {0} /\ Window \in Nat
  /\ DefaultFocus \in 1..MaxFocus /\ MaxFocus \in Nat
  /\ MaxRevisions \in Nat /\ MaxFocusCalls \in Nat /\ MaxFaults \in Nat

Items == Range(Order)
Revisions == 1..MaxRevisions

\* A full item takes two units of a budget, a reference to one takes one.
Full == 2
Reference == 1

VARIABLES
  revision,   \* the revision of each item at the backend, 0 before it exists
  open,       \* the items that are open
  delivered,  \* injection_deliveries: item revisions claimed for a session
  focus,      \* session_focus: ticks left of a session's focus
  midTurn,    \* midTurnFetch: ticks left of a session's mid-turn window
  hooks,      \* the hook processes and the calls they wait for
  shown,      \* history: the item revisions a session's agent was shown
  again,      \* history: those it was shown more than once
  lost,       \* history: claimed by a call nobody waited for any more
  revised, focusCalls, faults

vars == <<revision, open, delivered, focus, midTurn, hooks, shown, again, lost, revised, focusCalls, faults>>

NoHook == [pc |-> "idle", s |-> CHOOSE s \in Sessions : TRUE, mid |-> FALSE,
           age |-> 0, gone |-> FALSE, sel |-> {}]

Init ==
  /\ revision = [i \in Items |-> 0] /\ open = {}
  /\ delivered = [s \in Sessions |-> {}]
  /\ focus = [s \in Sessions |-> 0] /\ midTurn = [s \in Sessions |-> 0]
  /\ hooks = [h \in Hooks |-> NoHook]
  /\ shown = [s \in Sessions |-> {}] /\ again = [s \in Sessions |-> {}]
  /\ lost = {} /\ revised = 0 /\ focusCalls = 0 /\ faults = 0

Fault == faults < MaxFaults /\ faults' = faults + 1

-----------------------------------------------------------------------------
(* The backend. *)

\* A finding or decision is opened, or gets another revision; one is closed.
Revise(i) ==
  /\ revised < MaxRevisions /\ revised' = revised + 1
  /\ revision' = [revision EXCEPT ![i] = @ + 1]
  /\ open' = open \cup {i}
  /\ UNCHANGED <<delivered, focus, midTurn, hooks, shown, again, lost, focusCalls, faults>>

Close(i) ==
  /\ i \in open
  /\ open' = open \ {i}
  /\ UNCHANGED <<revision, revised, delivered, focus, midTurn, hooks, shown, again, lost, focusCalls, faults>>

\* renderBrief: in the order of urgency, in full if it fits, as a reference if
\* it is urgent and that fits, else not at all.  What the session has been
\* told before plays no part.
RenderBrief ==
  LET take(acc, i) ==
        CASE acc.size + Full <= BriefBudget
               -> [items |-> Append(acc.items, i), size |-> acc.size + Full]
          [] acc.size + Full > BriefBudget /\ i \in Required /\ acc.size + Reference <= BriefBudget
               -> [items |-> Append(acc.items, i), size |-> acc.size + Reference]
          [] OTHER -> acc
  IN FoldLeft(take, [items |-> <<>>, size |-> 0],
              SelectSeq(Order, LAMBDA i : i \in open)).items

\* The open items at their current revisions.
Latest == {<<i, revision[i]>> : i \in open}

-----------------------------------------------------------------------------
(* The service. *)

\* selectInjectionItems: in full if it fits, else as a reference, and nothing
\* more from the first that fits neither way.
SelectInjectionItems(items) ==
  LET take(acc, i) ==
        CASE ~acc.full /\ acc.size + Full <= LineBudget
               -> [acc EXCEPT !.items = @ \cup {i}, !.size = @ + Full]
          [] ~acc.full /\ acc.size + Full > LineBudget /\ acc.size + Reference <= LineBudget
               -> [acc EXCEPT !.items = @ \cup {i}, !.size = @ + Reference]
          [] OTHER -> [acc EXCEPT !.full = TRUE]
  IN FoldLeft(take, [items |-> {}, size |-> 0, full |-> FALSE], items).items

\* UndeliveredInjectionItems
Undelivered(s, items) ==
  SelectSeq(items, LAMBDA i : <<i, revision[i]>> \notin delivered[s])

\* FocusedUntil: a deadline that has passed suppresses nothing.
FocusedUntil(s) == focus[s] > 0

\* claimMidTurnFetch
ClaimMidTurnFetch(s) == midTurn[s] = 0

Returned(h) == hooks' = [hooks EXCEPT ![h] = NoHook]

\* The boundaries at which a hook asks: the start of a session and a prompt, for
\* Cursor nothing else, for Claude Code also the end of a tool call.
Boundary(s, mid) == mid => s \in Claude

\* The hook calls; handleAgentInjection up to the fetch.  A mid-turn call takes
\* the window before the focus is looked at.
Call(h, s, mid) ==
  /\ hooks[h].pc = "idle"
  /\ Boundary(s, mid)
  /\ mid => ClaimMidTurnFetch(s)
  /\ midTurn' = IF mid THEN [midTurn EXCEPT ![s] = Window] ELSE midTurn
  /\ hooks' = IF FocusedUntil(s) THEN hooks
              ELSE [hooks EXCEPT ![h] = [NoHook EXCEPT !.pc = "fetch", !.s = s, !.mid = mid]]
  /\ UNCHANGED <<revision, revised, open, delivered, focus, shown, again, lost, focusCalls, faults>>

\* CreateBrief answers in time, and what is to be shown is picked from it.
BriefArrives(h) ==
  LET k == hooks[h]
      pending == SelectSeq(Undelivered(k.s, RenderBrief), LAMBDA i : k.mid => i \in Required)
      sel == {p \in Latest : p[1] \in SelectInjectionItems(pending)}
  IN /\ k.pc = "fetch" /\ k.age < FetchBudget
     /\ hooks' = [hooks EXCEPT ![h] = IF sel = {} THEN NoHook
                                      ELSE [@ EXCEPT !.pc = "picked", !.sel = sel]]
     /\ UNCHANGED <<revision, revised, open, delivered, focus, midTurn, shown, again, lost, focusCalls, faults>>

\* CreateBrief fails or its context expires; the hook's turn goes on without.
BriefFails(h) ==
  /\ hooks[h].pc = "fetch"
  /\ hooks[h].age < FetchBudget => faults < MaxFaults
  /\ faults' = IF hooks[h].age < FetchBudget THEN faults + 1 ELSE faults
  /\ Returned(h)
  /\ UNCHANGED <<revision, revised, open, delivered, focus, midTurn, shown, again, lost, focusCalls>>

\* Mutant: what another hook inserted first is returned as well.
ClaimDeliveriesAnyway(s, sel) == [claimed |-> sel, rows |-> delivered[s] \cup sel]

\* Mutant: the brief is claimed, not the selection.
ClaimDeliveriesOfBrief(s, sel) ==
  [claimed |-> sel \ delivered[s],
   rows |-> delivered[s] \cup sel \cup {<<i, revision[i]>> : i \in Range(RenderBrief)}]

\* ClaimInjectionDeliveries: the revisions this session did not have yet are
\* recorded and returned, in one transaction.
ClaimDeliveries(s, sel) == [claimed |-> sel \ delivered[s], rows |-> delivered[s] \cup sel]

\* The claim, unless fetchContext has expired.
Claim(h) ==
  LET k == hooks[h]
      c == ClaimDeliveries(k.s, k.sel)
  IN /\ k.pc = "picked" /\ k.age < FetchBudget
     /\ delivered' = [delivered EXCEPT ![k.s] = c.rows]
     /\ hooks' = [hooks EXCEPT ![h] = IF c.claimed = {} THEN NoHook
                                      ELSE [@ EXCEPT !.pc = "answer", !.sel = c.claimed]]
     /\ UNCHANGED <<revision, revised, open, focus, midTurn, shown, again, lost, focusCalls, faults>>

ClaimTooLate(h) ==
  /\ hooks[h].pc = "picked" /\ hooks[h].age >= FetchBudget
  /\ Returned(h)
  /\ UNCHANGED <<revision, revised, open, delivered, focus, midTurn, shown, again, lost, focusCalls, faults>>

\* What a call has claimed and nobody will read.
LostBy(H) == UNION {{<<hooks[h].s, p>> : p \in hooks[h].sel} : h \in {g \in H : hooks[g].pc = "answer"}}

\* The answer is written: the hook prints it, unless it has given up.
Answer(h) ==
  LET k == hooks[h]
  IN /\ k.pc = "answer"
     /\ shown' = IF k.gone THEN shown ELSE [shown EXCEPT ![k.s] = @ \cup k.sel]
     /\ again' = IF k.gone THEN again ELSE [again EXCEPT ![k.s] = @ \cup (k.sel \cap shown[k.s])]
     /\ lost' = IF k.gone THEN lost \cup LostBy({h}) ELSE lost
     /\ Returned(h)
     /\ UNCHANGED <<revision, revised, open, delivered, focus, midTurn, focusCalls, faults>>

\* SetFocus, with its default and its limit; unfocus; ClearAllFocus.
FocusFor(d) == IF d <= 0 THEN DefaultFocus ELSE IF d > MaxFocus THEN MaxFocus ELSE d

SetFocus(s, d) ==
  /\ focusCalls < MaxFocusCalls
  /\ focus' = [focus EXCEPT ![s] = FocusFor(d)]
  /\ focusCalls' = focusCalls + 1
  /\ UNCHANGED <<revision, revised, open, delivered, midTurn, hooks, shown, again, lost, faults>>

ClearFocus(S) ==
  /\ \E s \in S : focus[s] > 0
  /\ focus' = [s \in Sessions |-> IF s \in S THEN 0 ELSE focus[s]]
  /\ UNCHANGED <<revision, revised, open, delivered, midTurn, hooks, shown, again, lost, focusCalls, faults>>

\* The vendor ends the hook process; the service does not hear of it.
Killed(h) ==
  /\ hooks[h].pc # "idle" /\ ~hooks[h].gone
  /\ Fault
  /\ hooks' = [hooks EXCEPT ![h].gone = TRUE]
  /\ UNCHANGED <<revision, revised, open, delivered, focus, midTurn, shown, again, lost, focusCalls>>

\* The service stops: the calls fail, the windows are forgotten.
Crash ==
  /\ Fault
  /\ lost' = lost \cup LostBy(Hooks)
  /\ hooks' = [h \in Hooks |-> NoHook]
  /\ midTurn' = [s \in Sessions |-> 0]
  /\ UNCHANGED <<revision, revised, open, delivered, focus, shown, again, focusCalls>>

Less(n) == IF n = 0 THEN 0 ELSE n - 1

\* A hook whose budget is used up stops waiting (daemon.Call's deadline).
Older(k) ==
  IF k.pc = "idle" THEN k
  ELSE LET age == IF k.age < FetchBudget THEN k.age + 1 ELSE k.age
       IN [k EXCEPT !.age = age, !.gone = @ \/ age >= HookBudget]

\* Mutant: a focus lasts until it is cleared.
TickKeepsFocus ==
  /\ midTurn' = [s \in Sessions |-> Less(midTurn[s])]
  /\ hooks' = [h \in Hooks |-> Older(hooks[h])]
  /\ UNCHANGED <<revision, revised, open, delivered, focus, shown, again, lost, focusCalls, faults>>

Tick ==
  /\ focus' = [s \in Sessions |-> Less(focus[s])]
  /\ midTurn' = [s \in Sessions |-> Less(midTurn[s])]
  /\ hooks' = [h \in Hooks |-> Older(hooks[h])]
  /\ UNCHANGED <<revision, revised, open, delivered, shown, again, lost, focusCalls, faults>>

HookStep(h) ==
  \/ BriefFails(h) \/ ClaimTooLate(h) \/ Answer(h)

Next ==
  \/ \E i \in Items : Revise(i) \/ Close(i)
  \/ \E h \in Hooks, s \in Sessions, mid \in BOOLEAN : Call(h, s, mid)
  \/ \E h \in Hooks : HookStep(h) \/ BriefArrives(h) \/ Claim(h) \/ Killed(h)
  \/ \E s \in Sessions, d \in {0, 1, MaxFocus + 1} : SetFocus(s, d)
  \/ \E s \in Sessions : ClearFocus({s})
  \/ ClearFocus(Sessions)
  \/ Crash \/ Tick

AtPrompt(h, s) == hooks[h].s = s /\ ~hooks[h].mid

\* Time passes, a handler that runs goes on, the member keeps submitting prompts,
\* and a backend asked again and again at a prompt answers some call in time.
Fairness ==
  /\ WF_vars(Tick)
  /\ \A h \in Hooks : WF_vars(HookStep(h))
  /\ \A s \in Sessions :
       /\ SF_vars(\E h \in Hooks : ~FocusedUntil(s) /\ Call(h, s, FALSE))
       /\ SF_vars(\E h \in Hooks : AtPrompt(h, s) /\ BriefArrives(h))
       /\ SF_vars(\E h \in Hooks : AtPrompt(h, s) /\ Claim(h))

Spec == Init /\ [][Next]_vars /\ Fairness

-----------------------------------------------------------------------------

\* Every variable has its type; a focus never exceeds MaxFocus whatever
\* duration was asked for (SetFocus), and a call holds a selection only between
\* the brief and the answer.
InjectionTypeOK ==
  /\ revised \in 0..MaxRevisions /\ revision \in [Items -> 0..revised] /\ open \subseteq {i \in Items : revision[i] > 0}
  /\ delivered \in [Sessions -> SUBSET (Items \X Revisions)]
  /\ focus \in [Sessions -> 0..MaxFocus] /\ midTurn \in [Sessions -> 0..Window]
  /\ \A h \in Hooks :
       /\ hooks[h].pc \in {"idle", "fetch", "picked", "answer"}
       /\ hooks[h].s \in Sessions /\ hooks[h].age \in 0..FetchBudget
       /\ (hooks[h].sel # {}) <=> (hooks[h].pc \in {"picked", "answer"})
  /\ shown \in [Sessions -> SUBSET (Items \X Revisions)] /\ again \in [Sessions -> SUBSET (Items \X Revisions)]
  /\ lost \subseteq Sessions \X (Items \X Revisions)

\* A revision of an item is shown to a session's agent at most once, however
\* many hooks of the session run at once and wherever the service stops
\* (UndeliveredInjectionItems is read outside the transaction that claims).
ShownOnce == \A s \in Sessions : again[s] = {}

\* A revision that counts as delivered was shown, or is on its way in the
\* call that claimed it, or was lost with a call nobody waited for: what is cut
\* off by the budget, held back in mid turn or skipped by a focus is not claimed.
NothingRetiredUnread ==
  \A s \in Sessions : \A p \in delivered[s] :
    \/ p \in shown[s]
    \/ <<s, p>> \in lost
    \/ \E h \in Hooks : hooks[h].pc = "answer" /\ hooks[h].s = s /\ p \in hooks[h].sel

\* The open items whose revision a session has neither seen nor lost, and those
\* of them that a brief has room for.
Unseen(s) == {i \in open : <<i, revision[i]>> \notin shown[s] /\ <<s, <<i, revision[i]>>>> \notin lost}

Owed(s) == {i \in Unseen(s) : i \in Range(RenderBrief)}

\* Again and again a session is owed nothing: an open item that a brief has
\* room for reaches it, or is closed or crowded out first, or is lost with a call
\* nobody waited for.  An item the injection has no room for waits for the next
\* one, a focus lapses, a mid-turn window ends, a failed fetch is repeated, and
\* none of it goes on for ever.
CorrectionArrives == \A s \in Sessions : []<>(Owed(s) = {})

\* The same of every open item.  The code does not have it: a brief is rendered
\* anew each time, from the most urgent item on and whatever the session has been
\* told before, so that an item behind a full brief is never reached.
EveryItemArrives == \A s \in Sessions : []<>(Unseen(s) = {})

\* What the comment above the claim asks for: nothing is claimed for a hook
\* that has given up.
ClaimIsWaitedFor ==
  [][\A h \in Hooks : hooks[h].pc = "picked" /\ hooks'[h].pc = "answer" => ~hooks[h].gone]_vars

=============================================================================
