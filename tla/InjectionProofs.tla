--------------------------- MODULE InjectionProofs --------------------------
(***************************************************************************)
(* What an agent is shown, for every number of sessions, items and hooks   *)
(* and every budget: no revision of an item is shown to a session twice,   *)
(* and none is retired that nobody claimed.  The argument does not depend  *)
(* on what a brief contains or on what fits: whatever is picked, only the  *)
(* claim decides who shows it.                                             *)
(***************************************************************************)
EXTENDS Injection, TLAPS

Pairs == Items \X Revisions

HookRecords ==
  [pc : {"idle", "fetch", "picked", "answer"}, s : Sessions, mid : BOOLEAN,
   age : 0..FetchBudget, gone : BOOLEAN, sel : SUBSET Pairs]

HooksTyped ==
  /\ hooks \in [Hooks -> HookRecords]
  /\ \A h \in Hooks : (hooks[h].sel # {}) <=> (hooks[h].pc \in {"picked", "answer"})

BackendTyped ==
  /\ revised \in 0..MaxRevisions /\ revision \in [Items -> 0..revised]
  /\ open \subseteq {i \in Items : revision[i] > 0}

ClocksTyped == focus \in [Sessions -> 0..MaxFocus] /\ midTurn \in [Sessions -> 0..Window]

RowsTyped ==
  /\ delivered \in [Sessions -> SUBSET Pairs]
  /\ shown \in [Sessions -> SUBSET Pairs] /\ again \in [Sessions -> SUBSET Pairs]
  /\ lost \subseteq Sessions \X Pairs

Typed == HooksTyped /\ BackendTyped /\ ClocksTyped /\ RowsTyped

\* The hooks that hold a claim of session s.
Claimants(s) == {h \in Hooks : hooks[h].pc = "answer" /\ hooks[h].s = s}

\* A claim is recorded and nobody else has shown it or is going to.
ClaimsApart ==
  \A s \in Sessions :
    /\ shown[s] \subseteq delivered[s]
    /\ \A h \in Claimants(s) :
         /\ hooks[h].sel \subseteq delivered[s] /\ hooks[h].sel \cap shown[s] = {}
         /\ \A g \in Claimants(s) : g # h => hooks[g].sel \cap hooks[h].sel = {}

-----------------------------------------------------------------------------
\* Types.

\* A hook that is idle.
LEMMA NoHookType == NoHook \in HookRecords /\ NoHook.pc = "idle" /\ NoHook.sel = {}
BY InjectionAssumption DEF NoHook, HookRecords

\* What is picked of a brief are current revisions of items.
LEMMA LatestType == BackendTyped => Latest \subseteq Pairs
BY InjectionAssumption DEF BackendTyped, Latest, Pairs, Revisions

\* A hook keeps its fields while one of them changes.
LEMMA HookReplaced ==
  ASSUME HooksTyped, NEW h \in Hooks, NEW k \in HookRecords,
         (k.sel # {}) <=> (k.pc \in {"picked", "answer"}), hooks' = [hooks EXCEPT ![h] = k]
  PROVE  HooksTyped'
BY DEF HooksTyped

\* The initial state has its types.
LEMMA InitTyped == Init => Typed
<1> SUFFICES ASSUME Init PROVE Typed
  OBVIOUS
<1>1. HooksTyped
  BY NoHookType DEF Init, HooksTyped
<1> QED
  BY <1>1, InjectionAssumption DEF Init, Typed, BackendTyped, ClocksTyped, RowsTyped

\* The hooks keep their fields.
LEMMA HooksStep == Typed /\ [Next]_vars => HooksTyped'
<1> SUFFICES ASSUME Typed, [Next]_vars PROVE HooksTyped'
  OBVIOUS
<1> USE DEF Typed
<1>1. CASE hooks' = hooks
  BY <1>1 DEF HooksTyped
<1>2. ASSUME NEW h \in Hooks, hooks' = [hooks EXCEPT ![h] = NoHook] PROVE HooksTyped'
  BY <1>2, NoHookType, HookReplaced
<1>3. ASSUME NEW h \in Hooks, NEW s \in Sessions, NEW mid \in BOOLEAN, Call(h, s, mid) PROVE HooksTyped'
  <2>1. CASE hooks' = [hooks EXCEPT ![h] = [NoHook EXCEPT !.pc = "fetch", !.s = s, !.mid = mid]]
    <3>1. [NoHook EXCEPT !.pc = "fetch", !.s = s, !.mid = mid] \in HookRecords
      BY NoHookType DEF HookRecords
    <3>2. [NoHook EXCEPT !.pc = "fetch", !.s = s, !.mid = mid].sel = {}
          /\ [NoHook EXCEPT !.pc = "fetch", !.s = s, !.mid = mid].pc = "fetch"
      BY NoHookType DEF HookRecords
    <3> QED
      BY <2>1, <3>1, <3>2, HookReplaced
  <2> QED
    BY <1>1, <1>3, <2>1 DEF Call
<1>4. ASSUME NEW h \in Hooks, BriefArrives(h) PROVE HooksTyped'
  <2>1. PICK x \in SUBSET Latest :
          hooks' = [hooks EXCEPT ![h] = IF x = {} THEN NoHook ELSE [hooks[h] EXCEPT !.pc = "picked", !.sel = x]]
    BY <1>4 DEF BriefArrives, HooksTyped
  <2>2. x \in SUBSET Pairs /\ hooks[h] \in HookRecords
    BY LatestType DEF HooksTyped
  <2>3. CASE x # {}
    <3>1. /\ [hooks[h] EXCEPT !.pc = "picked", !.sel = x] \in HookRecords
          /\ [hooks[h] EXCEPT !.pc = "picked", !.sel = x].pc = "picked"
          /\ [hooks[h] EXCEPT !.pc = "picked", !.sel = x].sel = x
      BY <2>2 DEF HookRecords
    <3> QED
      BY <2>1, <2>3, <3>1, HookReplaced
  <2> QED
    BY <1>2, <2>1, <2>3
<1>5. ASSUME NEW h \in Hooks, Claim(h) PROVE HooksTyped'
  <2>1. PICK x \in SUBSET hooks[h].sel :
          hooks' = [hooks EXCEPT ![h] = IF x = {} THEN NoHook ELSE [hooks[h] EXCEPT !.pc = "answer", !.sel = x]]
    BY <1>5 DEF Claim, ClaimDeliveries, HooksTyped
  <2>2. x \in SUBSET Pairs /\ hooks[h] \in HookRecords
    BY DEF HooksTyped, HookRecords
  <2>3. CASE x # {}
    <3>1. /\ [hooks[h] EXCEPT !.pc = "answer", !.sel = x] \in HookRecords
          /\ [hooks[h] EXCEPT !.pc = "answer", !.sel = x].pc = "answer"
          /\ [hooks[h] EXCEPT !.pc = "answer", !.sel = x].sel = x
      BY <2>2 DEF HookRecords
    <3> QED
      BY <2>1, <2>3, <3>1, HookReplaced
  <2> QED
    BY <1>2, <2>1, <2>3
<1>6. ASSUME NEW h \in Hooks, Killed(h) PROVE HooksTyped'
  <2>1. hooks[h] \in HookRecords /\ hooks' = [hooks EXCEPT ![h] = [hooks[h] EXCEPT !.gone = TRUE]]
    BY <1>6 DEF HooksTyped, Killed
  <2>2. /\ [hooks[h] EXCEPT !.gone = TRUE] \in HookRecords
        /\ [hooks[h] EXCEPT !.gone = TRUE].pc = hooks[h].pc
        /\ [hooks[h] EXCEPT !.gone = TRUE].sel = hooks[h].sel
    BY <2>1 DEF HookRecords
  <2> QED
    BY <2>1, <2>2, HookReplaced DEF HooksTyped
<1>7. ASSUME Tick PROVE HooksTyped'
  <2>1. ASSUME NEW k \in HookRecords
        PROVE  Older(k) \in HookRecords /\ Older(k).pc = k.pc /\ Older(k).sel = k.sel
    <3> DEFINE age == IF k.age < FetchBudget THEN k.age + 1 ELSE k.age
               gone == k.gone \/ age >= HookBudget
    <3>1. age \in 0..FetchBudget /\ gone \in BOOLEAN
      BY InjectionAssumption DEF HookRecords
    <3>2. Older(k) = IF k.pc = "idle" THEN k ELSE [k EXCEPT !.age = age, !.gone = gone]
      BY DEF Older
    <3> HIDE DEF age, gone
    <3> QED
      BY <3>1, <3>2 DEF HookRecords
  <2> QED
    BY <1>7, <2>1 DEF Tick, HooksTyped
<1>8. ASSUME Crash PROVE HooksTyped'
  BY <1>8, NoHookType DEF Crash, HooksTyped
<1>9. ASSUME NEW h \in Hooks, HookStep(h) PROVE HooksTyped'
  BY <1>2, <1>9 DEF HookStep, BriefFails, ClaimTooLate, Answer, Returned
<1> QED
  BY <1>1, <1>3, <1>4, <1>5, <1>6, <1>7, <1>8, <1>9 DEF Next, vars, Revise, Close, SetFocus, ClearFocus

\* So do the clocks, the items and the rows.
LEMMA OthersStep == Typed /\ [Next]_vars => (BackendTyped /\ ClocksTyped /\ RowsTyped)'
<1> SUFFICES ASSUME Typed, [Next]_vars PROVE (BackendTyped /\ ClocksTyped /\ RowsTyped)'
  OBVIOUS
<1> USE InjectionAssumption DEF Typed
<1>1. BackendTyped'
  <2>1. ASSUME NEW i \in Items, Revise(i) PROVE BackendTyped'
    BY <2>1 DEF Revise, BackendTyped
  <2>2. ASSUME NEW i \in Items, Close(i) PROVE BackendTyped'
    BY <2>2 DEF Close, BackendTyped
  <2>3. CASE UNCHANGED <<revision, revised, open>>
    BY <2>3 DEF BackendTyped
  <2> QED
    BY <2>1, <2>2, <2>3 DEF Next, vars, Call, HookStep, BriefFails, ClaimTooLate, Answer, BriefArrives, Claim,
       Killed, SetFocus, ClearFocus, Crash, Tick
<1>2. ClocksTyped'
  <2>1. ASSUME NEW h \in Hooks, NEW s \in Sessions, NEW mid \in BOOLEAN, Call(h, s, mid) PROVE ClocksTyped'
    BY <2>1 DEF Call, ClocksTyped
  <2>2. ASSUME NEW s \in Sessions, NEW d \in {0, 1, MaxFocus + 1}, SetFocus(s, d) PROVE ClocksTyped'
    BY <2>2 DEF SetFocus, FocusFor, ClocksTyped
  <2>3. ASSUME NEW S, ClearFocus(S) PROVE ClocksTyped'
    BY <2>3 DEF ClearFocus, ClocksTyped
  <2>4. CASE Crash \/ Tick
    BY <2>4 DEF Crash, Tick, Less, ClocksTyped
  <2>5. CASE UNCHANGED <<focus, midTurn>>
    BY <2>5 DEF ClocksTyped
  <2> QED
    BY <2>1, <2>2, <2>3, <2>4, <2>5 DEF Next, vars, Revise, Close, HookStep, BriefFails, ClaimTooLate, Answer,
       BriefArrives, Claim, Killed
<1>3. RowsTyped'
  <2>1. \A H \in SUBSET Hooks : LostBy(H) \subseteq Sessions \X Pairs
    BY DEF LostBy, HooksTyped, HookRecords
  <2>2. ASSUME NEW h \in Hooks, Claim(h) PROVE RowsTyped'
    BY <2>2 DEF Claim, ClaimDeliveries, RowsTyped, HooksTyped, HookRecords
  <2>3. ASSUME NEW h \in Hooks, Answer(h) PROVE RowsTyped'
    BY <2>1, <2>3 DEF Answer, RowsTyped, HooksTyped, HookRecords
  <2>4. CASE Crash
    BY <2>1, <2>4 DEF Crash, RowsTyped
  <2>5. CASE UNCHANGED <<delivered, shown, again, lost>>
    BY <2>5 DEF RowsTyped
  <2> QED
    BY <2>2, <2>3, <2>4, <2>5 DEF Next, vars, Revise, Close, Call, HookStep, BriefFails, ClaimTooLate,
       BriefArrives, Killed, SetFocus, ClearFocus, Tick
<1> QED
  BY <1>1, <1>2, <1>3

-----------------------------------------------------------------------------
\* Claims.

\* The claims after a step are claims before it, or the step let them go.
ClaimsKept(H) ==
  \A h \in Hooks :
    IF h \in H THEN hooks'[h].pc # "answer"
    ELSE \/ hooks'[h].pc = hooks[h].pc /\ hooks'[h].s = hooks[h].s /\ hooks'[h].sel = hooks[h].sel
         \/ hooks[h].pc # "answer" /\ hooks'[h].pc # "answer"

\* Every step but a claim and an answer claims and shows nothing, and only a stop
\* lets claims go.
LEMMA QuietStep ==
  ASSUME Typed, [Next]_vars, ~\E h \in Hooks : Claim(h) \/ Answer(h)
  PROVE  /\ UNCHANGED <<delivered, shown, again>>
         /\ \/ ClaimsKept({}) /\ lost' = lost
            \/ ClaimsKept(Hooks) /\ lost' = lost \cup LostBy(Hooks)
<1> DEFINE Quiet == UNCHANGED <<delivered, shown, again, lost>> /\ ClaimsKept({})
<1> USE DEF Typed, HooksTyped
<1>1. ASSUME NEW h \in Hooks, NEW s \in Sessions, NEW mid \in BOOLEAN, Call(h, s, mid) PROVE Quiet
  <2>1. UNCHANGED <<delivered, shown, again, lost>> /\ hooks[h].pc = "idle"
    BY <1>1 DEF Call
  <2>2. CASE hooks' = hooks
    BY <2>1, <2>2 DEF ClaimsKept
  <2>3. CASE hooks' = [hooks EXCEPT ![h] = [NoHook EXCEPT !.pc = "fetch", !.s = s, !.mid = mid]]
    <3>1. [NoHook EXCEPT !.pc = "fetch", !.s = s, !.mid = mid].pc = "fetch"
      BY NoHookType DEF HookRecords
    <3> QED
      BY <2>1, <2>3, <3>1 DEF ClaimsKept
  <2> QED
    BY <1>1, <2>2, <2>3 DEF Call
<1>2. ASSUME NEW h \in Hooks, BriefFails(h) \/ ClaimTooLate(h) PROVE Quiet
  <2>1. UNCHANGED <<delivered, shown, again, lost>> /\ hooks[h].pc # "answer"
    BY <1>2 DEF BriefFails, ClaimTooLate
  <2>2. hooks' = [hooks EXCEPT ![h] = NoHook]
    BY <1>2 DEF BriefFails, ClaimTooLate, Returned
  <2> QED
    BY <2>1, <2>2, NoHookType DEF ClaimsKept
<1>3. ASSUME NEW h \in Hooks, BriefArrives(h) PROVE Quiet
  <2>1. UNCHANGED <<delivered, shown, again, lost>> /\ hooks[h].pc = "fetch"
    BY <1>3 DEF BriefArrives
  <2>2. PICK x \in SUBSET Latest :
          hooks' = [hooks EXCEPT ![h] = IF x = {} THEN NoHook ELSE [hooks[h] EXCEPT !.pc = "picked", !.sel = x]]
    BY <1>3 DEF BriefArrives
  <2>3. [hooks[h] EXCEPT !.pc = "picked", !.sel = x].pc = "picked"
    BY DEF HookRecords
  <2>4. hooks'[h].pc # "answer" /\ \A g \in Hooks : g # h => hooks'[g] = hooks[g]
    BY <2>2, <2>3, NoHookType
  <2> QED
    BY <2>1, <2>4 DEF ClaimsKept
<1>4. ASSUME NEW h \in Hooks, Killed(h) PROVE Quiet
  <2>1. UNCHANGED <<delivered, shown, again, lost>> /\ hooks' = [hooks EXCEPT ![h] = [hooks[h] EXCEPT !.gone = TRUE]]
    BY <1>4 DEF Killed
  <2>2. /\ [hooks[h] EXCEPT !.gone = TRUE].pc = hooks[h].pc
        /\ [hooks[h] EXCEPT !.gone = TRUE].s = hooks[h].s
        /\ [hooks[h] EXCEPT !.gone = TRUE].sel = hooks[h].sel
    BY DEF HookRecords
  <2> QED
    BY <2>1, <2>2 DEF ClaimsKept
<1>5. ASSUME Tick PROVE Quiet
  <2>1. ASSUME NEW k \in HookRecords
        PROVE  Older(k).pc = k.pc /\ Older(k).s = k.s /\ Older(k).sel = k.sel
    BY DEF Older, HookRecords
  <2> QED
    BY <1>5, <2>1 DEF Tick, ClaimsKept
<1>6. ASSUME Crash
      PROVE  UNCHANGED <<delivered, shown, again>> /\ ClaimsKept(Hooks) /\ lost' = lost \cup LostBy(Hooks)
  BY <1>6, NoHookType DEF Crash, ClaimsKept
<1>7. ASSUME UNCHANGED <<delivered, shown, again, lost, hooks>> PROVE Quiet
  BY <1>7 DEF ClaimsKept
<1> HIDE DEF Quiet
<1>8. \/ Quiet
      \/ UNCHANGED <<delivered, shown, again>> /\ ClaimsKept(Hooks) /\ lost' = lost \cup LostBy(Hooks)
  BY <1>1, <1>2, <1>3, <1>4, <1>5, <1>6, <1>7 DEF Next, HookStep, Revise, Close, SetFocus, ClearFocus, vars
<1> QED
  BY <1>8 DEF Quiet

\* A claim takes over what its session did not have yet.
LEMMA ClaimTakes ==
  ASSUME Typed, NEW h \in Hooks, Claim(h)
  PROVE  LET s == hooks[h].s
             got == hooks[h].sel \ delivered[s]
         IN /\ UNCHANGED <<shown, again, lost>> /\ s \in Sessions
            /\ delivered'[s] = delivered[s] \cup got
            /\ \A t \in Sessions : t # s => delivered'[t] = delivered[t]
            /\ hooks[h].pc = "picked" /\ \A g \in Hooks : g # h => hooks'[g] = hooks[g]
            /\ IF got = {} THEN hooks'[h].pc = "idle"
               ELSE hooks'[h].pc = "answer" /\ hooks'[h].s = s /\ hooks'[h].sel = got
<1> DEFINE k == hooks[h]
           got == k.sel \ delivered[k.s]
<1>1. k \in HookRecords /\ k.s \in Sessions
  BY DEF Typed, HooksTyped, HookRecords
<1>2. /\ UNCHANGED <<shown, again, lost>> /\ k.pc = "picked"
      /\ delivered' = [delivered EXCEPT ![k.s] = delivered[k.s] \cup k.sel]
      /\ hooks' = [hooks EXCEPT ![h] = IF got = {} THEN NoHook ELSE [k EXCEPT !.pc = "answer", !.sel = got]]
  BY DEF Claim, ClaimDeliveries, Typed, HooksTyped
<1>3. delivered'[k.s] = delivered[k.s] \cup got /\ \A t \in Sessions : t # k.s => delivered'[t] = delivered[t]
  BY <1>1, <1>2 DEF Typed, RowsTyped
<1>4. got \in SUBSET Pairs
  BY <1>1 DEF HookRecords
<1>5. PICK x \in SUBSET Pairs : x = got
  BY <1>4
<1>6. LET n == [k EXCEPT !.pc = "answer", !.sel = x] IN n.pc = "answer" /\ n.s = k.s /\ n.sel = x
  BY <1>1 DEF HookRecords
<1> QED
  BY <1>1, <1>2, <1>3, <1>5, <1>6, NoHookType DEF Typed, HooksTyped

\* An answer shows what its hook claimed, or loses it.
LEMMA AnswerEnds ==
  ASSUME Typed, NEW h \in Hooks, Answer(h)
  PROVE  LET s == hooks[h].s
         IN /\ delivered' = delivered /\ s \in Sessions
            /\ hooks[h].pc = "answer" /\ hooks'[h].pc = "idle"
            /\ \A g \in Hooks : g # h => hooks'[g] = hooks[g]
            /\ \/ /\ UNCHANGED <<shown, again>> /\ lost' = lost \cup LostBy({h})
               \/ /\ lost' = lost
                  /\ shown'[s] = shown[s] \cup hooks[h].sel
                  /\ again'[s] = again[s] \cup (hooks[h].sel \cap shown[s])
                  /\ \A t \in Sessions : t # s => shown'[t] = shown[t] /\ again'[t] = again[t]
BY NoHookType DEF Answer, Returned, Typed, HooksTyped, HookRecords, RowsTyped

\* Claims stay apart: what a session received is not claimed for it again, however
\* many of its hooks picked it.
LEMMA ApartStep == Typed /\ ClaimsApart /\ [Next]_vars => ClaimsApart'
<1> SUFFICES ASSUME Typed, ClaimsApart, [Next]_vars PROVE ClaimsApart'
  OBVIOUS
<1>1. CASE ~\E h \in Hooks : Claim(h) \/ Answer(h)
  <2>1. UNCHANGED <<delivered, shown>>
    BY <1>1, QuietStep
  <2>2. \A s \in Sessions : \A h \in Claimants(s)' : h \in Claimants(s) /\ hooks'[h].sel = hooks[h].sel
    <3>1. ClaimsKept({}) \/ ClaimsKept(Hooks)
      BY <1>1, QuietStep
    <3> QED
      BY <3>1 DEF ClaimsKept, Claimants
  <2> QED
    BY <2>1, <2>2 DEF ClaimsApart
<1>2. ASSUME NEW h \in Hooks, Claim(h) PROVE ClaimsApart'
  <2> DEFINE s == hooks[h].s
             got == hooks[h].sel \ delivered[s]
  <2>1. /\ shown' = shown /\ s \in Sessions
        /\ delivered'[s] = delivered[s] \cup got
        /\ \A t \in Sessions : t # s => delivered'[t] = delivered[t]
        /\ \A g \in Hooks : g # h => hooks'[g] = hooks[g]
        /\ IF got = {} THEN hooks'[h].pc = "idle"
           ELSE hooks'[h].pc = "answer" /\ hooks'[h].s = s /\ hooks'[h].sel = got
    BY <1>2, ClaimTakes
  <2>2. \A t \in Sessions : \A g \in Claimants(t)' :
          \/ g \in Claimants(t) /\ g # h /\ hooks'[g].sel = hooks[g].sel
          \/ g = h /\ t = s /\ hooks'[g].sel = got
    BY <2>1 DEF Claimants
  <2>3. \A t \in Sessions : \A g \in Claimants(t) : hooks[g].sel \subseteq delivered[t]
    BY DEF ClaimsApart
  <2>4. \A g \in Claimants(s) : hooks[g].sel \cap got = {}
    BY <2>1, <2>3
  <2>5. shown[s] \cap got = {}
    BY <2>1 DEF ClaimsApart
  <2> HIDE DEF s, got
  <2>6. ASSUME NEW t \in Sessions
        PROVE  /\ shown'[t] \subseteq delivered'[t]
               /\ \A g \in Claimants(t)' : /\ hooks'[g].sel \subseteq delivered'[t]
                                          /\ hooks'[g].sel \cap shown'[t] = {}
    BY <2>1, <2>2, <2>5 DEF ClaimsApart
  <2>7. ASSUME NEW t \in Sessions, NEW f \in Claimants(t)', NEW g \in Claimants(t)', f # g
        PROVE  hooks'[f].sel \cap hooks'[g].sel = {}
    <3>1. CASE f # h /\ g # h
      BY <2>2, <2>7, <3>1 DEF ClaimsApart
    <3>2. CASE f = h \/ g = h
      BY <2>2, <2>4, <2>7, <3>2
    <3> QED
      BY <3>1, <3>2
  <2> QED
    BY <2>6, <2>7 DEF ClaimsApart
<1>3. ASSUME NEW h \in Hooks, Answer(h) PROVE ClaimsApart'
  <2> DEFINE s == hooks[h].s
  <2>1. /\ delivered' = delivered /\ s \in Sessions /\ hooks[h].pc = "answer" /\ hooks'[h].pc = "idle"
        /\ \A g \in Hooks : g # h => hooks'[g] = hooks[g]
        /\ \/ shown' = shown
           \/ /\ shown'[s] = shown[s] \cup hooks[h].sel
              /\ \A t \in Sessions : t # s => shown'[t] = shown[t]
    BY <1>3, AnswerEnds
  <2>2. \A t \in Sessions : \A g \in Claimants(t)' : g \in Claimants(t) /\ g # h /\ hooks'[g].sel = hooks[g].sel
    BY <2>1 DEF Claimants
  <2>3. h \in Claimants(s)
    BY <2>1 DEF Claimants
  <2>4. \A g \in Claimants(s) : g # h => hooks[g].sel \cap hooks[h].sel = {}
    BY <2>1, <2>3 DEF ClaimsApart
  <2>5. hooks[h].sel \subseteq delivered[s]
    BY <2>1, <2>3 DEF ClaimsApart
  <2> HIDE DEF s
  <2>6. \A t \in Sessions : shown'[t] \subseteq delivered'[t]
    BY <2>1, <2>5 DEF ClaimsApart
  <2>7. ASSUME NEW t \in Sessions, NEW g \in Claimants(t)'
        PROVE  hooks'[g].sel \subseteq delivered'[t] /\ hooks'[g].sel \cap shown'[t] = {}
    <3>1. g \in Claimants(t) /\ g # h /\ hooks'[g].sel = hooks[g].sel
      BY <2>2, <2>7
    <3>2. hooks[g].sel \subseteq delivered[t] /\ hooks[g].sel \cap shown[t] = {}
      BY <3>1 DEF ClaimsApart
    <3> QED
      BY <2>1, <2>4, <3>1, <3>2
  <2>8. ASSUME NEW t \in Sessions, NEW f \in Claimants(t)', NEW g \in Claimants(t)', f # g
        PROVE  hooks'[f].sel \cap hooks'[g].sel = {}
    BY <2>2, <2>8 DEF ClaimsApart
  <2> QED
    BY <2>6, <2>7, <2>8 DEF ClaimsApart
<1> QED
  BY <1>1, <1>2, <1>3

\* What is shown was not shown before.
LEMMA OnceStep == Typed /\ ClaimsApart /\ ShownOnce /\ [Next]_vars => ShownOnce'
<1> SUFFICES ASSUME Typed, ClaimsApart, ShownOnce, [Next]_vars PROVE ShownOnce'
  OBVIOUS
<1>1. CASE again' = again
  BY <1>1 DEF ShownOnce
<1>2. CASE again' # again
  <2>1. PICK h \in Hooks : Answer(h)
    <3>1. ASSUME NEW h \in Hooks, Claim(h) PROVE FALSE
      BY <1>2, <3>1 DEF Claim
    <3> QED
      BY <1>2, <3>1, QuietStep
  <2>2. /\ hooks[h].s \in Sessions /\ hooks[h].pc = "answer"
        /\ again'[hooks[h].s] = again[hooks[h].s] \cup (hooks[h].sel \cap shown[hooks[h].s])
        /\ \A t \in Sessions : t # hooks[h].s => again'[t] = again[t]
    BY <1>2, <2>1, AnswerEnds
  <2>3. hooks[h].sel \cap shown[hooks[h].s] = {}
    BY <2>2 DEF ClaimsApart, Claimants
  <2> QED
    BY <2>2, <2>3 DEF ShownOnce
<1> QED
  BY <1>1, <1>2

\* What is claimed is shown, or lost with the call that claimed it.
LEMMA RetiredStep == Typed /\ NothingRetiredUnread /\ [Next]_vars => NothingRetiredUnread'
<1> SUFFICES ASSUME Typed, NothingRetiredUnread, [Next]_vars,
                    NEW t \in Sessions, NEW p \in delivered'[t]
             PROVE  \/ p \in shown'[t] \/ <<t, p>> \in lost'
                    \/ \E h \in Hooks : hooks'[h].pc = "answer" /\ hooks'[h].s = t /\ p \in hooks'[h].sel
  BY DEF NothingRetiredUnread
<1> DEFINE Held == \E h \in Hooks : hooks[h].pc = "answer" /\ hooks[h].s = t /\ p \in hooks[h].sel
<1>1. p \in delivered[t] => p \in shown[t] \/ <<t, p>> \in lost \/ Held
  BY DEF NothingRetiredUnread
<1>2. CASE ~\E h \in Hooks : Claim(h) \/ Answer(h)
  <2>1. delivered' = delivered /\ shown' = shown
    BY <1>2, QuietStep
  <2>2. CASE ClaimsKept({}) /\ lost' = lost
    BY <1>1, <2>1, <2>2 DEF ClaimsKept
  <2>3. CASE lost' = lost \cup LostBy(Hooks)
    BY <1>1, <2>1, <2>3 DEF LostBy
  <2> QED
    BY <1>2, <2>2, <2>3, QuietStep
<1>3. ASSUME NEW h \in Hooks, Claim(h)
      PROVE  \/ p \in shown'[t] \/ <<t, p>> \in lost'
             \/ \E g \in Hooks : hooks'[g].pc = "answer" /\ hooks'[g].s = t /\ p \in hooks'[g].sel
  <2> DEFINE s == hooks[h].s
             got == hooks[h].sel \ delivered[s]
  <2>1. /\ UNCHANGED <<shown, lost>> /\ s \in Sessions /\ hooks[h].pc = "picked"
        /\ delivered'[s] = delivered[s] \cup got
        /\ t # s => delivered'[t] = delivered[t]
        /\ \A g \in Hooks : g # h => hooks'[g] = hooks[g]
        /\ IF got = {} THEN hooks'[h].pc = "idle"
           ELSE hooks'[h].pc = "answer" /\ hooks'[h].s = s /\ hooks'[h].sel = got
    BY <1>3, ClaimTakes
  <2>2. CASE p \in delivered[t]
    BY <1>1, <2>1, <2>2
  <2>3. CASE p \notin delivered[t]
    BY <2>1, <2>3
  <2> QED
    BY <2>2, <2>3
<1>4. ASSUME NEW h \in Hooks, Answer(h)
      PROVE  \/ p \in shown'[t] \/ <<t, p>> \in lost'
             \/ \E g \in Hooks : hooks'[g].pc = "answer" /\ hooks'[g].s = t /\ p \in hooks'[g].sel
  <2>1. /\ delivered' = delivered /\ hooks[h].pc = "answer"
        /\ \A g \in Hooks : g # h => hooks'[g] = hooks[g]
        /\ \/ shown' = shown /\ lost' = lost \cup LostBy({h})
           \/ /\ lost' = lost /\ shown'[hooks[h].s] = shown[hooks[h].s] \cup hooks[h].sel
              /\ t # hooks[h].s => shown'[t] = shown[t]
    BY <1>4, AnswerEnds
  <2>2. CASE p \in shown[t] \/ <<t, p>> \in lost
    BY <2>1, <2>2
  <2>3. ASSUME NEW g \in Hooks, hooks[g].pc = "answer", hooks[g].s = t, p \in hooks[g].sel
        PROVE  \/ p \in shown'[t] \/ <<t, p>> \in lost'
               \/ \E f \in Hooks : hooks'[f].pc = "answer" /\ hooks'[f].s = t /\ p \in hooks'[f].sel
    <3>1. CASE g # h
      BY <2>1, <2>3, <3>1
    <3>2. CASE g = h
      <4>1. <<t, p>> \in LostBy({h})
        BY <2>3, <3>2 DEF LostBy
      <4> QED
        BY <2>1, <2>3, <3>2, <4>1
    <3> QED
      BY <3>1, <3>2
  <2> QED
    BY <1>1, <2>1, <2>2, <2>3
<1> QED
  BY <1>2, <1>3, <1>4

-----------------------------------------------------------------------------

\* The inductive invariant.
InjectionInv == Typed /\ ClaimsApart /\ ShownOnce /\ NothingRetiredUnread

\* It holds of every reachable state.
LEMMA InjectionInvariant == Spec => []InjectionInv
<1>1. Init => InjectionInv
  <2> SUFFICES ASSUME Init PROVE InjectionInv
    OBVIOUS
  <2>1. Typed
    BY InitTyped
  <2>2. \A h \in Hooks : hooks[h].pc = "idle"
    BY NoHookType DEF Init
  <2> QED
    BY <2>1, <2>2 DEF Init, InjectionInv, ClaimsApart, Claimants, ShownOnce, NothingRetiredUnread
<1>2. InjectionInv /\ [Next]_vars => InjectionInv'
  BY HooksStep, OthersStep, ApartStep, OnceStep, RetiredStep DEF InjectionInv, Typed
<1> QED
  BY <1>1, <1>2, PTL DEF Spec

\* Every variable has its type, a focus within MaxFocus whatever duration was asked
\* for (SetFocus), a selection only between the brief and the answer.
THEOREM InjectionTyped == Spec => []InjectionTypeOK
<1>1. InjectionInv => InjectionTypeOK
  BY DEF InjectionInv, Typed, HooksTyped, HookRecords, BackendTyped, ClocksTyped, RowsTyped, Pairs,
     InjectionTypeOK
<1> QED
  BY <1>1, InjectionInvariant, PTL

\* A revision of an item is shown to a session's agent at most once, however many
\* hooks of the session fetch it before one of them claims it
\* (ClaimInjectionDeliveries).
THEOREM NeverShownTwice == Spec => []ShownOnce
BY InjectionInvariant, PTL DEF InjectionInv

\* A revision that counts as delivered was shown, is on its way in the call that
\* claimed it, or was lost with a call nobody waited for (handleAgentInjection).
THEOREM RetiredWasClaimed == Spec => []NothingRetiredUnread
BY InjectionInvariant, PTL DEF InjectionInv
=============================================================================
