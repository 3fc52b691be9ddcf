------------------------------- MODULE AlertRules -------------------------------
(***************************************************************************)
(* One alert rule: its state machine (rust/alerts/rules.rs) evaluated by   *)
(* the thread that delivers a committed row and by the watchdog            *)
(* (rust/alerts/watchdog.rs, src/expr_tracker/alerts/engine.py).           *)
(*                                                                         *)
(* A pass selects the rule if it is enabled, then takes the lock of the    *)
(* compiled rule, evaluates, and may send a notice before it gives the     *)
(* lock up.  A synchronous backend runs inside send() and may log, which   *)
(* delivers the new row, and so evaluates the rule again, on top of the    *)
(* pass that is sending.  Adding a rule under its name again puts a fresh  *)
(* compiled rule in the table; a pass that selected the old one goes on.   *)
(*                                                                         *)
(* Rows are those that touch the rule's metrics, delivered by the thread   *)
(* that logged them, one thread at a time (CommitQueue has the queue).     *)
(* Whether the condition holds is an input.                                *)
(***************************************************************************)
EXTENDS Integers, Sequences, FiniteSets, SequencesExt

CONSTANTS
    Threads,
    Dog,            \* the thread of the watchdog
    Rules,          \* options of the rule: AlertRule
    MaxErrors,      \* errors in a row that disable it
    MaxRules,       \* bound: times the rule is added
    MaxPasses,      \* bound: passes in a behaviour
    MaxNesting,     \* bound: passes on a thread's stack
    MaxTime         \* bound: clock

ASSUME RulesAssumption ==
    /\ Dog \in Threads
    /\ Rules \subseteq [edge : BOOLEAN, for_steps : Nat \ {0}, cooldown : Nat,
                        max_fires : Nat, notify_recovery : BOOLEAN, time_based : BOOLEAN]
    /\ MaxErrors \in Nat \ {0} /\ MaxRules \in Nat \ {0}
    /\ MaxPasses \in Nat /\ MaxNesting \in Nat /\ MaxTime \in Nat

VARIABLES
    rule,       \* the options
    reentrant,  \* the backend is called from send() and may log
    table,      \* the compiled rule registered under the name, 0 for none
    added,      \* compiled rules so far
    enabled,    \* rule.enabled of each compiled rule
    state,      \* AlertRuleState of each compiled rule
    stack,      \* the passes each thread is in
    clock,
    trace,      \* history: what happened to each compiled rule
    passes      \* how much of the bound is used

ruleVars == <<rule, reentrant>>
vars == <<ruleVars, table, added, enabled, state, stack, clock, trace, passes>>

Ids == 1..MaxRules
States == [consecutive : Nat, firing : BOOLEAN, last_fire : Nat, fires : Nat, errors : Nat]
Frames == [at : {"wait", "lock", "fire", "recovered"}, id : 0..MaxRules,
           step : BOOLEAN, now : Nat]
Events == [what : {"error", "unknown", "false", "true", "fire", "recovered"}, now : Nat]

\* last_fire means something only when fires > 0.
NewState == [consecutive |-> 0, firing |-> FALSE, last_fire |-> 0, fires |-> 0, errors |-> 0]

Init ==
    /\ rule \in Rules /\ reentrant \in BOOLEAN
    /\ table = 1 /\ added = 1
    /\ enabled = [id \in Ids |-> TRUE]
    /\ state = [id \in Ids |-> NewState]
    /\ stack = [t \in Threads |-> <<>>]
    /\ clock = 0
    /\ trace = [id \in Ids |-> <<>>]
    /\ passes = 0

-----------------------------------------------------------------------------
Top(t) == Last(stack[t])
At(t, label) == stack[t] # <<>> /\ Top(t).at = label
MyState(t) == state[Top(t).id]

PushFrame(t, frame) == stack' = [stack EXCEPT ![t] = Append(@, frame)]
Pop(t) == stack' = [stack EXCEPT ![t] = Front(@)]
Resume(t, label, id) ==
    stack' = [stack EXCEPT ![t] = Append(Front(@), [Last(@) EXCEPT !.at = label, !.id = id])]
SendNotice(t, what) ==
    stack' = [stack EXCEPT ![t] = Append(Front(@), [Last(@) EXCEPT !.at = what, !.now = clock])]

Record(t, what, now) ==
    trace' = [trace EXCEPT ![Top(t).id] = Append(@, [what |-> what, now |-> now])]

StartPass == passes < MaxPasses /\ passes' = passes + 1

\* Callbacks of rows run on one thread at a time.
Delivering(t) == \E i \in 1..Len(stack[t]) : stack[t][i].step /\ stack[t][i].at # "wait"

\* Mutants: nobody holds the lock, or a pass waits for its own thread.
Free_Always(t, id) == TRUE
Free_NotMine(t, id) ==
    \A u \in Threads : \A i \in 1..Len(stack[u]) :
      stack[u][i].id = id => stack[u][i].at \in {"wait", "lock"}

\* CompiledRule.lock is an RLock.
Free(t, id) ==
    \A u \in Threads \ {t} : \A i \in 1..Len(stack[u]) :
      stack[u][i].id = id => stack[u][i].at \in {"wait", "lock"}

-----------------------------------------------------------------------------
(* The table                                                               *)

\* A rule of the same name is replaced.
AddRule ==
    /\ added < MaxRules
    /\ added' = added + 1 /\ table' = added + 1
    /\ UNCHANGED <<ruleVars, enabled, state, stack, clock, trace, passes>>

\* (The bound of AddRule keeps a removed rule from being the last.)
RemoveRule ==
    /\ table # 0 /\ added < MaxRules
    /\ table' = 0
    /\ UNCHANGED <<ruleVars, added, enabled, state, stack, clock, trace, passes>>

-----------------------------------------------------------------------------
(* Passes                                                                  *)

\* log(), from a thread's own code or from the backend it is sending with.
Log(t) ==
    /\ StartPass
    /\ \/ t # Dog /\ stack[t] = <<>>
       \/ /\ reentrant /\ stack[t] # <<>> /\ Top(t).at \in {"fire", "recovered"}
          /\ Len(stack[t]) < MaxNesting
    /\ PushFrame(t, [at |-> "wait", id |-> 0, step |-> TRUE, now |-> 0])
    /\ UNCHANGED <<ruleVars, table, added, enabled, state, clock, trace>>

Selected == table # 0 /\ enabled[table]

\* The watchdog looks at rules that depend on time.
Tick ==
    /\ StartPass
    /\ stack[Dog] = <<>> /\ rule.time_based /\ Selected
    /\ PushFrame(Dog, [at |-> "lock", id |-> table, step |-> FALSE, now |-> 0])
    /\ UNCHANGED <<ruleVars, table, added, enabled, state, clock, trace>>

DeliverRow(t) ==
    /\ At(t, "wait")
    /\ \A u \in Threads \ {t} : ~Delivering(u)
    /\ IF Selected THEN Resume(t, "lock", table) ELSE Pop(t)
    /\ UNCHANGED <<ruleVars, table, added, enabled, state, clock, trace, passes>>

\* The pass has the lock and evaluates the rule.  (Nothing it does before it
\* sends can be seen by others, so that is one step.)
Evaluates(t) == At(t, "lock") /\ Free(t, Top(t).id)

Becomes(t, s) == state' = [state EXCEPT ![Top(t).id] = s]

\* Mutant: errors add up over a whole run.
NoError_Kept(s) == s

NoError(s) == [s EXCEPT !.errors = 0]

Fails(t) ==
    /\ Evaluates(t)
    /\ LET s == [MyState(t) EXCEPT !.errors = @ + 1]
       IN  /\ Becomes(t, s)
           /\ enabled' = [enabled EXCEPT ![Top(t).id] = @ /\ s.errors < MaxErrors]
    /\ Record(t, "error", clock) /\ Pop(t)
    /\ UNCHANGED <<ruleVars, table, added, clock, passes>>

Unknown(t) ==
    /\ Evaluates(t)
    /\ Becomes(t, NoError(MyState(t)))
    /\ Record(t, "unknown", clock) /\ Pop(t)
    /\ UNCHANGED <<ruleVars, table, added, enabled, clock, passes>>

\* The condition does not hold: the state is cleared before a recovery is sent.
Clear(t) ==
    /\ Evaluates(t)
    /\ Becomes(t, [NoError(MyState(t)) EXCEPT !.consecutive = 0, !.firing = FALSE])
    /\ Record(t, "false", clock)
    /\ IF MyState(t).firing /\ rule.notify_recovery
       THEN SendNotice(t, "recovered") ELSE Pop(t)
    /\ UNCHANGED <<ruleVars, table, added, enabled, clock, passes>>

\* Mutant: one fire too many.
Due_OneMore(s, now) ==
    /\ s.consecutive >= rule.for_steps
    /\ rule.edge => ~s.firing
    /\ ~rule.edge /\ s.fires > 0 => now - s.last_fire >= rule.cooldown
    /\ s.fires <= rule.max_fires

Due(s, now) ==
    /\ s.consecutive >= rule.for_steps
    /\ rule.edge => ~s.firing
    /\ ~rule.edge /\ s.fires > 0 => now - s.last_fire >= rule.cooldown
    /\ s.fires < rule.max_fires

Hold(t) ==
    /\ Evaluates(t)
    /\ LET s == [NoError(MyState(t)) EXCEPT !.consecutive = @ + 1]
       IN  /\ Becomes(t, s)
           /\ IF Due(s, clock) THEN SendNotice(t, "fire") ELSE Pop(t)
    /\ Record(t, "true", clock)
    /\ UNCHANGED <<ruleVars, table, added, enabled, clock, passes>>

\* AlertRuleState::fired
Fired(s, now) == [s EXCEPT !.firing = TRUE, !.last_fire = now, !.fires = @ + 1]

\* The dispatcher returns; what was sent counts, whatever happened meanwhile.
NoticeSent(t) ==
    /\ stack[t] # <<>> /\ Top(t).at \in {"fire", "recovered"}
    /\ Becomes(t, IF Top(t).at = "fire" THEN Fired(MyState(t), Top(t).now) ELSE MyState(t))
    /\ Record(t, Top(t).at, Top(t).now) /\ Pop(t)
    /\ UNCHANGED <<ruleVars, table, added, enabled, clock, passes>>

AfterFailure(t) == UNCHANGED state

\* Rendering or dispatching raises.
NotSent(t) ==
    /\ stack[t] # <<>> /\ Top(t).at \in {"fire", "recovered"}
    /\ AfterFailure(t)
    /\ Pop(t)
    /\ UNCHANGED <<ruleVars, table, added, enabled, clock, trace, passes>>

Advance ==
    /\ clock < MaxTime
    /\ clock' = clock + 1
    /\ UNCHANGED <<ruleVars, table, added, enabled, state, stack, trace, passes>>

-----------------------------------------------------------------------------
Step(t) ==
    \/ DeliverRow(t)
    \/ Fails(t) \/ Unknown(t) \/ Clear(t) \/ Hold(t)
    \/ NoticeSent(t) \/ NotSent(t)

Next ==
    \/ \E t \in Threads : Log(t) \/ Step(t)
    \/ Tick \/ AddRule \/ RemoveRule \/ Advance

Spec == Init /\ [][Next]_vars

(* Threads are scheduled, locks are granted to whoever keeps asking, and a *)
(* send ends one way or the other.  Nobody has to log.                     *)
FairSpec == Spec /\ \A t \in Threads : WF_vars(Step(t))

-----------------------------------------------------------------------------
Whats(id) == [i \in 1..Len(trace[id]) |-> trace[id][i].what]

(* Notices go with the episodes of the condition: an edge rule that fired  *)
(* does not fire again before the condition was seen not to hold, and a    *)
(* recovery is sent only for a condition that fired and has just cleared.  *)
(* Row delivery and watchdog may evaluate at the same time; a backend that *)
(* logs from inside send() is not promised this.                           *)
Episodes ==
    ~reentrant =>
      \A id \in Ids : LET w == Whats(id) IN \A j \in 1..Len(w) :
        /\ rule.edge /\ w[j] = "fire" =>
             \A i \in 1..(j - 1) : w[i] = "fire" => \E k \in i..j : w[k] = "false"
        /\ w[j] = "recovered" =>
             /\ w[j - 1] = "false"
             /\ \E i \in 1..(j - 2) : w[i] = "fire" /\ \A k \in i..(j - 2) : w[k] # "false"

\* How often something happened between two positions of a trace.
Tally(w, i, j, what) == Cardinality({k \in i..j : w[k] = what})

\* The last n times before position j that the condition was known, it held.
HeldFor(w, j, n) ==
    \E i \in 1..j : Tally(w, i, j, "true") >= n /\ \A k \in i..j : w[k] # "false"

(* A rule fires after the condition held for_steps times in a row, no      *)
(* oftener than max_fires and, in level mode, no sooner than the cooldown  *)
(* allows; and what the state counts is what was sent.                     *)
FiresEarned ==
    \A id \in Ids : LET w == Whats(id) IN
      /\ state[id].fires = Tally(w, 1, Len(w), "fire")
      /\ ~reentrant => \A j \in 1..Len(w) : w[j] = "fire" =>
           /\ HeldFor(w, j, rule.for_steps)
           /\ Tally(w, 1, j, "fire") <= rule.max_fires
           /\ ~rule.edge => \A i \in 1..(j - 1) : w[i] = "fire" =>
                trace[id][j].now - trace[id][i].now >= rule.cooldown

\* The condition was evaluated without an error.
Evaluated == {"unknown", "false", "true"}

(* A rule is disabled by MaxErrors failures in a row, and for good: what   *)
(* still evaluates it had selected it before.                              *)
DisabledForErrors ==
    \A id \in Ids : LET w == Whats(id) IN
      ~enabled[id] <=>
        \E i, j \in 1..Len(w) :
          Tally(w, i, j, "error") >= MaxErrors /\ \A k \in i..j : w[k] \notin Evaluated

(* Every pass ends, so log() returns and the watchdog goes on: a backend   *)
(* that logs does not wait for its own thread.  (With a watchdog and such  *)
(* a backend it may wait for ever, which is excluded here.)                *)
PassesEnd ==
    \A t \in Threads :
      stack[t] # <<>> ~> stack[t] = <<>> \/ (reentrant /\ rule.time_based)

=============================================================================
