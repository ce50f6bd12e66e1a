------------------------------- MODULE Smoke -------------------------------
(***************************************************************************)
(* a10/smoke.c: an agent offers two of three resources at a time; a helper *)
(* per resource notes its arrival, and the one that completes a pair wakes *)
(* the smoker who has the third.  All threads share the agent's mutex; a   *)
(* step runs from the return of one uthread_cond_wait to the next.         *)
(***************************************************************************)
EXTENDS Naturals, FiniteSets, Waiting

CONSTANT Iterations     \* NUM_ITERATIONS

VARIABLES
    waiters,            \* the queue of each condition variable
    have,               \* helper->match, helper->paper, helper->tobacco
    num_active_threads,
    offered,            \* i of agent
    signal_count,
    smoke_count,
    woken,              \* threads taken off a queue that have not run since
    pc                  \* the wait a thread is at

vars == <<waiters, have, num_active_threads, offered, signal_count, smoke_count, woken, pc>>

Resource == {"match", "paper", "tobacco"}
Pairs == {r \in SUBSET Resource : Cardinality(r) = 2}

\* The resource a pair lacks: matching_smoker.
Smoker(pair) == CHOOSE r \in Resource : r \notin pair

Agent == <<"agent">>
HelperOf(r) == <<"helper", r>>
SmokerOf(r) == <<"smoker", r>>
Threads == {Agent} \cup {HelperOf(r) : r \in Resource} \cup {SmokerOf(r) : r \in Resource}

\* The condition variables: one for each resource, one for each smoker's pair
\* (tobaccoPaper is the smoker's with a match), helper->helperSmoke that all
\* smokers signal, and agent->smoke.
Res(r) == <<"res", r>>
PairOf(r) == <<"pair", r>>
HelperSmoke == <<"helperSmoke">>
AgentSmoke == <<"smoke">>
Conds == {Res(r) : r \in Resource} \cup {PairOf(r) : r \in Resource} \cup {HelperSmoke, AgentSmoke}

TypeOK ==
    /\ waiters \in [Conds -> Seq(Threads)]
    /\ have \subseteq Resource
    /\ num_active_threads \in 0..3
    /\ offered \in 0..Iterations
    /\ signal_count \in [Resource -> 0..Iterations]
    /\ smoke_count \in [Resource -> 0..Iterations]
    /\ woken \subseteq Threads
    /\ pc \in [Threads -> {"start", "ready", "resource", "pair", "smoker", "smoke", "done"}]

Init ==
    /\ waiters = [c \in Conds |-> <<>>]
    /\ have = {}
    /\ num_active_threads = 0
    /\ offered = 0
    /\ signal_count = [r \in Resource |-> 0]
    /\ smoke_count = [r \in Resource |-> 0]
    /\ woken = {}
    /\ pc = [t \in Threads |-> "start"]

\* t runs: it has the mutex, for the first time or after a wait at place.
Runs(t, place) == pc[t] = place /\ (place = "start" \/ t \in woken)

\* t signals the condition variables signals and waits on cond at place.
WaitAt(t, signals, cond, place) ==
    /\ waiters' = [c \in Conds |-> LET q == LeftAfter(waiters[c], IF c \in signals THEN 1 ELSE 0)
                                   IN  IF c = cond THEN Append(q, t) ELSE q]
    /\ woken' = (woken \ {t}) \cup UNION {Signalled(waiters[c], 1) : c \in signals}
    /\ pc' = [pc EXCEPT ![t] = place]

-----------------------------------------------------------------------------
(* helperMatch, helperPaper and helpertobacco.                             *)

helperStarts(r) ==
    /\ Runs(HelperOf(r), "start")
    /\ WaitAt(HelperOf(r), {}, Res(r), "resource")
    /\ UNCHANGED <<have, num_active_threads, offered, signal_count, smoke_count>>

\* The other resource that completes a pair, in the order of the tests.
Completes(r, others) ==
    LET first == IF r = "paper" THEN "match" ELSE "paper"
    IN  IF first \in others THEN first ELSE CHOOSE o \in others : TRUE

helperNotes(r) ==
    LET others == have \ {r} IN
    /\ Runs(HelperOf(r), "resource")
    /\ have' = have \cup {r}
    /\ IF others = {}
       THEN WaitAt(HelperOf(r), {}, Res(r), "resource")
       ELSE WaitAt(HelperOf(r), {PairOf(Smoker({r, Completes(r, others)}))}, HelperSmoke, "smoker")
    /\ UNCHANGED <<num_active_threads, offered, signal_count, smoke_count>>

\* Variant: the resources of the last round are not taken away.
helperResetsOwn(r) ==
    /\ Runs(HelperOf(r), "smoker")
    /\ have' = have \ {r}
    /\ WaitAt(HelperOf(r), {AgentSmoke}, Res(r), "resource")
    /\ UNCHANGED <<num_active_threads, offered, signal_count, smoke_count>>

helperResets(r) ==
    /\ Runs(HelperOf(r), "smoker")
    /\ have' = {}
    /\ WaitAt(HelperOf(r), {AgentSmoke}, Res(r), "resource")
    /\ UNCHANGED <<num_active_threads, offered, signal_count, smoke_count>>

-----------------------------------------------------------------------------
(* tobaccoSmoke, paperSmoke and matchSmoke.                                *)

smokerStarts(r) ==
    /\ Runs(SmokerOf(r), "start")
    /\ num_active_threads' = num_active_threads + 1
    /\ WaitAt(SmokerOf(r), {AgentSmoke}, PairOf(r), "pair")
    /\ UNCHANGED <<have, offered, signal_count, smoke_count>>

\* Variant: the helper is not told.
smokesSilently(r) ==
    /\ Runs(SmokerOf(r), "pair")
    /\ smoke_count' = [smoke_count EXCEPT ![r] = @ + 1]
    /\ WaitAt(SmokerOf(r), {}, PairOf(r), "pair")
    /\ UNCHANGED <<have, num_active_threads, offered, signal_count>>

smokes(r) ==
    /\ Runs(SmokerOf(r), "pair")
    /\ smoke_count' = [smoke_count EXCEPT ![r] = @ + 1]
    /\ WaitAt(SmokerOf(r), {HelperSmoke}, PairOf(r), "pair")
    /\ UNCHANGED <<have, num_active_threads, offered, signal_count>>

-----------------------------------------------------------------------------
(* agent                                                                   *)

\* The agent waits for the smokers.
agentWaits ==
    /\ Runs(Agent, "start") \/ Runs(Agent, "ready")
    /\ num_active_threads < 3
    /\ WaitAt(Agent, {}, AgentSmoke, "ready")
    /\ UNCHANGED <<have, num_active_threads, offered, signal_count, smoke_count>>

\* One turn of its loop: it signals two resources and waits for a smoker.
agentOffers ==
    /\ \/ (Runs(Agent, "start") \/ Runs(Agent, "ready")) /\ num_active_threads = 3
       \/ Runs(Agent, "smoke")
    /\ offered < Iterations
    /\ offered' = offered + 1
    /\ \E pair \in Pairs :
          /\ signal_count' = [signal_count EXCEPT ![Smoker(pair)] = @ + 1]
          /\ WaitAt(Agent, {Res(r) : r \in pair}, AgentSmoke, "smoke")
    /\ UNCHANGED <<have, num_active_threads, smoke_count>>

agentReturns ==
    /\ Runs(Agent, "smoke")
    /\ offered = Iterations
    /\ pc' = [pc EXCEPT ![Agent] = "done"]
    /\ woken' = woken \ {Agent}
    /\ UNCHANGED <<waiters, have, num_active_threads, offered, signal_count, smoke_count>>

-----------------------------------------------------------------------------
AgentRuns == agentWaits \/ agentOffers \/ agentReturns
HelperRuns(r) == helperStarts(r) \/ helperNotes(r) \/ helperResets(r)
SmokerRuns(r) == smokerStarts(r) \/ smokes(r)

Next == AgentRuns \/ \E r \in Resource : HelperRuns(r) \/ SmokerRuns(r)

Spec == Init /\ [][Next]_vars

-----------------------------------------------------------------------------
\* The asserts after the join, and what they rest on: every smoker has smoked as
\* often as its pair was offered, up to the round under way, and at the end of
\* the agent exactly as often.
SmokersMatchOffers ==
    /\ \A r \in Resource : smoke_count[r] \in {signal_count[r], signal_count[r] - 1}
    /\ Cardinality({r \in Resource : smoke_count[r] # signal_count[r]}) <= 1
    /\ pc[Agent] = "done" => smoke_count = signal_count

HelpersWait == \A r \in Resource : pc[HelperOf(r)] = "resource" /\ HelperOf(r) \notin woken

\* All helpers wait and the agent has not begun: no signal of any round is lost
\* from here, and the agent returns.
Ready == offered = 0 /\ HelpersWait
Returned == pc[Agent] = "done"

\* "Wait until all other threads are waiting for a signal": the agent does not
\* signal a resource before every helper waits for it.
OffersToWaitingHelpers ==
    [][offered' # offered => HelpersWait]_vars
=============================================================================
