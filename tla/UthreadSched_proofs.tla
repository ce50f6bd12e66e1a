------------------------ MODULE UthreadSched_proofs ------------------------
(***************************************************************************)
(* A uthread never runs on two processors, provided that no uthread both   *)
(* blocks and yields or exits (SafeCalls).  The run sched_block_yield      *)
(* shows that the code does not guarantee it otherwise.                    *)
(*                                                                         *)
(* The argument: at any time there is at most one token for a uthread, and *)
(* only the holder of its token can run it.  A processor holds the token   *)
(* of the uthread it runs (HasCur), of the one it has dequeued (to) and of *)
(* the one that yielded or exited on it until that is requeued or reaped   *)
(* (HasFrom); otherwise the token is on the ready queue, on a waiter queue *)
(* or with the uthread that the owner joins (Awaits).  A uthread that      *)
(* blocks gives its token away before it has stopped; until then its state *)
(* is RUNNING and the spin of uthread_switch keeps everyone out.           *)
(*                                                                         *)
(* What becomes of uthreads follows from the tokens, in the second part;   *)
(* the third one does the same for the earlier scheduler, and the fourth   *)
(* one is about clients that unblock whom they like.                       *)
(***************************************************************************)
EXTENDS UthreadUnblock, UthreadSchedEarly, TLAPS

\* Only stops as BLOCKED.
Blocker(t) == t \in Bases \/ Calls[t] \cap {"yield", "exit"} = {}

SafeCalls ==
    \A t \in Threads : \/ Calls[t] \cap {"yield", "exit"} = {}
                       \/ Calls[t] \cap {"block", "join"} = {}

StopPC == {"dequeue", "save", "spin"}
PostPC == {"post", "recheck", "reap", "requeue"}
Gone == {"DYING", "DEAD"}

HasCur(p, t) == cur[p] = t /\ (pc[p] \in StopPC => stop[p] # "BLOCKED")
HasFrom(p, t) == from[p] = t /\ pc[p] \in PostPC /\ ~Blocker(t)
HasToken(p, t) == HasCur(p, t) \/ to[p] = t \/ HasFrom(p, t)
Awaits(t, u) == joiner[u] = t /\ state[u] \notin Gone

\* What the program counter says of the variables of a processor.
PcInv ==
    /\ \A p \in Procs : pc[p] \in {"save", "spin"} <=> to[p] # None
    /\ \A p \in Procs : pc[p] \in PostPC => from[p] # None
    /\ \A p \in Procs : pc[p] \in {"reap", "requeue"} => ~Blocker(from[p])
    /\ \A p \in Procs : pc[p] \in {"join", "release"} =>
           cur[p] \in Threads /\ target[cur[p]] # None
    /\ \A p \in Procs : pc[p] = "join" => Blocker(cur[p])
    /\ \A b \in Bases : target[b] = None
    /\ \A p \in Procs : pc[p] \in StopPC => (stop[p] = "BLOCKED" <=> Blocker(cur[p]))

\* A base uthread stays on its processor and off every queue.
BaseInv ==
    /\ \A p, q \in Procs : cur[q] = Base[p] \/ to[q] = Base[p] => q = p
    /\ Queued \subseteq Threads
    /\ \A u \in TCB : joiner[u] \notin Bases

\* What the place of a uthread says of its state.
KindState ==
    \A t \in TCB : IF Blocker(t)
                   THEN state[t] \in {"NONE", "NASCENT", "RUNNING", "BLOCKED"}
                   ELSE state[t] # "BLOCKED"
\* The state x of a uthread whose processor is at l and is to stop it as s.
PlaceOK(l, s, x) ==
    /\ x # "NONE"
    /\ l \in {"user", "join", "release"} => x = "RUNNING"
    /\ l \in {"dequeue", "save"} => x = IF s = "DYING" THEN "DYING" ELSE "RUNNING"
    /\ l = "spin" /\ s # "BLOCKED" => x = s
    /\ l \in {"post", "recheck", "reap", "requeue", "resume"} => x \notin Gone
CurState == \A p \in Procs : cur[p] \in Threads => PlaceOK(pc[p], stop[p], state[cur[p]])
\* The state x of the uthread, no Blocker, that a processor at l comes from.
FromOK(l, x) == /\ l = "post" => x \in {"RUNABLE", "DYING"}
                /\ l \in {"recheck", "requeue"} => x = "RUNABLE"
                /\ l = "reap" => x = "DYING"
FromState ==
    \A p \in Procs : pc[p] \in PostPC /\ ~Blocker(from[p]) => FromOK(pc[p], state[from[p]])
Live(t) == state[t] \notin {"NONE", "DYING", "DEAD"}
ToState == \A p \in Procs : to[p] \in Threads => Live(to[p])
QueueState == \A t \in Queued \cup waiters : Live(t)
AwaitState == \A t \in Threads, u \in TCB : Awaits(t, u) => Live(t)
StateInv == KindState /\ CurState /\ FromState /\ ToState /\ QueueState /\ AwaitState

\* There is at most one token for t.
OneToken(t) ==
    /\ \A p, q \in Procs : HasToken(p, t) /\ HasToken(q, t) => p = q
    /\ \A p \in Procs : /\ ~(HasCur(p, t) /\ to[p] = t)
                        /\ ~(HasCur(p, t) /\ HasFrom(p, t))
                        /\ ~(to[p] = t /\ HasFrom(p, t))
    /\ t \in Queued \cup waiters => \A p \in Procs : ~HasToken(p, t)
    /\ ~(t \in Queued /\ t \in waiters)
    /\ \A u \in TCB : Awaits(t, u) => /\ t \notin Queued \cup waiters
                                      /\ \A p \in Procs : ~HasToken(p, t)
                                      /\ \A v \in TCB : Awaits(t, v) => u = v
NoDup == \A i, j \in DOMAIN ready : ready[i] = ready[j] => i = j
TokenInv == NoDup /\ \A t \in Threads : OneToken(t)

IInv == TypeOK /\ PcInv /\ BaseInv /\ StateInv /\ TokenInv /\ OneProcessor

-----------------------------------------------------------------------------
(* The ready queue.                                                        *)

LEMMA EnqueueLemma ==
    ASSUME ready \in Seq(TCB), NEW t \in TCB, Enqueue(t), NoDup
    PROVE  /\ ready' \in Seq(TCB)
           /\ Queued' = Queued \cup {t}
           /\ NoDup'
<1>1. CASE t \in Queued
  BY <1>1 DEF Enqueue, Queued, NoDup
<1>2. CASE t \notin Queued
  <2>1. ready' = Append(ready, t) /\ ready' \in Seq(TCB)
    BY <1>2 DEF Enqueue
  <2>2. DOMAIN ready' = 1..(Len(ready) + 1) /\ DOMAIN ready = 1..Len(ready)
    BY <2>1
  <2>3. \A i \in DOMAIN ready' : ready'[i] = IF i <= Len(ready) THEN ready[i] ELSE t
    BY <2>1
  <2>4. Queued' = Queued \cup {t}
    BY <2>2, <2>3 DEF Queued
  <2>5. NoDup'
    BY <1>2, <2>2, <2>3 DEF NoDup, Queued
  <2> QED  BY <2>1, <2>4, <2>5
<1> QED  BY <1>1, <1>2

LEMMA DequeueLemma ==
    ASSUME ready \in Seq(TCB), ready # <<>>, ready' = Tail(ready), NoDup
    PROVE  /\ ready' \in Seq(TCB)
           /\ Head(ready) \in Queued
           /\ Queued' = Queued \ {Head(ready)}
           /\ NoDup'
<1>1. Head(ready) = ready[1] /\ Len(ready) \in Nat \ {0} /\ DOMAIN ready = 1..Len(ready)
  OBVIOUS
<1>2. ready' \in Seq(TCB) /\ DOMAIN ready' = 1..(Len(ready) - 1)
  OBVIOUS
<1>3. \A i \in DOMAIN ready' : ready'[i] = ready[i + 1]
  BY <1>1, <1>2
<1>4. \A i \in DOMAIN ready : i # 1 => i - 1 \in DOMAIN ready' /\ ready'[i - 1] = ready[i]
  BY <1>1, <1>2, <1>3
<1>5. Queued' \subseteq Queued \ {Head(ready)}
  BY <1>1, <1>2, <1>3 DEF Queued, NoDup
<1>6. Queued \ {Head(ready)} \subseteq Queued'
  <2>1. SUFFICES ASSUME NEW i \in DOMAIN ready, ready[i] # Head(ready)
                 PROVE  ready[i] \in Queued'
    BY DEF Queued
  <2>2. i - 1 \in DOMAIN ready' /\ ready'[i - 1] = ready[i]
    BY <1>1, <1>4, <2>1
  <2> QED  BY <2>2 DEF Queued
<1>7. NoDup'
  BY <1>1, <1>2, <1>3 DEF NoDup
<1>8. Head(ready) \in Queued
  BY <1>1 DEF Queued
<1> QED  BY <1>2, <1>5, <1>6, <1>7, <1>8

-----------------------------------------------------------------------------
(* Every action preserves the invariant.                                   *)

\* A step that gives t no new token keeps it at one.
LEMMA FrameToken ==
    ASSUME NEW t \in Threads, OneToken(t),
           \A q \in Procs : /\ HasCur(q, t)' => HasCur(q, t)
                            /\ (to[q] = t)' => to[q] = t
                            /\ HasFrom(q, t)' => HasFrom(q, t),
           (t \in Queued)' => t \in Queued,
           (t \in waiters)' => t \in waiters,
           \A u \in TCB : Awaits(t, u)' => Awaits(t, u)
    PROVE  OneToken(t)'
<1>1. \A q \in Procs : HasToken(q, t)' => HasToken(q, t)
  BY DEF HasToken
<1> QED  BY <1>1 DEF OneToken

\* Other processors keep off a stack in use; only one that spins after it has
\* blocked can still name it.
LEMMA OthersSpin ==
    ASSUME IInv, NEW p \in Procs, NEW q \in Procs, q # p,
           cur[q] = cur[p], cur[p] \in Threads, pc[p] # "spin"
    PROVE  pc[q] = "spin" /\ (HasCur(p, cur[p]) \/ pc[p] \in {"dequeue", "save"} => stop[q] = "BLOCKED")
<1>1. pc[q] = "spin"
  BY DEF IInv, OneProcessor
<1>2. CASE stop[q] = "BLOCKED"
  BY <1>1, <1>2
<1>3. CASE stop[q] # "BLOCKED"
  <2>1. HasCur(q, cur[p]) /\ ~Blocker(cur[p])
    BY <1>1, <1>3 DEF HasCur, IInv, PcInv, StopPC
  <2>2. HasCur(p, cur[p])
    BY <2>1 DEF HasCur, IInv, PcInv
  <2> QED  BY <2>1, <2>2 DEF IInv, TokenInv, OneToken, HasToken
<1> QED  BY <1>2, <1>3

LEMMA SaveStep ==
    ASSUME SafeCalls, IInv, NEW p \in Procs, Save(p)
    PROVE  IInv'
<1> USE DEF Save, Goto, queueVars, clientVars
<1>1. TypeOK'
  BY DEF IInv, TypeOK, States
<1>2. PcInv'
  BY DEF IInv, PcInv, PostPC, StopPC, TypeOK
<1>3. BaseInv'
  BY DEF IInv, BaseInv, Queued
<1>4. /\ cur[p] \in TCB /\ pc[p] = "save" /\ pc' = [pc EXCEPT ![p] = "spin"]
      /\ state' = [state EXCEPT ![cur[p]] = stop[p]]
      /\ UNCHANGED <<joiner, freed, ready, sleeping, cur, to, from, stop, target, handles, waiters>>
      /\ Blocker(cur[p]) <=> stop[p] = "BLOCKED"
  BY DEF IInv, TypeOK, PcInv, StopPC
<1>5. state[cur[p]] \in Gone <=> stop[p] \in Gone
  BY <1>4 DEF IInv, TypeOK, StateInv, KindState, CurState, PlaceOK, Gone, Blocker, TCB
<1>6. \A t \in TCB : Live(t) => Live(t)'
  BY <1>4, <1>5 DEF IInv, TypeOK, Gone, Live
<1>7. \A t, u \in TCB : Awaits(t, u)' <=> Awaits(t, u)
  BY <1>4, <1>5 DEF IInv, TypeOK, Gone, Awaits
<1>8. \A q \in Procs, t \in Threads :
         (HasCur(q, t)' <=> HasCur(q, t)) /\ (HasFrom(q, t)' <=> HasFrom(q, t))
  BY <1>4 DEF HasCur, HasFrom, StopPC, PostPC, IInv, TypeOK
<1>9. StateInv'
  <2>1. KindState'
    BY <1>4 DEF IInv, TypeOK, StateInv, KindState
  <2>2. CurState'
    <3>1. SUFFICES ASSUME NEW q \in Procs, cur[q] \in Threads
                   PROVE  PlaceOK(pc'[q], stop[q], state'[cur[q]])
      BY <1>4 DEF CurState
    <3>2. CASE q = p
      BY <1>4, <3>2 DEF IInv, TypeOK, PlaceOK
    <3>3. CASE q # p /\ cur[q] = cur[p]
      <4>1. pc'[q] = "spin" /\ stop[q] = "BLOCKED" /\ state'[cur[q]] # "NONE"
        BY <1>4, <3>1, <3>3, OthersSpin DEF IInv, TypeOK
      <4> QED  BY <4>1 DEF PlaceOK
    <3>4. CASE q # p /\ cur[q] # cur[p]
      BY <1>4, <3>1, <3>4 DEF IInv, TypeOK, StateInv, CurState
    <3> QED  BY <3>2, <3>3, <3>4
  <2>3. ASSUME NEW q \in Procs, pc[q] \in PostPC, ~Blocker(from[q])
        PROVE  from[q] # cur[p]
    <3>1. SUFFICES ASSUME from[q] = cur[p]  PROVE FALSE
      OBVIOUS
    <3>2. cur[p] \in Threads /\ HasFrom(q, cur[p]) /\ HasCur(p, cur[p])
      BY <1>4, <2>3, <3>1 DEF HasFrom, HasCur, Blocker, TCB
    <3> QED  BY <3>2 DEF IInv, TokenInv, OneToken, HasToken
  <2>4. FromState'
    BY <1>4, <2>3 DEF IInv, TypeOK, StateInv, FromState, PostPC, FromOK
  <2>5. ToState' /\ QueueState' /\ AwaitState'
    BY <1>4, <1>6, <1>7 DEF IInv, StateInv, ToState, QueueState, AwaitState, TypeOK, Queued, TCB
  <2> QED  BY <2>1, <2>2, <2>4, <2>5 DEF StateInv
<1>10. TokenInv'
  <2>1. NoDup' /\ Queued' = Queued
    BY <1>4 DEF IInv, TokenInv, NoDup, Queued
  <2>2. \A t \in Threads : OneToken(t)'
    BY <1>4, <1>7, <1>8, <2>1, FrameToken DEF IInv, TokenInv, TCB
  <2> QED  BY <2>1, <2>2 DEF TokenInv
<1>11. OneProcessor'
  BY DEF IInv, OneProcessor
<1> QED  BY <1>1, <1>2, <1>3, <1>9, <1>10, <1>11 DEF IInv

\* A step that changes the control of p alone and gives away no token.
LEMMA KeepTokens ==
    ASSUME IInv, NEW p \in Procs, NEW l, NEW s,
           pc' = [pc EXCEPT ![p] = l], stop' = [stop EXCEPT ![p] = s],
           UNCHANGED <<state, ready, cur, to, from, waiters>>,
           \A u \in TCB : joiner'[u] \in {joiner[u], Detached},
           (l \in StopPC => s # "BLOCKED") => (pc[p] \in StopPC => stop[p] # "BLOCKED"),
           l \in PostPC => pc[p] \in PostPC
    PROVE  BaseInv' /\ QueueState' /\ AwaitState' /\ TokenInv'
<1>1. Queued' = Queued /\ NoDup'
  BY DEF IInv, TokenInv, Queued, NoDup
<1>2. BaseInv'
  BY <1>1, NullAssumption DEF IInv, BaseInv, TCB
<1>3. QueueState'
  BY <1>1 DEF IInv, StateInv, QueueState, Live
<1>4. \A t \in Threads, u \in TCB : Awaits(t, u)' => Awaits(t, u)
  BY NullAssumption DEF Awaits, TCB
<1>5. AwaitState'
  BY <1>4 DEF IInv, StateInv, AwaitState, Live
<1>6. \A q \in Procs, t \in Threads :
         (HasCur(q, t)' => HasCur(q, t)) /\ (HasFrom(q, t)' => HasFrom(q, t))
  BY DEF HasCur, HasFrom, IInv, TypeOK
<1>7. \A t \in Threads : OneToken(t)'
  BY <1>1, <1>4, <1>6, FrameToken DEF IInv, TokenInv
<1> QED  BY <1>1, <1>2, <1>3, <1>5, <1>7 DEF TokenInv

\* A step that moves the control of p from l to m and changes no state.
LEMMA ControlStep ==
    ASSUME IInv, NEW p \in Procs, NEW l, NEW s,
           pc' = [pc EXCEPT ![p] = l], stop' = [stop EXCEPT ![p] = s],
           UNCHANGED <<state, cur, to, from>>,
           pc[p] # "spin", l # "spin",
           cur[p] \in Threads => PlaceOK(l, s, state[cur[p]]),
           l \in PostPC /\ ~Blocker(from[p]) => FromOK(l, state[from[p]]),
           TypeOK', PcInv', BaseInv', QueueState', AwaitState', TokenInv'
    PROVE  IInv'
<1>1. KindState' /\ ToState'
  BY DEF IInv, StateInv, KindState, ToState, Live
<1>2. CurState'
  BY DEF IInv, StateInv, CurState, TypeOK
<1>3. FromState'
  BY DEF IInv, StateInv, FromState, TypeOK
<1>4. OneProcessor'
  BY DEF IInv, OneProcessor, TypeOK
<1> QED  BY <1>1, <1>2, <1>3, <1>4 DEF IInv, StateInv

LEMMA IdleStep ==
    ASSUME SafeCalls, IInv, NEW p \in Procs, Idle(p)
    PROVE  IInv'
<1> USE DEF Idle, Stop, Goto, tcbVars, queueVars, clientVars
<1>1. TypeOK'
  BY DEF IInv, TypeOK
<1>2. cur[p] \in Bases /\ cur[p] \notin Threads
  BY BaseAssumption DEF Bases
<1>3. PcInv'
  BY <1>2 DEF IInv, PcInv, PostPC, StopPC, TypeOK, Blocker
<1>4. BaseInv' /\ QueueState' /\ AwaitState' /\ TokenInv'
  BY KeepTokens DEF IInv, TypeOK, StopPC, PostPC
<1> QED  BY <1>1, <1>2, <1>3, <1>4, ControlStep DEF PostPC

LEMMA YieldStep ==
    ASSUME SafeCalls, IInv, NEW p \in Procs, Yield(p)
    PROVE  IInv'
<1> USE DEF Yield, Calling, Stop, Goto, tcbVars, queueVars, clientVars
<1>1. TypeOK'
  BY DEF IInv, TypeOK
<1>2. cur[p] \in Threads /\ ~Blocker(cur[p]) /\ PlaceOK("dequeue", "RUNABLE", state[cur[p]])
  BY BaseAssumption DEF Blocker, IInv, StateInv, CurState, PlaceOK
<1>3. PcInv'
  BY <1>2 DEF IInv, PcInv, PostPC, StopPC, TypeOK
<1>4. BaseInv' /\ QueueState' /\ AwaitState' /\ TokenInv'
  BY KeepTokens DEF IInv, TypeOK, StopPC, PostPC
<1> QED  BY <1>1, <1>2, <1>3, <1>4, ControlStep DEF PostPC

LEMMA PostDyingStep ==
    ASSUME SafeCalls, IInv, NEW p \in Procs, PostDying(p)
    PROVE  IInv'
<1> USE DEF PostDying, Goto, tcbVars, queueVars, clientVars
<1> DEFINE l == IF state[from[p]] = "DYING" THEN "reap" ELSE "recheck"
<1>1. TypeOK' /\ from[p] \in TCB /\ pc' = [pc EXCEPT ![p] = l] /\ stop' = [stop EXCEPT ![p] = stop[p]]
  BY DEF IInv, TypeOK, PcInv, PostPC
<1>2. l = "reap" => ~Blocker(from[p])
  BY <1>1 DEF IInv, StateInv, KindState
<1>3. PcInv'
  BY <1>1, <1>2 DEF IInv, PcInv, PostPC, StopPC, TypeOK
<1>4. BaseInv' /\ QueueState' /\ AwaitState' /\ TokenInv'
  BY <1>1, KeepTokens DEF IInv, TypeOK, StopPC, PostPC
<1>5. ~Blocker(from[p]) => FromOK(l, state[from[p]])
  BY DEF IInv, StateInv, FromState, FromOK, PostPC
<1>6. cur[p] \in Threads => PlaceOK(l, stop[p], state[cur[p]])
  BY DEF IInv, StateInv, CurState, PlaceOK
<1>7. l # "spin" /\ pc[p] # "spin"
  OBVIOUS
<1> HIDE DEF l, PostDying
<1> QED  BY <1>1, <1>3, <1>4, <1>5, <1>6, <1>7, ControlStep DEF PostDying

LEMMA PostRunableStep ==
    ASSUME SafeCalls, IInv, NEW p \in Procs, PostRunable(p)
    PROVE  IInv'
<1> USE DEF PostRunable, Goto, tcbVars, queueVars, clientVars
<1> DEFINE l == IF state[from[p]] = "RUNABLE" THEN "requeue" ELSE "resume"
<1>1. TypeOK' /\ from[p] \in TCB /\ pc' = [pc EXCEPT ![p] = l] /\ stop' = [stop EXCEPT ![p] = stop[p]]
  BY DEF IInv, TypeOK, PcInv, PostPC
<1>2. l = "requeue" => ~Blocker(from[p])
  BY <1>1 DEF IInv, StateInv, KindState
<1>3. PcInv'
  BY <1>1, <1>2 DEF IInv, PcInv, PostPC, StopPC, TypeOK
<1>4. BaseInv' /\ QueueState' /\ AwaitState' /\ TokenInv'
  BY <1>1, KeepTokens DEF IInv, TypeOK, StopPC, PostPC
<1>5. l \in PostPC => FromOK(l, state[from[p]])
  BY DEF FromOK, PostPC
<1>6. cur[p] \in Threads => PlaceOK(l, stop[p], state[cur[p]])
  BY DEF IInv, StateInv, CurState, PlaceOK
<1>7. l # "spin" /\ pc[p] # "spin"
  OBVIOUS
<1> HIDE DEF l, PostRunable
<1> QED  BY <1>1, <1>3, <1>4, <1>5, <1>6, <1>7, ControlStep DEF PostRunable

LEMMA UseHandleStep ==
    ASSUME SafeCalls, IInv, NEW p \in Procs, NEW t \in Threads, Join(p, t) \/ Detach(p, t)
    PROVE  IInv'
<1> USE DEF Join, Detach, UseHandle, Calling, Goto, tcbVars, queueVars, clientVars
<1>1. PICK l \in {"user", "join", "release"} : pc' = [pc EXCEPT ![p] = l]
  BY DEF IInv, TypeOK
<1>2. TypeOK' /\ stop' = [stop EXCEPT ![p] = stop[p]]
  BY <1>1, NullAssumption DEF IInv, TypeOK, TCB
<1>3. l = "join" => Blocker(cur[p])
  BY <1>1 DEF SafeCalls, Blocker, IInv, TypeOK
<1>4. l # "user" => target'[cur[p]] = t
  BY <1>1 DEF IInv, TypeOK
<1>5. \A q \in Procs : target[cur[q]] # None => target'[cur[q]] # None
  BY NullAssumption DEF IInv, TypeOK, TCB
<1>6. PcInv'
  <2>1. \A b \in Bases : target'[b] = None
    BY BaseAssumption DEF IInv, TypeOK, PcInv, TCB
  <2>2. l # "user" => cur[p] \in Threads /\ target'[cur[p]] # None
    BY <1>4, NullAssumption DEF TCB
  <2> HIDE DEF Join, Detach, UseHandle, Calling, Goto
  <2>3. UNCHANGED <<cur, to, from>> /\ pc[p] = "user"
    BY DEF Join, Detach, UseHandle, Calling
  <2> QED  BY <1>1, <1>2, <1>3, <1>5, <2>1, <2>2, <2>3 DEF IInv, PcInv, PostPC, StopPC, TypeOK
<1>7. BaseInv' /\ QueueState' /\ AwaitState' /\ TokenInv'
  BY <1>1, <1>2, KeepTokens DEF IInv, TypeOK, StopPC, PostPC
<1>8. cur[p] \in Threads => PlaceOK(l, stop[p], state[cur[p]])
  BY DEF IInv, StateInv, CurState, PlaceOK
<1> QED  BY <1>1, <1>2, <1>6, <1>7, <1>8, ControlStep DEF PostPC

\* The end of uthread_join and uthread_detach changes no state and no token.
LEMMA ReleaseStep ==
    ASSUME SafeCalls, IInv, NEW p \in Procs, pc[p] \in {"join", "release"}, ReleaseTarget(p),
           UNCHANGED <<state, queueVars, cur, to, from, handles, waiters>>
    PROVE  IInv'
<1> USE DEF ReleaseTarget, Goto, queueVars
<1>1. /\ cur[p] \in Threads /\ target[cur[p]] \in Threads
      /\ pc' = [pc EXCEPT ![p] = "user"] /\ stop' = [stop EXCEPT ![p] = stop[p]]
      /\ target' = [target EXCEPT ![cur[p]] = None]
      /\ UNCHANGED <<state, ready, sleeping, cur, to, from, handles, waiters>>
      /\ \A u \in TCB : joiner'[u] \in {joiner[u], Detached}
  BY DEF IInv, TypeOK, PcInv, TCB
<1>2. TypeOK'
  BY <1>1 DEF IInv, TypeOK, TCB
<1> HIDE DEF ReleaseTarget
<1>3. \A q \in Procs : q # p /\ pc[q] \in {"join", "release"} => target'[cur[q]] = target[cur[q]]
  BY <1>1 DEF IInv, OneProcessor, TypeOK
<1>4. PcInv'
  BY <1>1, <1>3 DEF IInv, PcInv, PostPC, StopPC, TypeOK
<1>6. BaseInv' /\ QueueState' /\ AwaitState' /\ TokenInv'
  BY <1>1, KeepTokens DEF IInv, TypeOK, StopPC, PostPC
<1>7. PlaceOK("user", stop[p], state[cur[p]])
  BY <1>1 DEF IInv, StateInv, CurState, PlaceOK
<1> QED  BY <1>1, <1>2, <1>4, <1>6, <1>7, ControlStep DEF PostPC

LEMMA JoinLockedStep ==
    ASSUME SafeCalls, IInv, NEW p \in Procs, JoinLocked(p)
    PROVE  IInv'
<1>1. CASE state[target[cur[p]]] \in Gone
  BY <1>1, ReleaseStep DEF JoinLocked, Gone
<1>2. CASE state[target[cur[p]]] \notin Gone
  <2>0. PICK c \in Threads, t \in Threads : c = cur[p] /\ t = target[cur[p]]
    BY <1>2 DEF JoinLocked, IInv, TypeOK, PcInv
  <2>1. /\ c \in Threads /\ c \in TCB /\ t \in Threads /\ t \in TCB /\ Blocker(c)
        /\ pc' = [pc EXCEPT ![p] = "dequeue"] /\ stop' = [stop EXCEPT ![p] = "BLOCKED"]
        /\ joiner' = [joiner EXCEPT ![t] = c]
        /\ UNCHANGED <<state, freed, ready, sleeping, cur, to, from, target, handles, waiters>>
        /\ HasCur(p, c) /\ pc[p] = "join" /\ state[c] = "RUNNING"
    BY <1>2, <2>0 DEF JoinLocked, Stop, Goto, queueVars, IInv, TypeOK, PcInv, TCB, HasCur, StopPC,
                      Gone, StateInv, CurState, PlaceOK
  <2>2. TypeOK'
    BY <2>1 DEF IInv, TypeOK
  <2>3. PcInv'
    BY <2>0, <2>1 DEF IInv, PcInv, PostPC, StopPC, TypeOK
  <2>4. Queued' = Queued /\ NoDup'
    BY <2>1 DEF IInv, TokenInv, Queued, NoDup
  <2>5. BaseInv'
    BY <2>1, <2>4, BaseAssumption DEF IInv, BaseInv, TypeOK
  <2>6. QueueState'
    BY <2>1, <2>4 DEF IInv, StateInv, QueueState, Live
  <2>7. \A v \in Threads, u \in TCB : Awaits(v, u)' => Awaits(v, u) \/ (v = c /\ u = t)
    BY <2>1 DEF Awaits, IInv, TypeOK
  <2>8. AwaitState'
    BY <2>1, <2>7 DEF IInv, StateInv, AwaitState, Live, Gone
  <2>9. \A q \in Procs, v \in Threads :
            (HasCur(q, v)' => HasCur(q, v)) /\ (HasFrom(q, v)' => HasFrom(q, v))
    BY <2>1 DEF HasCur, HasFrom, IInv, TypeOK, StopPC, PostPC
  <2>10. \A v \in Threads \ {c} : OneToken(v)'
    BY <2>1, <2>4, <2>7, <2>9, FrameToken DEF IInv, TokenInv
  <2>11. OneToken(c)'
    <3>1. OneToken(c) /\ HasToken(p, c)
      BY <2>1 DEF IInv, TokenInv, HasToken
    <3>2. c \notin Queued \cup waiters /\ \A u \in TCB : ~Awaits(c, u)
      BY <2>1, <3>1 DEF OneToken
    <3>3. \A q \in Procs : ~HasToken(q, c)'
      <4>1. ~HasCur(p, c)'
        BY <2>1 DEF HasCur, IInv, TypeOK, StopPC
      <4> QED  BY <2>1, <2>9, <3>1, <4>1 DEF OneToken, HasToken
    <3> QED  BY <2>1, <2>4, <2>7, <3>2, <3>3 DEF OneToken, HasToken
  <2>12. TokenInv'
    BY <2>4, <2>10, <2>11 DEF TokenInv
  <2>13. PlaceOK("dequeue", "BLOCKED", state[cur[p]])
    BY <2>0, <2>1 DEF PlaceOK
  <2> QED  BY <2>1, <2>2, <2>3, <2>5, <2>6, <2>8, <2>12, <2>13, ControlStep DEF PostPC
<1> QED  BY <1>1, <1>2

LEMMA BlockStep ==
    ASSUME SafeCalls, IInv, NEW p \in Procs, Block(p)
    PROVE  IInv'
<1>0. PICK c \in Threads : c = cur[p]
  BY DEF Block, Calling
<1>1. /\ Blocker(c)
      /\ pc' = [pc EXCEPT ![p] = "dequeue"] /\ stop' = [stop EXCEPT ![p] = "BLOCKED"]
      /\ waiters' = waiters \cup {c}
      /\ UNCHANGED <<state, joiner, freed, ready, sleeping, cur, to, from, target, handles>>
      /\ HasCur(p, c) /\ pc[p] = "user" /\ state[c] = "RUNNING"
  BY <1>0 DEF Block, Calling, Stop, Goto, tcbVars, queueVars, IInv, HasCur, StopPC, SafeCalls,
              Blocker, StateInv, CurState, PlaceOK
<1>2. TypeOK'
  BY <1>1 DEF IInv, TypeOK
<1>3. PcInv'
  BY <1>0, <1>1 DEF IInv, PcInv, PostPC, StopPC, TypeOK
<1>4. Queued' = Queued /\ NoDup'
  BY <1>1 DEF IInv, TokenInv, Queued, NoDup
<1>5. BaseInv'
  BY <1>1, <1>4 DEF IInv, BaseInv
<1>6. QueueState'
  BY <1>1, <1>4 DEF IInv, StateInv, QueueState, Live
<1>7. \A v \in Threads, u \in TCB : Awaits(v, u)' <=> Awaits(v, u)
  BY <1>1 DEF Awaits
<1>8. AwaitState'
  BY <1>1, <1>7 DEF IInv, StateInv, AwaitState, Live
<1>9. \A q \in Procs, v \in Threads :
          (HasCur(q, v)' => HasCur(q, v)) /\ (HasFrom(q, v)' => HasFrom(q, v))
  BY <1>1 DEF HasCur, HasFrom, IInv, TypeOK, StopPC, PostPC
<1>10. \A v \in Threads \ {c} : OneToken(v)'
  BY <1>1, <1>4, <1>7, <1>9, FrameToken DEF IInv, TokenInv
<1>11. OneToken(c)'
  <2>1. OneToken(c) /\ HasToken(p, c)
    BY <1>1 DEF IInv, TokenInv, HasToken
  <2>2. c \notin Queued /\ \A u \in TCB : ~Awaits(c, u)
    BY <1>1, <2>1 DEF OneToken
  <2>3. \A q \in Procs : ~HasToken(q, c)'
    <3>1. ~HasCur(p, c)'
      BY <1>1 DEF HasCur, IInv, TypeOK, StopPC
    <3> QED  BY <1>1, <1>9, <2>1, <3>1 DEF OneToken, HasToken
  <2> QED  BY <1>1, <1>4, <1>7, <2>2, <2>3 DEF OneToken, HasToken
<1>12. TokenInv'
  BY <1>4, <1>10, <1>11 DEF TokenInv
<1>13. PlaceOK("dequeue", "BLOCKED", state[cur[p]])
  BY <1>0, <1>1 DEF PlaceOK
<1> QED  BY <1>1, <1>2, <1>3, <1>5, <1>6, <1>8, <1>12, <1>13, ControlStep DEF PostPC

LEMMA UnblockStep ==
    ASSUME SafeCalls, IInv, NEW p \in Procs, NEW u \in Threads, Unblock(p, u)
    PROVE  IInv'
<1>1. /\ Enqueue(u) /\ u \in waiters /\ waiters' = waiters \ {u} /\ u \in TCB /\ pc[p] = "user"
      /\ pc' = [pc EXCEPT ![p] = pc[p]] /\ stop' = [stop EXCEPT ![p] = stop[p]]
      /\ UNCHANGED <<state, joiner, freed, pc, cur, to, from, stop, target, handles>>
  BY DEF Unblock, Calling, tcbVars, procVars, IInv, TypeOK, TCB
<1>2. ready' \in Seq(TCB) /\ Queued' = Queued \cup {u} /\ NoDup'
  BY <1>1, EnqueueLemma DEF IInv, TypeOK, TokenInv
<1>3. TypeOK'
  BY <1>1, <1>2 DEF IInv, TypeOK, Enqueue
<1>4. PcInv'
  BY <1>1 DEF IInv, PcInv
<1>5. BaseInv'
  BY <1>1, <1>2 DEF IInv, BaseInv
<1>6. QueueState'
  BY <1>1, <1>2 DEF IInv, StateInv, QueueState, Live
<1>7. \A t \in Threads, v \in TCB : Awaits(t, v)' <=> Awaits(t, v)
  BY <1>1 DEF Awaits
<1>8. AwaitState'
  BY <1>1, <1>7 DEF IInv, StateInv, AwaitState, Live
<1>9. \A q \in Procs, t \in Threads :
         (HasCur(q, t)' => HasCur(q, t)) /\ (HasFrom(q, t)' => HasFrom(q, t))
  BY <1>1 DEF HasCur, HasFrom
<1>10. \A t \in Threads \ {u} : OneToken(t)'
  BY <1>1, <1>2, <1>7, <1>9, FrameToken DEF IInv, TokenInv
<1>11. OneToken(u)'
  <2>1. /\ OneToken(u) /\ \A q \in Procs : ~HasToken(q, u)'
        /\ \A v \in TCB : ~Awaits(u, v)
    BY <1>1, <1>9 DEF IInv, TokenInv, OneToken, HasToken
  <2> QED  BY <1>1, <1>2, <1>7, <2>1 DEF OneToken, HasToken
<1>12. TokenInv'
  BY <1>2, <1>10, <1>11 DEF TokenInv
<1>13. cur[p] \in Threads => PlaceOK(pc[p], stop[p], state[cur[p]])
  BY DEF IInv, StateInv, CurState
<1> QED  BY <1>1, <1>3, <1>4, <1>5, <1>6, <1>8, <1>12, <1>13, ControlStep DEF PostPC

LEMMA RequeueStep ==
    ASSUME SafeCalls, IInv, NEW p \in Procs, Requeue(p)
    PROVE  IInv'
<1>1. PICK u \in Threads : u = from[p] /\ ~Blocker(u) /\ u \in TCB
  BY DEF Requeue, IInv, PcInv, TypeOK, PostPC, TCB, Blocker
<1>2. /\ Enqueue(u) /\ HasFrom(p, u) /\ state[u] = "RUNABLE" /\ pc[p] = "requeue"
      /\ pc' = [pc EXCEPT ![p] = "resume"] /\ stop' = [stop EXCEPT ![p] = stop[p]]
      /\ UNCHANGED <<state, joiner, freed, cur, to, from, stop, target, handles, waiters>>
  BY <1>1 DEF Requeue, Goto, tcbVars, clientVars, IInv, TypeOK, HasFrom, PostPC, StateInv,
              FromState, FromOK
<1>3. ready' \in Seq(TCB) /\ Queued' = Queued \cup {u} /\ NoDup'
  BY <1>1, <1>2, EnqueueLemma DEF IInv, TypeOK, TokenInv
<1>4. TypeOK'
  BY <1>2, <1>3 DEF IInv, TypeOK, Enqueue
<1>5. PcInv'
  BY <1>2 DEF IInv, PcInv, PostPC, StopPC, TypeOK
<1>6. BaseInv'
  BY <1>2, <1>3 DEF IInv, BaseInv
<1>7. QueueState'
  BY <1>2, <1>3 DEF IInv, StateInv, QueueState, Live
<1>8. \A t \in Threads, v \in TCB : Awaits(t, v)' <=> Awaits(t, v)
  BY <1>2 DEF Awaits
<1>9. AwaitState'
  BY <1>2, <1>8 DEF IInv, StateInv, AwaitState, Live
<1>10. \A q \in Procs, t \in Threads :
          (HasCur(q, t)' => HasCur(q, t)) /\ (HasFrom(q, t)' => HasFrom(q, t))
  BY <1>2 DEF HasCur, HasFrom, IInv, TypeOK, StopPC, PostPC
<1>11. \A t \in Threads \ {u} : OneToken(t)'
  BY <1>2, <1>3, <1>8, <1>10, FrameToken DEF IInv, TokenInv
<1>12. OneToken(u)'
  <2>1. OneToken(u) /\ HasToken(p, u) /\ ~HasFrom(p, u)'
    BY <1>2 DEF IInv, TokenInv, HasToken, HasFrom, TypeOK, PostPC
  <2>2. u \notin waiters /\ \A v \in TCB : ~Awaits(u, v)
    BY <2>1 DEF OneToken
  <2>3. \A q \in Procs : ~HasToken(q, u)'
    BY <1>2, <1>10, <2>1 DEF OneToken, HasToken
  <2> QED  BY <1>2, <1>3, <1>8, <2>2, <2>3 DEF OneToken, HasToken
<1>13. TokenInv'
  BY <1>3, <1>11, <1>12 DEF TokenInv
<1>14. cur[p] \in Threads => PlaceOK("resume", stop[p], state[cur[p]])
  BY <1>2 DEF IInv, StateInv, CurState, PlaceOK
<1> QED  BY <1>2, <1>4, <1>5, <1>6, <1>7, <1>9, <1>13, <1>14, ControlStep DEF PostPC

LEMMA CreateStep ==
    ASSUME SafeCalls, IInv, NEW p \in Procs, NEW u \in Threads, Create(p, u)
    PROVE  IInv'
<1>1. /\ Enqueue(u) /\ u \in TCB /\ state[u] = "NONE"
      /\ state' = [state EXCEPT ![u] = "NASCENT"] /\ handles' = handles \cup {u}
      /\ UNCHANGED <<joiner, freed, pc, cur, to, from, stop, target, waiters>>
  BY DEF Create, procVars, IInv, TypeOK, TCB
<1>2. ready' \in Seq(TCB) /\ Queued' = Queued \cup {u} /\ NoDup'
  BY <1>1, EnqueueLemma DEF IInv, TypeOK, TokenInv
<1>3. TypeOK'
  BY <1>1, <1>2 DEF IInv, TypeOK, Enqueue, States
<1>4. PcInv'
  BY <1>1 DEF IInv, PcInv
<1>5. BaseInv'
  BY <1>1, <1>2 DEF IInv, BaseInv
<1>6. \A q \in Procs : cur[q] # u /\ to[q] # u /\ ~HasFrom(q, u)
  BY <1>1 DEF IInv, StateInv, CurState, PlaceOK, ToState, Live, FromState, FromOK, HasFrom, PostPC
<1>7. \A t \in Threads, v \in TCB : Awaits(t, v)' <=> Awaits(t, v)
  BY <1>1 DEF Awaits, IInv, TypeOK, Gone
<1>8. u \notin Queued \cup waiters /\ \A v \in TCB : ~Awaits(u, v)
  BY <1>1 DEF IInv, StateInv, QueueState, AwaitState, Live
<1>9. \A t \in TCB : Live(t) => Live(t)'
  BY <1>1 DEF IInv, TypeOK, Live
<1>10. StateInv'
  <2>1. KindState'
    BY <1>1 DEF IInv, TypeOK, StateInv, KindState
  <2>2. CurState'
    BY <1>1, <1>6 DEF IInv, TypeOK, StateInv, CurState
  <2>3. FromState'
    BY <1>1, <1>6 DEF IInv, TypeOK, StateInv, FromState, HasFrom, Blocker, TCB
  <2>4. Live(u)'
    BY <1>1 DEF Live, IInv, TypeOK
  <2>5. ToState' /\ QueueState' /\ AwaitState'
    BY <1>1, <1>2, <1>7, <1>9, <2>4
       DEF IInv, TypeOK, BaseInv, StateInv, ToState, QueueState, AwaitState, TCB
  <2> QED  BY <2>1, <2>2, <2>3, <2>5 DEF StateInv
<1>11. \A q \in Procs, t \in Threads :
          (HasCur(q, t)' <=> HasCur(q, t)) /\ (HasFrom(q, t)' <=> HasFrom(q, t))
  BY <1>1 DEF HasCur, HasFrom
<1>12. \A t \in Threads \ {u} : OneToken(t)'
  BY <1>1, <1>2, <1>7, <1>11, FrameToken DEF IInv, TokenInv, TCB
<1>13. OneToken(u)'
  <2>1. \A q \in Procs : ~HasToken(q, u)'
    BY <1>1, <1>6, <1>11 DEF HasToken, HasCur
  <2> QED  BY <1>1, <1>2, <1>7, <1>8, <2>1 DEF OneToken, HasToken
<1>14. TokenInv'
  BY <1>2, <1>12, <1>13 DEF TokenInv
<1>15. OneProcessor'
  BY <1>1 DEF IInv, OneProcessor
<1> QED  BY <1>3, <1>4, <1>5, <1>10, <1>14, <1>15 DEF IInv

LEMMA ExitStep ==
    ASSUME SafeCalls, IInv, NEW p \in Procs, Exit(p)
    PROVE  IInv'
<1>1. PICK c \in Threads : c = cur[p] /\ c \in TCB /\ ~Blocker(c)
  BY BaseAssumption DEF Exit, Calling, Blocker, TCB
<1>2. /\ pc[p] = "user" /\ HasCur(p, c) /\ state[c] = "RUNNING"
      /\ state' = [state EXCEPT ![c] = "DYING"]
      /\ pc' = [pc EXCEPT ![p] = "dequeue"] /\ stop' = [stop EXCEPT ![p] = "DYING"]
      /\ UNCHANGED <<joiner, freed, cur, to, from, target, handles, waiters>>
  BY <1>1 DEF Exit, Calling, Stop, Goto, clientVars, HasCur, StopPC, IInv, StateInv, CurState, PlaceOK
<1>3. /\ OneToken(c) /\ HasToken(p, c)
      /\ c \notin Queued \cup waiters /\ \A v \in TCB : ~Awaits(c, v)
      /\ \A q \in Procs : to[q] # c /\ ~HasFrom(q, c)
  BY <1>1, <1>2 DEF IInv, TokenInv, OneToken, HasToken
<1>4. /\ ready' \in Seq(TCB) /\ NoDup' /\ Queued \subseteq Queued'
      /\ \A t \in Queued' \ Queued : t \in Threads /\ Awaits(t, c)
      /\ sleeping' \subseteq Procs
  <2>1. CASE joiner[c] \in TCB
    <3>1. joiner[c] \in Threads /\ Awaits(joiner[c], c)
      BY <1>1, <1>2, <2>1 DEF IInv, BaseInv, TCB, Awaits, Gone
    <3>2. ready' \in Seq(TCB) /\ NoDup' /\ Queued' = Queued \cup {joiner[c]}
      BY <1>1, <2>1, EnqueueLemma DEF Exit, IInv, TypeOK, TokenInv
    <3> QED  BY <1>1, <2>1, <3>1, <3>2 DEF Exit, Enqueue, IInv, TypeOK
  <2>2. CASE joiner[c] \notin TCB
    BY <1>1, <2>2 DEF Exit, queueVars, IInv, TypeOK, TokenInv, NoDup, Queued
  <2> QED  BY <2>1, <2>2
<1>5. TypeOK'
  BY <1>1, <1>2, <1>4 DEF IInv, TypeOK, States
<1>6. PcInv'
  BY <1>1, <1>2 DEF IInv, PcInv, PostPC, StopPC, TypeOK
<1>7. BaseInv'
  BY <1>2, <1>4 DEF IInv, BaseInv
<1>8. \A t, v \in TCB : Awaits(t, v)' <=> Awaits(t, v) /\ v # c
  BY <1>1, <1>2 DEF Awaits, IInv, TypeOK, Gone
<1>9. \A t \in TCB \ {c} : Live(t) => Live(t)'
  BY <1>1, <1>2 DEF Live, IInv, TypeOK
<1>10. \A q \in Procs : q # p /\ cur[q] = c => FALSE
  <2>1. SUFFICES ASSUME NEW q \in Procs, q # p, cur[q] = c  PROVE FALSE
    OBVIOUS
  <2>2. HasCur(q, c)
    BY <1>1, <2>1 DEF HasCur, IInv, PcInv
  <2> QED  BY <1>3, <2>1, <2>2 DEF OneToken, HasToken
<1>11. StateInv'
  <2>1. KindState'
    BY <1>1, <1>2 DEF IInv, TypeOK, StateInv, KindState
  <2>2. CurState'
    BY <1>1, <1>2, <1>10 DEF IInv, TypeOK, StateInv, CurState, PlaceOK
  <2>3. FromState'
    BY <1>1, <1>2, <1>3 DEF IInv, TypeOK, StateInv, FromState, HasFrom, Blocker, PostPC, TCB
  <2>4. ToState'
    BY <1>2, <1>3, <1>9 DEF IInv, StateInv, ToState, TCB
  <2>5. \A t \in Queued' \cup waiters : t # c /\ Live(t) /\ t \in TCB
    BY <1>3, <1>4, <1>1 DEF IInv, StateInv, QueueState, AwaitState, BaseInv, TypeOK, TCB
  <2>6. QueueState'
    BY <1>2, <1>9, <2>5 DEF QueueState
  <2>7. AwaitState'
    BY <1>3, <1>8, <1>9 DEF IInv, StateInv, AwaitState, TCB
  <2> QED  BY <2>1, <2>2, <2>3, <2>4, <2>6, <2>7 DEF StateInv
<1>12. \A q \in Procs, t \in Threads :
          (HasCur(q, t)' <=> HasCur(q, t)) /\ (HasFrom(q, t)' <=> HasFrom(q, t))
  BY <1>2 DEF HasCur, HasFrom, IInv, TypeOK, StopPC, PostPC
<1>13. \A t \in Threads : OneToken(t)'
  <2>1. SUFFICES ASSUME NEW t \in Threads  PROVE OneToken(t)'
    OBVIOUS
  <2>2. t \in TCB /\ OneToken(t)
    BY DEF TCB, IInv, TokenInv
  <2>3. CASE t \notin Queued' \ Queued
    BY <1>2, <1>8, <1>12, <2>2, <2>3, FrameToken
  <2>4. CASE t \in Queued' \ Queued
    <3>1. /\ t \notin waiters /\ \A q \in Procs : ~HasToken(q, t)
          /\ \A v \in TCB : Awaits(t, v) => v = c
      BY <1>1, <1>4, <2>2, <2>4 DEF OneToken
    <3>2. \A q \in Procs : ~HasToken(q, t)'
      BY <1>2, <1>12, <3>1 DEF HasToken
    <3>3. \A v \in TCB : ~Awaits(t, v)'
      BY <1>8, <2>2, <3>1
    <3> QED  BY <1>2, <2>4, <3>1, <3>2, <3>3 DEF OneToken, HasToken
  <2> QED  BY <2>3, <2>4
<1>14. TokenInv'
  BY <1>4, <1>13 DEF TokenInv
<1>15. OneProcessor'
  BY <1>2, <1>10 DEF IInv, OneProcessor, TypeOK
<1> QED  BY <1>5, <1>6, <1>7, <1>11, <1>14, <1>15 DEF IInv

LEMMA ReapStep ==
    ASSUME SafeCalls, IInv, NEW p \in Procs, Reap(p)
    PROVE  IInv'
<1>1. PICK u \in Threads : u = from[p] /\ u \in TCB /\ ~Blocker(u)
  BY DEF Reap, IInv, PcInv, TypeOK, PostPC, TCB, Blocker
<1>2. /\ pc[p] = "reap" /\ HasFrom(p, u) /\ state[u] = "DYING"
      /\ \/ state' = [state EXCEPT ![u] = "DEAD"] /\ freed' = freed
         \/ state' = state /\ freed' = freed \cup {u}
      /\ pc' = [pc EXCEPT ![p] = "resume"]
      /\ UNCHANGED <<joiner, ready, sleeping, cur, to, from, stop, target, handles, waiters>>
  BY <1>1 DEF Reap, Goto, queueVars, clientVars, HasFrom, PostPC, IInv, StateInv, FromState, FromOK
<1>3. OneToken(u) /\ HasToken(p, u)
  BY <1>2 DEF IInv, TokenInv, HasToken
<1>4. \A q \in Procs : cur[q] # u /\ (q # p => ~HasFrom(q, u))
  <2>1. SUFFICES ASSUME NEW q \in Procs, cur[q] = u  PROVE FALSE
    BY <1>3 DEF OneToken, HasToken
  <2>2. HasCur(q, u)
    BY <1>1, <2>1 DEF HasCur, IInv, PcInv
  <2> QED  BY <1>2, <1>3, <2>2 DEF OneToken, HasToken
<1>5. TypeOK'
  BY <1>1, <1>2 DEF IInv, TypeOK, States
<1>6. PcInv'
  BY <1>2 DEF IInv, PcInv, PostPC, StopPC, TypeOK
<1>7. BaseInv' /\ Queued' = Queued /\ NoDup'
  BY <1>2 DEF IInv, BaseInv, Queued, TokenInv, NoDup
<1>8. \A t, v \in TCB : Awaits(t, v)' <=> Awaits(t, v)
  BY <1>1, <1>2 DEF Awaits, IInv, TypeOK, Gone
<1>9. \A t \in TCB : Live(t)' <=> Live(t)
  BY <1>1, <1>2 DEF Live, IInv, TypeOK
<1>10. StateInv'
  <2>1. KindState'
    BY <1>1, <1>2 DEF IInv, TypeOK, StateInv, KindState
  <2>2. CurState'
    BY <1>1, <1>2, <1>4 DEF IInv, TypeOK, StateInv, CurState, PlaceOK
  <2>3. ASSUME NEW q \in Procs, q # p, pc[q] \in PostPC, ~Blocker(from[q])
        PROVE  from[q] # u
    BY <1>4, <2>3 DEF HasFrom
  <2>4. FromState'
    BY <1>1, <1>2, <2>3 DEF IInv, TypeOK, PcInv, StateInv, FromState, PostPC
  <2>5. ToState' /\ QueueState' /\ AwaitState'
    BY <1>2, <1>7, <1>8, <1>9 DEF IInv, TypeOK, BaseInv, StateInv, ToState, QueueState, AwaitState, TCB
  <2> QED  BY <2>1, <2>2, <2>4, <2>5 DEF StateInv
<1>11. \A q \in Procs, t \in Threads :
          (HasCur(q, t)' => HasCur(q, t)) /\ (HasFrom(q, t)' => HasFrom(q, t))
  BY <1>2 DEF HasCur, HasFrom, IInv, TypeOK, StopPC, PostPC
<1>12. \A t \in Threads : OneToken(t)'
  BY <1>2, <1>7, <1>8, <1>11, FrameToken DEF IInv, TokenInv, TCB
<1>13. TokenInv'
  BY <1>7, <1>12 DEF TokenInv
<1>14. OneProcessor'
  BY <1>2 DEF IInv, OneProcessor, TypeOK
<1> QED  BY <1>5, <1>6, <1>7, <1>10, <1>13, <1>14 DEF IInv

LEMMA ResumeStep ==
    ASSUME SafeCalls, IInv, NEW p \in Procs, Resume(p)
    PROVE  IInv'
<1>1. PICK c \in TCB : c = cur[p]
  BY DEF IInv, TypeOK
<1>2. PICK l \in {"user", "release"} : /\ pc' = [pc EXCEPT ![p] = l]
                                       /\ l = "release" => target[c] # None
  BY <1>1 DEF Resume, Goto
<1>3. /\ pc[p] = "resume" /\ HasCur(p, c)
      /\ state' = [state EXCEPT ![c] = "RUNNING"] /\ from' = [from EXCEPT ![p] = None]
      /\ UNCHANGED <<joiner, freed, ready, sleeping, cur, to, stop, target, handles, waiters>>
  BY <1>1 DEF Resume, queueVars, clientVars, HasCur, StopPC
<1>4. TypeOK'
  BY <1>2, <1>3 DEF IInv, TypeOK, States
<1>5. PcInv'
  <2>1. l = "release" => c \in Threads
    BY <1>2 DEF IInv, PcInv, TCB
  <2> QED  BY <1>1, <1>2, <1>3, <2>1 DEF IInv, PcInv, PostPC, StopPC, TypeOK
<1>6. BaseInv' /\ Queued' = Queued /\ NoDup'
  BY <1>3 DEF IInv, BaseInv, Queued, TokenInv, NoDup
<1>7. state[c] \notin Gone
  BY <1>1, <1>3 DEF IInv, StateInv, KindState, CurState, PlaceOK, Blocker, TCB, Gone
<1>8. \A t, v \in TCB : Awaits(t, v)' <=> Awaits(t, v)
  BY <1>3, <1>7 DEF Awaits, IInv, TypeOK, Gone
<1>9. \A t \in TCB : Live(t) => Live(t)'
  BY <1>3 DEF Live, IInv, TypeOK
<1>10. StateInv'
  <2>1. KindState'
    BY <1>3 DEF IInv, TypeOK, StateInv, KindState
  <2>2. CurState'
    <3>1. SUFFICES ASSUME NEW q \in Procs, cur[q] \in Threads
                   PROVE  PlaceOK(pc'[q], stop[q], state'[cur[q]])
      BY <1>3 DEF CurState
    <3>2. CASE q = p
      BY <1>1, <1>2, <1>3, <3>2 DEF IInv, TypeOK, PlaceOK
    <3>3. CASE q # p /\ cur[q] = c
      <4>1. pc'[q] = "spin" /\ stop[q] = "BLOCKED" /\ state'[cur[q]] # "NONE"
        BY <1>1, <1>2, <1>3, <3>1, <3>3, OthersSpin DEF IInv, TypeOK
      <4> QED  BY <4>1 DEF PlaceOK
    <3>4. CASE q # p /\ cur[q] # c
      BY <1>2, <1>3, <3>1, <3>4 DEF IInv, TypeOK, StateInv, CurState
    <3> QED  BY <3>2, <3>3, <3>4
  <2>3. ASSUME NEW q \in Procs, q # p, pc[q] \in PostPC, ~Blocker(from[q])
        PROVE  from[q] # c
    <3>1. SUFFICES ASSUME from[q] = c  PROVE FALSE
      OBVIOUS
    <3>2. c \in Threads /\ HasFrom(q, c)
      BY <2>3, <3>1 DEF HasFrom, Blocker, TCB
    <3> QED  BY <1>3, <2>3, <3>2 DEF IInv, TokenInv, OneToken, HasToken
  <2>4. FromState'
    BY <1>2, <1>3, <2>3 DEF IInv, TypeOK, StateInv, FromState, PostPC
  <2>5. ToState' /\ QueueState' /\ AwaitState'
    BY <1>3, <1>6, <1>8, <1>9 DEF IInv, TypeOK, BaseInv, StateInv, ToState, QueueState, AwaitState, TCB
  <2> QED  BY <2>1, <2>2, <2>4, <2>5 DEF StateInv
<1>11. \A q \in Procs, t \in Threads :
          (HasCur(q, t)' => HasCur(q, t)) /\ (HasFrom(q, t)' => HasFrom(q, t))
  BY <1>2, <1>3 DEF HasCur, HasFrom, IInv, TypeOK, StopPC, PostPC
<1>12. \A t \in Threads : OneToken(t)'
  BY <1>3, <1>6, <1>8, <1>11, FrameToken DEF IInv, TokenInv, TCB
<1>13. TokenInv'
  BY <1>6, <1>12 DEF TokenInv
<1>14. OneProcessor'
  BY <1>2, <1>3 DEF IInv, OneProcessor, TypeOK
<1> QED  BY <1>4, <1>5, <1>6, <1>10, <1>13, <1>14 DEF IInv

LEMMA SwitchStep ==
    ASSUME SafeCalls, IInv, NEW p \in Procs, Switch(p)
    PROVE  IInv'
<1>1. PICK c \in TCB, t \in TCB : c = cur[p] /\ t = to[p]
  BY DEF Switch, IInv, TypeOK, PcInv
<1>2. /\ pc[p] = "spin" /\ state[t] # "RUNNING"
      /\ from' = [from EXCEPT ![p] = c] /\ cur' = [cur EXCEPT ![p] = t]
      /\ to' = [to EXCEPT ![p] = None] /\ pc' = [pc EXCEPT ![p] = "post"]
      /\ UNCHANGED <<state, joiner, freed, ready, sleeping, stop, target, handles, waiters>>
      /\ stop[p] = "BLOCKED" <=> Blocker(c)
  BY <1>1 DEF Switch, Goto, tcbVars, queueVars, clientVars, IInv, PcInv, StopPC
<1>3. \A q \in Procs : q # p /\ pc[q] # "spin" => cur[q] # t
  <2>1. SUFFICES ASSUME NEW q \in Procs, q # p, pc[q] # "spin", cur[q] = t  PROVE FALSE
    OBVIOUS
  <2>2. CASE t \in Bases
    BY <1>1, <2>1, <2>2 DEF Bases, IInv, BaseInv
  <2>3. CASE t \in Threads
    <3>1. ~HasCur(q, t)
      BY <1>1, <2>1, <2>3 DEF IInv, TokenInv, OneToken, HasToken
    <3>2. pc[q] \in {"dequeue", "save"} /\ stop[q] = "BLOCKED"
      BY <2>1, <3>1 DEF HasCur, StopPC
    <3> QED  BY <1>2, <2>1, <2>3, <3>2 DEF IInv, StateInv, CurState, PlaceOK
  <2> QED  BY <2>2, <2>3 DEF TCB
<1>4. TypeOK'
  BY <1>1, <1>2 DEF IInv, TypeOK
<1>5. PcInv'
  BY <1>1, <1>2, NullAssumption DEF IInv, PcInv, PostPC, StopPC, TypeOK
<1>6. BaseInv'
  <2>1. \A r \in Procs : t = Base[r] => p = r
    BY <1>1 DEF IInv, BaseInv
  <2>2. \A r \in Procs : Base[r] # None
    BY NullAssumption DEF TCB, Bases
  <2> QED  BY <1>2, <2>1, <2>2 DEF IInv, BaseInv, Queued, TypeOK
<1>7. Queued' = Queued /\ NoDup'
  BY <1>2 DEF Queued, IInv, TokenInv, NoDup
<1>8. \A v, u \in TCB : Awaits(v, u)' <=> Awaits(v, u)
  BY <1>2 DEF Awaits
<1>9. StateInv'
  <2>1. KindState' /\ QueueState' /\ AwaitState'
    BY <1>2, <1>7, <1>8 DEF IInv, StateInv, KindState, QueueState, AwaitState, Live, TCB
  <2>2. CurState'
    <3>1. t \in Threads => PlaceOK("post", stop[p], state[t])
      BY <1>1 DEF IInv, StateInv, ToState, Live, PlaceOK, Gone
    <3> QED  BY <1>1, <1>2, <3>1 DEF IInv, TypeOK, StateInv, CurState
  <2>3. FromState'
    <3>1. ~Blocker(c) => FromOK("post", state[c])
      BY <1>1, <1>2 DEF IInv, TypeOK, StateInv, CurState, PlaceOK, FromOK, Blocker, TCB
    <3> QED  BY <1>1, <1>2, <3>1 DEF IInv, TypeOK, StateInv, FromState, PostPC
  <2>4. ToState'
    BY <1>1, <1>2, NullAssumption DEF IInv, TypeOK, StateInv, ToState, Live, TCB
  <2> QED  BY <2>1, <2>2, <2>3, <2>4 DEF StateInv
<1>10. \A q \in Procs, x \in Threads : to'[q] = x => to[q] = x /\ q # p
  BY <1>2, NullAssumption DEF IInv, TypeOK, TCB
<1>11. \A q \in Procs, x \in Threads :
          /\ HasCur(q, x)' => HasCur(q, x) \/ (q = p /\ x = t)
          /\ HasFrom(q, x)' => HasFrom(q, x) \/ (q = p /\ x = c /\ ~Blocker(c))
          /\ HasCur(p, x)' => x = t
          /\ HasFrom(p, x)' => x = c /\ ~Blocker(c)
  BY <1>2 DEF HasCur, HasFrom, IInv, TypeOK, StopPC, PostPC
<1>12. c \in Threads /\ ~Blocker(c) => HasCur(p, c)
  BY <1>1, <1>2 DEF HasCur
<1>13. \A x \in Threads : OneToken(x)'
  <2>1. SUFFICES ASSUME NEW x \in Threads  PROVE OneToken(x)'
    OBVIOUS
  <2>2. x \in TCB /\ OneToken(x)
    BY DEF TCB, IInv, TokenInv
  <2>3. \A q \in Procs : HasToken(q, x)' => HasToken(q, x)
    BY <1>1, <1>10, <1>11, <1>12 DEF HasToken
  <2>4. \A q \in Procs : /\ ~(HasCur(q, x)' /\ to'[q] = x)
                         /\ ~(HasCur(q, x)' /\ HasFrom(q, x)')
                         /\ ~(to'[q] = x /\ HasFrom(q, x)')
    BY <1>1, <1>10, <1>11, <1>12, <2>2 DEF OneToken
  <2> QED  BY <1>2, <1>7, <1>8, <2>2, <2>3, <2>4 DEF OneToken
<1>14. TokenInv'
  BY <1>7, <1>13 DEF TokenInv
<1>15. OneProcessor'
  BY <1>1, <1>2, <1>3 DEF IInv, OneProcessor, TypeOK
<1> QED  BY <1>4, <1>5, <1>6, <1>9, <1>14, <1>15 DEF IInv

LEMMA DequeueStep ==
    ASSUME SafeCalls, IInv, NEW p \in Procs, Dequeue(p)
    PROVE  IInv'
<1>1. CASE ready = <<>> /\ cur[p] = Base[p]
  <2>1. /\ pc' = [pc EXCEPT ![p] = pc[p]] /\ stop' = [stop EXCEPT ![p] = stop[p]]
        /\ pc[p] = "dequeue" /\ sleeping' = sleeping \cup {p}
        /\ UNCHANGED <<state, joiner, freed, ready, pc, cur, to, from, stop, target, handles, waiters>>
    BY <1>1 DEF Dequeue, Sleep, Queued, tcbVars, clientVars, queueVars, IInv, TypeOK
  <2>2. TypeOK' /\ PcInv'
    BY <2>1 DEF IInv, TypeOK, PcInv
  <2>3. BaseInv' /\ QueueState' /\ AwaitState' /\ TokenInv'
    BY <2>1, KeepTokens DEF PostPC
  <2>4. cur[p] \in Threads => PlaceOK(pc[p], stop[p], state[cur[p]])
    BY DEF IInv, StateInv, CurState
  <2> QED  BY <2>1, <2>2, <2>3, <2>4, ControlStep DEF PostPC
<1>2. CASE ready # <<>> \/ cur[p] # Base[p]
  <2>1. PICK t \in TCB :
          /\ pc[p] = "dequeue" /\ to' = [to EXCEPT ![p] = t] /\ pc' = [pc EXCEPT ![p] = "save"]
          /\ UNCHANGED <<state, joiner, freed, sleeping, cur, from, stop, target, handles, waiters>>
          /\ \/ t \in Queued /\ Queued' = Queued \ {t}
             \/ t = Base[p] /\ Queued' = Queued
          /\ ready' \in Seq(TCB) /\ NoDup'
    <3>1. CASE ready # <<>>
      <4>1. /\ ready' = Tail(ready) /\ pc[p] = "dequeue" /\ to' = [to EXCEPT ![p] = Head(ready)]
            /\ pc' = [pc EXCEPT ![p] = "save"]
            /\ UNCHANGED <<state, joiner, freed, sleeping, cur, from, stop, target, handles, waiters>>
        BY <3>1 DEF Dequeue, Take, Sleep, Goto, tcbVars, clientVars
      <4>2. /\ ready' \in Seq(TCB) /\ NoDup'
            /\ Head(ready) \in Queued /\ Queued' = Queued \ {Head(ready)}
        BY <3>1, <4>1, DequeueLemma DEF IInv, TypeOK, TokenInv
      <4>3. Head(ready) \in TCB
        BY <3>1 DEF IInv, TypeOK
      <4> QED  BY <4>1, <4>2, <4>3
    <3>2. CASE ready = <<>>
      <4>1. /\ ready' = ready /\ pc[p] = "dequeue" /\ to' = [to EXCEPT ![p] = Base[p]]
            /\ pc' = [pc EXCEPT ![p] = "save"]
            /\ UNCHANGED <<state, joiner, freed, sleeping, cur, from, stop, target, handles, waiters>>
        BY <1>2, <3>2 DEF Dequeue, Queued, Goto, tcbVars, clientVars, queueVars
      <4>2. Base[p] \in TCB /\ Queued' = Queued /\ NoDup'
        BY <4>1 DEF TCB, Bases, Queued, NoDup, IInv, TokenInv
      <4> QED  BY <4>1, <4>2 DEF IInv, TypeOK
    <3> QED  BY <3>1, <3>2
  <2>2. TypeOK'
    BY <2>1 DEF IInv, TypeOK
  <2>3. PcInv'
    BY <2>1, NullAssumption DEF IInv, PcInv, PostPC, StopPC, TypeOK
  <2>4. t \in Threads => t \in Queued /\ Queued' = Queued \ {t}
    BY <2>1, BaseAssumption DEF Bases
  <2>5. t \in Bases => t = Base[p]
    BY <2>1, BaseAssumption DEF IInv, BaseInv
  <2>6. Queued' \subseteq Queued
    BY <2>1
  <2>7. BaseInv'
    <3>1. \A r \in Procs : t = Base[r] => r = p
      BY <2>5, BaseAssumption DEF Bases
    <3> QED  BY <2>1, <2>6, <3>1 DEF IInv, BaseInv, TypeOK
  <2>8. \A v, u \in TCB : Awaits(v, u)' <=> Awaits(v, u)
    BY <2>1 DEF Awaits
  <2>9. StateInv'
    <3>1. KindState' /\ QueueState' /\ AwaitState'
      BY <2>1, <2>6, <2>8 DEF IInv, StateInv, KindState, QueueState, AwaitState, Live, TCB
    <3>2. cur[p] \in Threads => PlaceOK("save", stop[p], state[cur[p]])
      BY <2>1 DEF IInv, StateInv, CurState, PlaceOK
    <3>3. CurState' /\ FromState'
      BY <2>1, <3>2 DEF IInv, TypeOK, StateInv, CurState, FromState, PostPC
    <3>4. ToState'
      BY <2>1, <2>4 DEF IInv, TypeOK, StateInv, ToState, QueueState, Live
    <3> QED  BY <3>1, <3>3, <3>4 DEF StateInv
  <2>10. \A q \in Procs, x \in Threads :
            /\ HasCur(q, x)' <=> HasCur(q, x)
            /\ HasFrom(q, x)' <=> HasFrom(q, x)
            /\ to'[q] = x => to[q] = x \/ (q = p /\ x = t)
    BY <2>1 DEF HasCur, HasFrom, IInv, TypeOK, StopPC, PostPC
  <2>11. \A x \in Threads : OneToken(x)'
    <3>1. SUFFICES ASSUME NEW x \in Threads  PROVE OneToken(x)'
      OBVIOUS
    <3>2. x \in TCB /\ OneToken(x)
      BY DEF TCB, IInv, TokenInv
    <3>3. CASE x # t
      BY <2>1, <2>6, <2>8, <2>10, <3>2, <3>3, FrameToken
    <3>4. CASE x = t
      <4>1. /\ x \notin Queued' /\ x \notin waiters /\ \A u \in TCB : ~Awaits(x, u)
            /\ \A q \in Procs : ~HasToken(q, x)
        BY <2>4, <3>2, <3>4 DEF OneToken
      <4>2. \A q \in Procs : /\ HasToken(q, x)' => q = p
                             /\ ~HasCur(q, x)' /\ ~HasFrom(q, x)'
        BY <2>10, <4>1 DEF HasToken
      <4> QED  BY <2>1, <2>8, <3>2, <4>1, <4>2 DEF OneToken
    <3> QED  BY <3>3, <3>4
  <2>12. TokenInv'
    BY <2>1, <2>11 DEF TokenInv
  <2>13. OneProcessor'
    BY <2>1 DEF IInv, OneProcessor, TypeOK
  <2> QED  BY <2>2, <2>3, <2>7, <2>9, <2>12, <2>13 DEF IInv
<1> QED  BY <1>1, <1>2

LEMMA SpuriousWakeUpStep ==
    ASSUME SafeCalls, IInv, NEW p \in Procs, SpuriousWakeUp(p)
    PROVE  IInv'
<1>1. /\ UNCHANGED <<state, joiner, freed, ready, pc, cur, to, from, stop, target, handles, waiters>>
      /\ sleeping' \subseteq sleeping
  BY DEF SpuriousWakeUp, WakeUp, tcbVars, procVars, clientVars
<1>2. TypeOK' /\ PcInv' /\ BaseInv' /\ OneProcessor'
  BY <1>1 DEF IInv, TypeOK, PcInv, BaseInv, OneProcessor, Queued
<1>3. StateInv'
  BY <1>1 DEF IInv, StateInv, KindState, CurState, FromState, ToState, QueueState, AwaitState,
              Awaits, Live, Queued
<1>4. Queued' = Queued /\ NoDup'
  BY <1>1 DEF IInv, TokenInv, NoDup, Queued
<1>5. \A t \in Threads : OneToken(t)'
  BY <1>1, <1>4, FrameToken DEF IInv, TokenInv, HasCur, HasFrom, Awaits
<1> QED  BY <1>2, <1>3, <1>4, <1>5 DEF IInv, TokenInv

-----------------------------------------------------------------------------
(* The theorems.                                                           *)

LEMMA InitStep == ASSUME Init  PROVE IInv
<1> USE ProcsAssumption, BaseAssumption, NullAssumption
<1>1. TypeOK
  BY DEF Init, QInit, TypeOK, States, TCB, Bases
<1>2. Queued = {}
  BY DEF Init, QInit, Queued
<1>3. PcInv
  BY DEF Init, PcInv, PostPC, StopPC, TCB, Bases
<1>4. BaseInv
  BY <1>2 DEF Init, BaseInv, TCB, Bases
<1>5. \A p \in Procs : cur[p] \in Threads => p = P0 /\ cur[p] = Main
  BY DEF Init, Bases
<1>6. KindState
  BY DEF Init, KindState, Blocker, TCB, Bases
<1>7. CurState
  BY <1>5 DEF Init, CurState, PlaceOK, TCB, Bases
<1>8. FromState /\ ToState /\ QueueState /\ AwaitState
  BY <1>2 DEF Init, FromState, ToState, QueueState, AwaitState, Awaits, PostPC, TCB
<1>9. TokenInv
  <2>1. NoDup
    BY DEF Init, QInit, NoDup
  <2>2. \A t \in Threads : OneToken(t)
    BY <1>2, <1>5 DEF Init, OneToken, HasToken, HasCur, HasFrom, Awaits, TCB
  <2> QED  BY <2>1, <2>2 DEF TokenInv
<1>10. OneProcessor
  BY DEF Init, OneProcessor, Bases
<1> QED  BY <1>1, <1>3, <1>4, <1>6, <1>7, <1>8, <1>9, <1>10 DEF IInv, StateInv

LEMMA NextStep == ASSUME SafeCalls, IInv, [Next]_vars  PROVE IInv'
<1>1. CASE UNCHANGED vars
  <2>1. UNCHANGED <<state, joiner, freed, ready, sleeping, pc, cur, to, from, stop,
                    target, handles, waiters>>
    BY <1>1 DEF vars, tcbVars, queueVars, procVars, clientVars
  <2>2. TypeOK' /\ PcInv' /\ BaseInv' /\ OneProcessor'
    BY <2>1 DEF IInv, TypeOK, PcInv, BaseInv, OneProcessor, Queued
  <2>3. StateInv'
    BY <2>1 DEF IInv, StateInv, KindState, CurState, FromState, ToState, QueueState, AwaitState,
                Awaits, Live, Queued
  <2>4. Queued' = Queued /\ NoDup'
    BY <2>1 DEF IInv, TokenInv, NoDup, Queued
  <2>5. \A t \in Threads : OneToken(t)'
    BY <2>1, <2>4, FrameToken DEF IInv, TokenInv, HasCur, HasFrom, Awaits
  <2> QED  BY <2>2, <2>3, <2>4, <2>5 DEF IInv, TokenInv
<1>2. ASSUME NEW p \in Procs, Step(p)  PROVE IInv'
  <2>1. CASE \/ Dequeue(p) \/ Save(p) \/ Switch(p)
             \/ PostDying(p) \/ PostRunable(p) \/ Reap(p) \/ Requeue(p) \/ Resume(p)
    BY <1>2, <2>1, DequeueStep, SaveStep, SwitchStep, PostDyingStep, PostRunableStep, ReapStep,
       RequeueStep, ResumeStep
  <2>2. CASE Idle(p) \/ Yield(p) \/ Block(p) \/ Exit(p) \/ JoinLocked(p)
    BY <1>2, <2>2, IdleStep, YieldStep, BlockStep, ExitStep, JoinLockedStep
  <2>3. CASE Release(p)
    BY <1>2, <2>3, ReleaseStep DEF Release
  <2>4. ASSUME NEW t \in Threads, Create(p, t) \/ Unblock(p, t) \/ Join(p, t) \/ Detach(p, t)
        PROVE  IInv'
    BY <2>4, CreateStep, UnblockStep, UseHandleStep
  <2> QED  BY <1>2, <2>1, <2>2, <2>3, <2>4 DEF Step
<1>3. ASSUME NEW p \in Procs, SpuriousWakeUp(p)  PROVE IInv'
  BY <1>3, SpuriousWakeUpStep
<1> QED  BY <1>1, <1>2, <1>3 DEF Next

\* The inductive invariant: every variable keeps its type and there is at most
\* one token for every uthread.
THEOREM Invariance == SafeCalls => (Spec => []IInv)
<1>1. SUFFICES ASSUME SafeCalls  PROVE Spec => []IInv
  OBVIOUS
<1>2. Init => IInv
  BY InitStep
<1>3. IInv /\ [Next]_vars => IInv'
  BY <1>1, NextStep
<1> QED  BY <1>2, <1>3, PTL DEF Spec

\* Types: the processors and the TCBs keep the values uthread.c gives them.
THEOREM Typing == SafeCalls => (Spec => []TypeOK)
<1>1. IInv => TypeOK
  BY DEF IInv
<1> QED  BY <1>1, Invariance, PTL

\* uthread_switch never runs a uthread on two processors, for any number of
\* processors and uthreads.
THEOREM RunsOnOneProcessor == SafeCalls => (Spec => []OneProcessor)
<1>1. IInv => OneProcessor
  BY DEF IInv
<1> QED  BY <1>1, Invariance, PTL

-----------------------------------------------------------------------------
(***************************************************************************)
(* What becomes of a uthread: its TCB is freed once and is not touched any *)
(* more, and until it terminates it is never lost.  Both rest on the       *)
(* tokens, and on the handles: who joins or detaches a uthread has its     *)
(* handle for itself, so that nobody else comes to free it (HandleInv).    *)
(***************************************************************************)

\* A uthread that is being joined or detached has no handle any more; the one
\* who does it is the only one, and leaves the joiner Detached when it is done.
HandleInv ==
    /\ \A u \in TCB : target[u] # None => /\ target[u] \notin handles
                                          /\ joiner[target[u]] # Detached
                                          /\ state[target[u]] # "NONE"
    /\ \A u, v \in TCB : target[u] # None /\ target[u] = target[v] => u = v
    /\ \A t \in handles : joiner[t] # Detached /\ state[t] # "NONE"
    /\ \A t \in TCB : joiner[t] = Detached => state[t] # "NONE"

\* No processor has t in a variable that it will use.
Apart(t) == \A p \in Procs : /\ cur[p] # t /\ to[p] # t
                             /\ pc[p] \in PostPC => from[p] # t

FreedInv ==
    \A t \in freed : /\ state[t] \in Gone
                     /\ Apart(t)
                     /\ t \notin handles
                     /\ \A u \in TCB : target[u] # t

LifeInv == HandleInv /\ FreedInv

\* Somebody will run t, or start it.
HasSome(t) == \/ \E p \in Procs : HasToken(p, t)
              \/ t \in Queued \cup waiters
              \/ Joining(t)

Tokens == \A t \in Threads : Live(t) => HasSome(t)

-----------------------------------------------------------------------------
(* What is freed stays apart.                                              *)

\* uthread_stop goes on with a queued uthread or with the base uthread.
LEMMA DequeueTo ==
    ASSUME IInv, NEW p \in Procs, Dequeue(p)
    PROVE  /\ UNCHANGED <<tcbVars, cur, from, stop, clientVars>>
           /\ \/ UNCHANGED <<to, pc>> /\ Queued' = Queued
              \/ \E t \in TCB :
                    /\ to' = [to EXCEPT ![p] = t] /\ pc' = [pc EXCEPT ![p] = "save"]
                    /\ \/ t \in Queued /\ Queued' = Queued \ {t}
                       \/ t = Base[p] /\ Queued' = Queued
<1>1. CASE ready # <<>>
  <2>1. \/ UNCHANGED <<to, pc, ready>>
        \/ /\ ready' = Tail(ready) /\ to' = [to EXCEPT ![p] = Head(ready)]
           /\ pc' = [pc EXCEPT ![p] = "save"]
    BY <1>1 DEF Dequeue, Take, Sleep, Goto
  <2>2. Head(ready) \in TCB /\ (ready' = Tail(ready) =>
            Head(ready) \in Queued /\ Queued' = Queued \ {Head(ready)})
    BY <1>1, DequeueLemma DEF IInv, TypeOK, TokenInv
  <2> QED  BY <2>1, <2>2 DEF Dequeue, Queued
<1>2. CASE ready = <<>>
  <2>1. Base[p] \in TCB /\ Queued = {}
    BY <1>2 DEF TCB, Bases, Queued
  <2>2. \/ UNCHANGED <<to, pc>> /\ ready' = ready
        \/ /\ ready' = ready /\ to' = [to EXCEPT ![p] = Base[p]]
           /\ pc' = [pc EXCEPT ![p] = "save"]
    BY <1>2, <2>1 DEF Dequeue, Take, Sleep, Goto, queueVars
  <2>3. Queued' = Queued
    BY <2>2 DEF Queued
  <2> QED  BY <2>1, <2>2, <2>3 DEF Dequeue
<1> QED  BY <1>1, <1>2

\* Base uthreads do not terminate.
LEMMA BaseNotGone == ASSUME IInv, NEW b \in Bases PROVE state[b] \notin Gone
BY DEF IInv, StateInv, KindState, Blocker, TCB, Gone

\* A uthread that is queued has not terminated.
LEMMA QueuedNotGone == ASSUME IInv, NEW t \in Queued PROVE state[t] \notin Gone
BY DEF IInv, StateInv, QueueState, Live, Gone

LEMMA ApartStep ==
    ASSUME IInv, NEW p \in Procs, Step(p), NEW t \in TCB, state[t] \in Gone, Apart(t)
    PROVE  Apart(t)'
<1>t. TypeOK
  BY DEF IInv
<1>n. t # None
  BY NullAssumption
<1>1. CASE Dequeue(p)
  <2>1. \A u \in TCB : u \in Queued \/ u = Base[p] => u # t
    BY BaseNotGone, QueuedNotGone DEF Bases
  <2> QED  BY <1>1, <1>t, <2>1, DequeueTo DEF Apart, TypeOK, PostPC
<1>2. CASE Switch(p)
  BY <1>2, <1>t, <1>n DEF Switch, Goto, Apart, TypeOK, PostPC
<1>3. CASE Resume(p)
  BY <1>3, <1>t DEF Resume, Goto, Apart, TypeOK, PostPC
<1>4. CASE ~Dequeue(p) /\ ~Switch(p) /\ ~Resume(p)
  <2>1. UNCHANGED <<cur, to, from>>
    BY <1>4 DEF Step, Save, PostDying, PostRunable, Reap, Requeue, Idle, Yield, Block, Exit, JoinLocked,
                Release, ReleaseTarget, Create, Unblock, Join, Detach, UseHandle, Stop, procVars
  <2>2. \A q \in Procs : pc'[q] \in PostPC => pc[q] \in PostPC
    BY <1>4, <1>t DEF Step, Save, PostDying, PostRunable, Reap, Requeue, Idle, Yield, Block, Exit, JoinLocked,
                Release, ReleaseTarget, Create, Unblock, Join, Detach, UseHandle, Stop, procVars, Goto,
                TypeOK, PostPC
  <2> QED  BY <2>1, <2>2 DEF Apart
<1> QED  BY <1>1, <1>2, <1>3, <1>4

\* A step that changes neither states nor what the clients have in hand.
LEMMA QuietLife ==
    ASSUME IInv, LifeInv, NEW p \in Procs, Step(p),
           UNCHANGED <<state, joiner, freed, target, handles>>
    PROVE  LifeInv'
<1>1. HandleInv'
  BY DEF LifeInv, HandleInv
<1>2. \A t \in freed : Apart(t)'
  BY ApartStep DEF LifeInv, FreedInv, IInv, TypeOK
<1> QED  BY <1>1, <1>2 DEF LifeInv, FreedInv

\* A step of p that changes only the state of the uthread on it.
LEMMA StateLife ==
    ASSUME IInv, LifeInv, NEW p \in Procs, Step(p), NEW x \in States \ {"NONE"},
           state' = [state EXCEPT ![cur[p]] = x],
           UNCHANGED <<joiner, freed, target, handles>>
    PROVE  LifeInv'
<1>t. TypeOK
  BY DEF IInv
<1>1. \A t \in TCB : state[t] # "NONE" => state'[t] # "NONE"
  BY <1>t DEF TypeOK
<1>2. HandleInv'
  BY <1>t, <1>1, NullAssumption DEF LifeInv, HandleInv, TypeOK, TCB
<1>3. \A t \in freed : t \in TCB /\ Apart(t)'
  BY <1>t, ApartStep DEF LifeInv, FreedInv, TypeOK
<1>4. \A t \in freed : state'[t] = state[t]
  BY <1>t DEF LifeInv, FreedInv, Apart, TypeOK
<1> QED  BY <1>2, <1>3, <1>4 DEF LifeInv, FreedInv

\* Who has terminated and is not being reaped is on no processor.
LEMMA DeadApart ==
    ASSUME IInv, NEW t \in TCB, state[t] = "DEAD"
    PROVE  Apart(t)
<1>t. TypeOK /\ PcInv /\ StateInv
  BY DEF IInv
<1>1. t \in Threads /\ ~Blocker(t)
  BY <1>t, BaseNotGone DEF StateInv, KindState, TCB, Gone
<1> SUFFICES ASSUME NEW p \in Procs
             PROVE  cur[p] # t /\ to[p] # t /\ (pc[p] \in PostPC => from[p] # t)
  BY DEF Apart
<1>2. cur[p] # t
  <2>1. ASSUME cur[p] = t  PROVE PlaceOK(pc[p], stop[p], "DEAD")
    BY <1>t, <1>1, <2>1 DEF StateInv, CurState
  <2>2. pc[p] \in {"user", "join", "release", "dequeue", "save", "spin",
                   "post", "recheck", "reap", "requeue", "resume"}
    BY <1>t DEF TypeOK
  <2>3. cur[p] = t => (pc[p] = "spin" => stop[p] # "BLOCKED")
    BY <1>t, <1>1 DEF PcInv, StopPC
  <2>4. stop[p] # "DEAD"
    BY <1>t DEF TypeOK
  <2> QED  BY <2>1, <2>2, <2>3, <2>4 DEF PlaceOK, Gone
<1>3. to[p] # t
  BY <1>t, <1>1 DEF StateInv, ToState, Live
<1>4. pc[p] \in PostPC => from[p] # t
  BY <1>t, <1>1 DEF StateInv, FromState, FromOK, PostPC
<1> QED  BY <1>2, <1>3, <1>4

LEMMA ReapLife ==
    ASSUME IInv, LifeInv, NEW p \in Procs, Reap(p)
    PROVE  LifeInv'
<1>t. TypeOK /\ PcInv /\ StateInv /\ TokenInv
  BY DEF IInv
<1> DEFINE t == from[p]
<1>1. /\ pc[p] = "reap" /\ t # None /\ t \in TCB /\ ~Blocker(t) /\ state[t] = "DYING"
      /\ t \in Threads
  BY <1>t DEF Reap, PcInv, PostPC, StateInv, FromState, FromOK, TypeOK, TCB, Blocker
<1>2. /\ UNCHANGED <<joiner, target, handles, cur, to, from>>
      /\ pc' = [pc EXCEPT ![p] = "resume"]
  BY DEF Reap, Goto, clientVars
<1>3. ASSUME NEW u \in freed  PROVE u \in TCB /\ Apart(u)'
  BY <1>3, <1>t, ApartStep DEF LifeInv, FreedInv, TypeOK, Step
<1>4. CASE joiner[t] = Detached
  <2>1. freed' = freed \cup {t} /\ state' = state
    BY <1>4 DEF Reap
  <2>2. HandleInv'
    BY <1>2, <2>1 DEF LifeInv, HandleInv
  <2>3. HasFrom(p, t)
    BY <1>1 DEF HasFrom, PostPC
  <2>4. \A q \in Procs : ~HasCur(q, t) /\ to[q] # t /\ (q # p => ~HasFrom(q, t))
    BY <1>t, <1>1, <2>3 DEF TokenInv, OneToken, HasToken
  <2>5. Apart(t)'
    <3>1. \A q \in Procs : cur[q] # t
      BY <1>t, <1>1, <2>4 DEF HasCur, PcInv
    <3>2. \A q \in Procs \ {p} : pc[q] \in PostPC => from[q] # t
      BY <1>1, <2>4 DEF HasFrom
    <3> QED  BY <1>t, <1>2, <2>4, <3>1, <3>2 DEF Apart, TypeOK, PostPC
  <2>6. t \notin handles /\ \A u \in TCB : target[u] # t
    BY <1>1, <1>4 DEF LifeInv, HandleInv
  <2> QED  BY <1>1, <1>2, <1>3, <2>1, <2>2, <2>5, <2>6 DEF LifeInv, FreedInv, Gone
<1>5. CASE joiner[t] # Detached
  <2>1. freed' = freed /\ state' = [state EXCEPT ![t] = "DEAD"]
    BY <1>5 DEF Reap
  <2>2. \A u \in TCB : state[u] # "NONE" => state'[u] # "NONE"
    BY <1>t, <2>1 DEF TypeOK
  <2>3. HandleInv'
    BY <1>t, <1>2, <2>2, NullAssumption DEF LifeInv, HandleInv, TypeOK, TCB
  <2>4. \A u \in freed : state'[u] \in Gone
    BY <1>t, <2>1 DEF LifeInv, FreedInv, TypeOK, Gone
  <2> QED  BY <1>2, <1>3, <2>1, <2>3, <2>4 DEF LifeInv, FreedInv
<1> QED  BY <1>4, <1>5

LEMMA CreateLife ==
    ASSUME IInv, LifeInv, NEW p \in Procs, NEW t \in Threads, Create(p, t)
    PROVE  LifeInv'
<1>t. TypeOK
  BY DEF IInv
<1>1. /\ state[t] = "NONE" /\ state' = [state EXCEPT ![t] = "NASCENT"]
      /\ handles' = handles \cup {t} /\ UNCHANGED <<joiner, freed, target>>
  BY DEF Create
<1>2. Step(p) /\ t \in TCB
  BY DEF Step, TCB
<1>3. \A u \in TCB : state[u] # "NONE" => u # t /\ state'[u] = state[u]
  BY <1>t, <1>1 DEF TypeOK
<1>4. joiner[t] # Detached /\ state'[t] # "NONE"
  BY <1>t, <1>1, <1>2 DEF LifeInv, HandleInv, TypeOK
<1>5. HandleInv'
  BY <1>t, <1>1, <1>3, <1>4, NullAssumption DEF LifeInv, HandleInv, TypeOK, TCB
<1>6. \A u \in freed : u \in TCB /\ Apart(u)' /\ state[u] # "NONE"
  BY <1>t, <1>2, ApartStep DEF LifeInv, FreedInv, TypeOK, Gone
<1>7. FreedInv'
  BY <1>1, <1>3, <1>6 DEF LifeInv, FreedInv
<1> QED  BY <1>5, <1>7 DEF LifeInv

LEMMA UseHandleLife ==
    ASSUME IInv, LifeInv, NEW p \in Procs, NEW t \in Threads, Join(p, t) \/ Detach(p, t)
    PROVE  LifeInv'
<1>t. TypeOK
  BY DEF IInv
<1>0. Step(p) /\ t \in TCB
  BY DEF Step, TCB
<1>1. /\ t \in handles /\ handles' = handles \ {t} /\ UNCHANGED <<state, joiner, freed>>
      /\ target' = target \/ target' = [target EXCEPT ![cur[p]] = t]
  BY DEF Join, Detach, UseHandle, tcbVars
<1>2. joiner[t] # Detached /\ state[t] # "NONE" /\ t \notin freed /\ \A u \in TCB : target[u] # t
  <2>1. t # None
    BY <1>0, NullAssumption
  <2> QED  BY <1>1, <2>1 DEF LifeInv, HandleInv, FreedInv
<1>3. \A u \in TCB : target'[u] \in {target[u], t}
  BY <1>t, <1>1 DEF TypeOK
<1>4. \A u, v \in TCB : target'[u] = t /\ target'[v] = t => u = v
  BY <1>t, <1>1, <1>2 DEF TypeOK
<1>5. HandleInv'
  BY <1>1, <1>2, <1>3, <1>4 DEF LifeInv, HandleInv
<1>6. \A u \in freed : u \in TCB /\ Apart(u)'
  BY <1>t, <1>0, ApartStep DEF LifeInv, FreedInv, TypeOK
<1>7. FreedInv'
  BY <1>1, <1>2, <1>3, <1>6 DEF LifeInv, FreedInv
<1> QED  BY <1>5, <1>7 DEF LifeInv

\* uthread_join before it blocks.
LEMMA JoinBlocksLife ==
    ASSUME IInv, LifeInv, NEW p \in Procs, JoinLocked(p), state[target[cur[p]]] \notin Gone
    PROVE  LifeInv'
<1>t. TypeOK
  BY DEF IInv
<1>1. /\ joiner' = [joiner EXCEPT ![target[cur[p]]] = cur[p]]
      /\ UNCHANGED <<state, freed, target, handles>>
  BY DEF JoinLocked, Gone
<1>2. cur[p] \in TCB /\ cur[p] # Detached
  BY <1>t, NullAssumption DEF TypeOK
<1>3. \A u \in TCB : joiner'[u] = Detached => joiner[u] = Detached
  BY <1>t, <1>1, <1>2 DEF TypeOK
<1>4. HandleInv'
  BY <1>t, <1>1, <1>3, NullAssumption DEF LifeInv, HandleInv, TypeOK, TCB
<1>5. \A u \in freed : u \in TCB /\ Apart(u)'
  BY <1>t, ApartStep DEF LifeInv, FreedInv, TypeOK, Step
<1> QED  BY <1>1, <1>4, <1>5 DEF LifeInv, FreedInv

LEMMA ReleaseLife ==
    ASSUME IInv, LifeInv, NEW p \in Procs, Step(p), pc[p] \in {"join", "release"},
           ReleaseTarget(p), UNCHANGED <<state, cur, to, from, handles>>
    PROVE  LifeInv'
<1>t. TypeOK /\ PcInv
  BY DEF IInv
<1> DEFINE me == cur[p]
           t == target[me]
<1>1. /\ me \in TCB /\ t # None /\ t \in Threads /\ t \in TCB
      /\ t \notin handles /\ joiner[t] # Detached /\ state[t] # "NONE"
      /\ \A u \in TCB : target[u] = t => u = me
  BY <1>t DEF PcInv, TypeOK, TCB, LifeInv, HandleInv
<1>2. target' = [target EXCEPT ![me] = None]
  BY DEF ReleaseTarget
<1>3. \A u \in TCB : target'[u] = IF u = me THEN None ELSE target[u]
  BY <1>t, <1>2 DEF TypeOK
<1>4. \A u \in TCB : target'[u] # t
  BY <1>1, <1>3
<1>5. \A u \in freed : u \in TCB /\ Apart(u)'
  BY <1>t, ApartStep DEF LifeInv, FreedInv, TypeOK
<1>6. CASE state[t] = "DEAD"
  <2>1. freed' = freed \cup {t} /\ joiner' = joiner
    BY <1>6 DEF ReleaseTarget
  <2>2. HandleInv'
    BY <1>3, <2>1 DEF LifeInv, HandleInv
  <2>3. Apart(target[cur[p]]) /\ \A q \in Procs : UNCHANGED <<cur[q], to[q], from[q]>>
    BY <1>1, <1>6, DeadApart
  <2>4. \A q \in Procs : pc'[q] \in PostPC => q # p /\ pc[q] \in PostPC
    BY <1>t DEF ReleaseTarget, Goto, PostPC, TypeOK
  <2>5. \A q \in Procs : cur'[q] # t /\ to'[q] # t /\ (pc'[q] \in PostPC => from'[q] # t)
    BY <2>3, <2>4 DEF Apart
  <2>6. ASSUME NEW u \in freed \cup {t}
        PROVE  /\ state[u] \in Gone /\ u \notin handles /\ \A v \in TCB : target'[v] # u
               /\ \A q \in Procs : cur'[q] # u /\ to'[q] # u /\ (pc'[q] \in PostPC => from'[q] # u)
    <3>1. CASE u = t
      BY <1>1, <1>4, <1>6, <2>5, <3>1 DEF Gone
    <3>2. CASE u \in freed
      BY <1>3, <1>5, <3>2, NullAssumption DEF LifeInv, FreedInv, Apart
    <3> QED  BY <3>1, <3>2
  <2>7. FreedInv'
    BY <2>1, <2>6 DEF FreedInv, Apart
  <2> QED  BY <2>2, <2>7 DEF LifeInv
<1>7. CASE state[t] # "DEAD"
  <2>1. freed' = freed /\ joiner' = [joiner EXCEPT ![t] = Detached]
    BY <1>7 DEF ReleaseTarget
  <2>2. \A u \in TCB : u # t => joiner'[u] = joiner[u]
    BY <1>t, <2>1 DEF TypeOK
  <2>3. \A u \in TCB : target'[u] # None => target'[u] = target[u] /\ target'[u] \in TCB /\ target'[u] # t
    BY <1>t, <1>3, <1>4 DEF TypeOK, TCB
  <2>4. HandleInv'
    BY <1>t, <1>1, <2>2, <2>3 DEF LifeInv, HandleInv, TypeOK, TCB
  <2>5. FreedInv'
    BY <1>3, <1>5, <2>1, NullAssumption DEF LifeInv, FreedInv
  <2> QED  BY <2>4, <2>5 DEF LifeInv
<1> QED  BY <1>6, <1>7

LEMMA LifeStep == ASSUME IInv, LifeInv, [Next]_vars  PROVE LifeInv'
<1>t. TypeOK
  BY DEF IInv
<1>1. CASE UNCHANGED vars
  BY <1>1 DEF vars, tcbVars, procVars, clientVars, LifeInv, HandleInv, FreedInv, Apart
<1>2. ASSUME NEW p \in Procs, SpuriousWakeUp(p)  PROVE LifeInv'
  BY <1>2 DEF SpuriousWakeUp, tcbVars, procVars, clientVars, LifeInv, HandleInv, FreedInv, Apart
<1>3. ASSUME NEW p \in Procs, Step(p)  PROVE LifeInv'
  <2>1. CASE \/ Dequeue(p) \/ Switch(p) \/ PostDying(p) \/ PostRunable(p) \/ Requeue(p)
             \/ Idle(p) \/ Yield(p) \/ Block(p)
    BY <1>3, <2>1, QuietLife DEF Dequeue, Switch, PostDying, PostRunable, Requeue, Idle, Yield, Block,
                                 tcbVars, clientVars
  <2>2. CASE Save(p) \/ Resume(p) \/ Exit(p)
    <3>1. PICK x \in States \ {"NONE"} : state' = [state EXCEPT ![cur[p]] = x]
      <4>1. stop[p] \in States \ {"NONE"}
        BY <1>t DEF TypeOK, States
      <4> QED  BY <2>2, <4>1 DEF Save, Resume, Exit, States
    <3>2. UNCHANGED <<joiner, freed, target, handles>>
      BY <2>2 DEF Save, Resume, Exit, clientVars
    <3> QED  BY <1>3, <3>1, <3>2, StateLife
  <2>3. CASE Reap(p)
    BY <2>3, ReapLife
  <2>4. CASE JoinLocked(p)
    <3>1. CASE state[target[cur[p]]] \in Gone
      <4>1. pc[p] = "join" /\ ReleaseTarget(p) /\ UNCHANGED <<state, cur, to, from, handles>>
        BY <2>4, <3>1 DEF JoinLocked, Gone
      <4> QED  BY <1>3, <4>1, ReleaseLife
    <3>2. CASE state[target[cur[p]]] \notin Gone
      BY <2>4, <3>2, JoinBlocksLife
    <3> QED  BY <3>1, <3>2
  <2>5. CASE Release(p)
    BY <1>3, <2>5, ReleaseLife DEF Release
  <2>6. ASSUME NEW t \in Threads, Create(p, t) \/ Unblock(p, t) \/ Join(p, t) \/ Detach(p, t)
        PROVE  LifeInv'
    <3>1. CASE Unblock(p, t)
      BY <1>3, <3>1, QuietLife DEF Unblock, tcbVars
    <3> QED  BY <2>6, <3>1, CreateLife, UseHandleLife
  <2> QED  BY <1>3, <2>1, <2>2, <2>3, <2>4, <2>5, <2>6 DEF Step
<1> QED  BY <1>1, <1>2, <1>3 DEF Next

LEMMA InitLife == Init => LifeInv
<1> SUFFICES ASSUME Init  PROVE LifeInv
  OBVIOUS
<1>1. HandleInv
  BY NullAssumption DEF Init, HandleInv
<1> QED  BY <1>1 DEF Init, LifeInv, FreedInv

\* No processor uses, frees again or dequeues a TCB that the switch, uthread_join
\* or uthread_detach has freed, for any number of processors and uthreads.
THEOREM MemorySafety == SafeCalls => (Spec => []NoUseAfterFree)
<1>1. IInv /\ LifeInv => NoUseAfterFree
  <2> SUFFICES ASSUME IInv, LifeInv  PROVE NoUseAfterFree
    OBVIOUS
  <2>1. Queued \cap freed = {}
    BY QueuedNotGone DEF LifeInv, FreedInv
  <2>2. ASSUME NEW p \in Procs  PROVE Touched(p) \cap freed = {}
    <3>1. cur[p] \in TCB
      BY DEF IInv, TypeOK
    <3> QED  BY <3>1 DEF Touched, LifeInv, FreedInv, Apart, PostPC
  <2> QED  BY <2>1, <2>2 DEF NoUseAfterFree
<1>2. IInv /\ LifeInv /\ [Next]_vars => LifeInv'
  BY LifeStep
<1> QED  BY <1>1, <1>2, InitLife, Invariance, PTL DEF Spec

-----------------------------------------------------------------------------
(* No uthread is lost.                                                     *)

\* A step of p leaves the tokens of the other processors.
LEMMA OthersTokens ==
    ASSUME TypeOK, NEW p \in Procs, Step(p), NEW q \in Procs, q # p, NEW t
    PROVE  HasToken(q, t)' <=> HasToken(q, t)
<1>1. pc'[q] = pc[q] /\ cur'[q] = cur[q] /\ to'[q] = to[q] /\ from'[q] = from[q] /\ stop'[q] = stop[q]
  BY DEF Step, Dequeue, Save, Switch, PostDying, PostRunable, Reap, Requeue, Resume, Idle, Yield, Block,
         Exit, JoinLocked, Release, ReleaseTarget, Create, Unblock, Join, Detach, UseHandle, Stop, Goto,
         procVars, TypeOK
<1> QED  BY <1>1 DEF HasToken, HasCur, HasFrom

\* What may take a uthread from those who would run or start it: the step of p
\* has its token, takes it off a queue, or changes a joiner or a state.
LEMMA KeepSome ==
    ASSUME TypeOK, Tokens, NEW p \in Procs, Step(p), NEW t \in Threads, Live(t),
           HasToken(p, t) => HasSome(t)',
           t \in Queued \cup waiters => HasSome(t)',
           Joining(t) => HasSome(t)'
    PROVE  HasSome(t)'
<1>1. ASSUME NEW q \in Procs, HasToken(q, t), q # p  PROVE HasSome(t)'
  BY <1>1, OthersTokens DEF HasSome
<1> QED  BY <1>1 DEF Tokens, HasSome

\* A step that only moves p, and leaves it the tokens it has.
LEMMA MoveSome ==
    ASSUME IInv, Tokens, NEW p \in Procs, Step(p),
           UNCHANGED <<state, joiner, target>>,
           Queued \cup waiters \subseteq Queued' \cup waiters',
           \A t \in Threads : HasToken(p, t) => HasSome(t)'
    PROVE  Tokens'
<1> SUFFICES ASSUME NEW t \in Threads, Live(t)'  PROVE HasSome(t)'
  BY DEF Tokens
<1>1. Live(t) /\ (Joining(t) => Joining(t)')
  BY DEF Live, Joining
<1> QED  BY <1>1, KeepSome DEF HasSome, IInv

LEMMA DequeueSome ==
    ASSUME IInv, Tokens, NEW p \in Procs, Dequeue(p)
    PROVE  Tokens'
<1>t. TypeOK /\ PcInv
  BY DEF IInv
<1>0. Step(p) /\ pc[p] = "dequeue"
  BY DEF Step, Dequeue
<1>1. UNCHANGED <<state, joiner, target, waiters, cur, from, stop>>
  BY DequeueTo DEF tcbVars, clientVars
<1>2. ASSUME UNCHANGED <<to, pc>>, Queued' = Queued  PROVE Tokens'
  <2>1. \A t \in Threads : HasToken(p, t) => HasSome(t)'
    BY <1>1, <1>2 DEF HasToken, HasCur, HasFrom, HasSome
  <2> QED  BY <1>0, <1>1, <1>2, <2>1, MoveSome
<1>3. ASSUME NEW u \in TCB, to' = [to EXCEPT ![p] = u], pc' = [pc EXCEPT ![p] = "save"],
             \/ u \in Queued /\ Queued' = Queued \ {u}
             \/ Queued' = Queued
      PROVE  Tokens'
  <2>1. to'[p] = u /\ pc'[p] = "save" /\ to[p] = None
    BY <1>t, <1>0, <1>3 DEF TypeOK, PcInv
  <2>2. HasToken(p, u)'
    BY <2>1 DEF HasToken
  <2>3. \A t \in Threads : HasToken(p, t) => HasToken(p, t)'
    BY <1>0, <1>1, <2>1, NullAssumption DEF HasToken, HasCur, HasFrom, StopPC, PostPC, TCB
  <2> SUFFICES ASSUME NEW t \in Threads, Live(t)'  PROVE HasSome(t)'
    BY DEF Tokens
  <2>4. Live(t) /\ (Joining(t) => Joining(t)')
    BY <1>1 DEF Live, Joining
  <2>5. t \in Queued \cup waiters => HasSome(t)'
    BY <1>1, <1>3, <2>2 DEF HasSome
  <2> QED  BY <1>t, <1>0, <2>3, <2>4, <2>5, KeepSome DEF HasSome
<1> QED  BY <1>2, <1>3, DequeueTo

LEMMA SwitchSome ==
    ASSUME IInv, Tokens, NEW p \in Procs, Switch(p)
    PROVE  Tokens'
<1>t. TypeOK /\ PcInv
  BY DEF IInv
<1>1. /\ pc[p] = "spin" /\ pc'[p] = "post" /\ from'[p] = cur[p] /\ cur'[p] = to[p]
      /\ UNCHANGED <<state, joiner, target, waiters, ready>>
  BY <1>t DEF Switch, Goto, TypeOK, tcbVars, clientVars, queueVars
<1>2. ASSUME NEW t \in Threads, HasToken(p, t)  PROVE HasToken(p, t)'
  BY <1>t, <1>1, <1>2 DEF HasToken, HasCur, HasFrom, StopPC, PostPC, PcInv
<1> QED  BY <1>1, <1>2, MoveSome DEF Step, HasSome, Queued

\* The steps after the change of stacks, until the old uthread is disposed of.
LEMMA PostSome ==
    ASSUME IInv, Tokens, NEW p \in Procs, PostDying(p) \/ PostRunable(p)
    PROVE  Tokens'
<1>t. TypeOK /\ PcInv /\ StateInv
  BY DEF IInv
<1>1. /\ pc[p] \in {"post", "recheck"} /\ pc'[p] \in {"recheck", "reap", "requeue", "resume"}
      /\ UNCHANGED <<state, joiner, target, waiters, ready, cur, to, from, stop>>
  BY <1>t DEF PostDying, PostRunable, Goto, TypeOK, tcbVars, clientVars, queueVars
<1>2. ASSUME NEW t \in Threads, HasFrom(p, t)  PROVE pc'[p] \in PostPC
  <2>1. FromOK(pc[p], state[from[p]])
    BY <1>t, <1>1, <1>2 DEF HasFrom, StateInv, FromState, PostPC
  <2> QED  BY <1>t, <1>1, <2>1 DEF FromOK, PostDying, PostRunable, Goto, TypeOK, PostPC
<1>3. ASSUME NEW t \in Threads, HasToken(p, t)  PROVE HasToken(p, t)'
  BY <1>1, <1>2, <1>3 DEF HasToken, HasCur, HasFrom, StopPC
<1> QED  BY <1>1, <1>3, MoveSome DEF Step, HasSome, Queued

LEMMA RequeueSome ==
    ASSUME IInv, Tokens, NEW p \in Procs, Requeue(p)
    PROVE  Tokens'
<1>t. TypeOK /\ PcInv
  BY DEF IInv
<1>1. /\ pc[p] = "requeue" /\ pc'[p] = "resume" /\ from[p] \in TCB
      /\ UNCHANGED <<state, joiner, target, waiters, cur, to, from, stop>>
  BY <1>t DEF Requeue, Goto, PcInv, PostPC, TypeOK, tcbVars, clientVars
<1>2. Queued' = Queued \cup {from[p]}
  BY <1>t, <1>1, EnqueueLemma DEF Requeue, IInv, TypeOK, TokenInv
<1>3. ASSUME NEW t \in Threads, HasToken(p, t)  PROVE HasSome(t)'
  BY <1>1, <1>2, <1>3 DEF HasToken, HasCur, HasFrom, StopPC, HasSome
<1> QED  BY <1>1, <1>2, <1>3, MoveSome DEF Step

\* A uthread is about to stop: as BLOCKED only when it can be started already.
LEMMA StopSome ==
    ASSUME IInv, Tokens, NEW p \in Procs, Idle(p) \/ Yield(p) \/ Block(p)
    PROVE  Tokens'
<1>t. TypeOK /\ PcInv
  BY DEF IInv
<1>1. /\ pc[p] = "user" /\ pc'[p] = "dequeue"
      /\ UNCHANGED <<state, joiner, target, ready, cur, to, from>>
      /\ waiters \subseteq waiters'
  BY <1>t DEF Idle, Yield, Block, Calling, Stop, Goto, TypeOK, tcbVars, clientVars, queueVars
<1>2. ASSUME NEW t \in Threads, cur[p] = t  PROVE stop'[p] # "BLOCKED" \/ t \in waiters'
  <2>1. ~Idle(p)
    BY <1>2, BaseAssumption DEF Idle, Bases
  <2> QED  BY <1>t, <1>2, <2>1 DEF Yield, Block, Stop, TypeOK
<1>3. ASSUME NEW t \in Threads, HasToken(p, t)  PROVE HasSome(t)'
  BY <1>1, <1>2, <1>3 DEF HasToken, HasCur, HasFrom, StopPC, PostPC, HasSome
<1>4. Queued' = Queued
  BY <1>1 DEF Queued
<1> QED  BY <1>1, <1>3, <1>4, MoveSome DEF Step

LEMMA UnblockSome ==
    ASSUME IInv, Tokens, NEW p \in Procs, NEW u \in Threads, Unblock(p, u)
    PROVE  Tokens'
<1>1. waiters' = waiters \ {u} /\ UNCHANGED <<state, joiner, target, pc, cur, to, from, stop>>
  BY DEF Unblock, tcbVars, procVars
<1>2. Queued' = Queued \cup {u}
  BY EnqueueLemma DEF Unblock, IInv, TypeOK, TokenInv, TCB
<1>3. ASSUME NEW t \in Threads, HasToken(p, t)  PROVE HasSome(t)'
  BY <1>1, <1>3 DEF HasToken, HasCur, HasFrom, HasSome
<1> QED  BY <1>1, <1>2, <1>3, MoveSome DEF Step

\* The steps that write the state of the uthread on p, other than its exit.
LEMMA WriteSome ==
    ASSUME IInv, Tokens, NEW p \in Procs, Save(p) \/ Resume(p)
    PROVE  Tokens'
<1>t. TypeOK /\ PcInv /\ StateInv
  BY DEF IInv
<1>0. Step(p)
  BY DEF Step
<1>1. /\ pc[p] \in {"save", "resume"} /\ pc'[p] \in {"spin", "user", "release"}
      /\ (pc[p] = "save" <=> pc'[p] = "spin") /\ cur[p] \in TCB
      /\ UNCHANGED <<joiner, target, waiters, ready, cur, to, stop>>
      /\ pc[p] = "save" => from' = from
  BY <1>t DEF Save, Resume, Goto, TypeOK, tcbVars, clientVars, queueVars
<1>2. \A u \in TCB : u # cur[p] => state'[u] = state[u]
  BY <1>t DEF Save, Resume, TypeOK
<1>3. ASSUME NEW t \in Threads, HasToken(p, t)  PROVE HasToken(p, t)'
  BY <1>1, <1>3 DEF HasToken, HasCur, HasFrom, StopPC, PostPC
<1>4. ASSUME cur[p] \in Threads
      PROVE  /\ state[cur[p]] # "NONE"
             /\ state[cur[p]] \in Gone => state'[cur[p]] \in Gone
             /\ state[cur[p]] \notin Gone /\ state'[cur[p]] \in Gone => stop[p] = "DYING" /\ pc[p] = "save"
  <2>1. PlaceOK(pc[p], stop[p], state[cur[p]])
    BY <1>t, <1>4 DEF StateInv, CurState
  <2>2. CASE Save(p)
    <3>1. pc[p] = "save" /\ state'[cur[p]] = stop[p] /\ stop[p] \in {"RUNABLE", "BLOCKED", "DYING"}
      BY <1>t, <1>1, <2>2 DEF Save, TypeOK
    <3> QED  BY <2>1, <3>1 DEF PlaceOK, Gone
  <2>3. CASE Resume(p)
    <3>1. pc[p] = "resume" /\ state'[cur[p]] = "RUNNING"
      BY <1>t, <1>1, <2>3 DEF Resume, TypeOK
    <3> QED  BY <2>1, <3>1 DEF PlaceOK, Gone
  <2> QED  BY <2>2, <2>3
<1>5. ASSUME state[cur[p]] \notin Gone, state'[cur[p]] \in Gone, cur[p] \in Threads  PROVE FALSE
  BY <1>t, <1>4, <1>5 DEF StateInv, CurState, PlaceOK, Gone
<1>6. ASSUME NEW u \in Threads  PROVE state'[u] \in Gone => state[u] \in Gone
  BY <1>2, <1>5, <1>6 DEF TCB
<1>7. ASSUME NEW u \in Threads, Live(u)'  PROVE Live(u)
  BY <1>2, <1>4, <1>7 DEF Live, TCB, Gone
<1>8. ASSUME NEW t \in Threads, Joining(t)  PROVE Joining(t)'
  <2>1. target[t] \in Threads
    BY <1>t, <1>8 DEF Joining, TypeOK, TCB
  <2> QED  BY <1>1, <1>6, <1>8, <2>1 DEF Joining, Gone
<1>9. Queued' = Queued
  BY <1>1 DEF Queued
<1> SUFFICES ASSUME NEW t \in Threads, Live(t)'  PROVE HasSome(t)'
  BY DEF Tokens
<1> QED  BY <1>t, <1>0, <1>1, <1>3, <1>7, <1>8, <1>9, KeepSome DEF HasSome

LEMMA ReapSome ==
    ASSUME IInv, Tokens, NEW p \in Procs, Reap(p)
    PROVE  Tokens'
<1>t. TypeOK /\ PcInv /\ StateInv
  BY DEF IInv
<1>0. Step(p)
  BY DEF Step
<1>1. /\ pc[p] = "reap" /\ pc'[p] = "resume" /\ state[from[p]] = "DYING" /\ from[p] \in TCB
      /\ UNCHANGED <<joiner, target, waiters, ready, cur, to, from, stop>>
  BY <1>t DEF Reap, Goto, PcInv, PostPC, StateInv, FromState, FromOK, TypeOK, clientVars, queueVars
<1>2. \A u \in TCB : u # from[p] => state'[u] = state[u]
  BY <1>t DEF Reap, TypeOK
<1>3. state'[from[p]] \in Gone
  BY <1>t, <1>1 DEF Reap, TypeOK, Gone
<1>4. ASSUME NEW t \in Threads, HasToken(p, t), from[p] # t  PROVE HasToken(p, t)'
  BY <1>1, <1>4 DEF HasToken, HasCur, HasFrom, StopPC
<1>5. ASSUME NEW t \in Threads, Joining(t)  PROVE Joining(t)'
  <2>1. target[t] \in TCB
    BY <1>t, <1>5 DEF Joining, TypeOK, TCB
  <2> QED  BY <1>1, <1>2, <1>5, <2>1 DEF Joining
<1>6. Queued' = Queued
  BY <1>1 DEF Queued
<1> SUFFICES ASSUME NEW t \in Threads, Live(t)'  PROVE HasSome(t)'
  BY DEF Tokens
<1>7. t # from[p] /\ Live(t)
  BY <1>2, <1>3 DEF Live, Gone, TCB
<1> QED  BY <1>t, <1>0, <1>1, <1>4, <1>5, <1>6, <1>7, KeepSome DEF HasSome

LEMMA CreateSome ==
    ASSUME IInv, Tokens, NEW p \in Procs, NEW u \in Threads, Create(p, u)
    PROVE  Tokens'
<1>t. TypeOK
  BY DEF IInv
<1>0. Step(p)
  BY DEF Step
<1>1. /\ state' = [state EXCEPT ![u] = "NASCENT"]
      /\ UNCHANGED <<joiner, target, waiters, pc, cur, to, from, stop>>
  BY DEF Create, procVars
<1>2. Queued' = Queued \cup {u}
  BY EnqueueLemma DEF Create, IInv, TypeOK, TokenInv, TCB
<1>3. ASSUME NEW t \in Threads, HasToken(p, t)  PROVE HasToken(p, t)'
  BY <1>1, <1>3 DEF HasToken, HasCur, HasFrom
<1>4. ASSUME NEW t \in Threads, Joining(t)  PROVE Joining(t)'
  <2>1. target[t] \in TCB
    BY <1>t, <1>4 DEF Joining, TypeOK, TCB
  <2> QED  BY <1>t, <1>1, <1>4, <2>1 DEF Joining, TypeOK
<1> SUFFICES ASSUME NEW t \in Threads, Live(t)'  PROVE HasSome(t)'
  BY DEF Tokens
<1>5. CASE t = u
  BY <1>2, <1>5 DEF HasSome
<1>6. CASE t # u
  <2>1. Live(t)
    BY <1>t, <1>1, <1>6 DEF Live, TypeOK, TCB
  <2> QED  BY <1>t, <1>0, <1>1, <1>2, <1>3, <1>4, <2>1, KeepSome DEF HasSome
<1> QED  BY <1>5, <1>6

\* A uthread that makes a call has its own token until it stops.
LEMMA CallerSome ==
    ASSUME IInv, LifeInv, Tokens, NEW p \in Procs, Step(p), pc[p] \in {"user", "join", "release"},
           pc'[p] \in {"user", "join", "release"} \/ Joining(cur[p])',
           UNCHANGED <<state, ready, waiters, cur, to, from>>,
           \A u \in TCB : u # cur[p] => target'[u] = target[u],
           \A u \in TCB : joiner'[u] # joiner[u] => u = target[cur[p]]
    PROVE  Tokens'
<1>t. TypeOK
  BY DEF IInv
<1>1. HasSome(cur[p])'
  BY DEF HasSome, HasToken, HasCur, StopPC
<1>2. ASSUME NEW t \in Threads, t # cur[p], HasToken(p, t)  PROVE HasToken(p, t)'
  BY <1>2 DEF HasToken, HasCur, HasFrom, PostPC
<1>3. ASSUME NEW t \in Threads, t # cur[p], Joining(t)  PROVE Joining(t)'
  <2>1. target[t] \in TCB /\ t \in TCB /\ cur[p] \in TCB
    BY <1>t, <1>3 DEF Joining, TypeOK, TCB
  <2>2. target[t] # target[cur[p]]
    BY <1>3, <2>1 DEF LifeInv, HandleInv, Joining
  <2> QED  BY <1>3, <2>1, <2>2 DEF Joining
<1>4. Queued' = Queued
  BY DEF Queued
<1> SUFFICES ASSUME NEW t \in Threads, Live(t)', t # cur[p]  PROVE HasSome(t)'
  BY <1>1 DEF Tokens
<1>5. Live(t)
  BY DEF Live
<1> QED  BY <1>t, <1>2, <1>3, <1>4, <1>5, KeepSome DEF HasSome

LEMMA HandleSome ==
    ASSUME IInv, LifeInv, Tokens, NEW p \in Procs, NEW u \in Threads, Join(p, u) \/ Detach(p, u)
    PROVE  Tokens'
<1>t. TypeOK
  BY DEF IInv
<1>1. /\ pc[p] = "user" /\ pc'[p] \in {"user", "join", "release"}
      /\ UNCHANGED <<state, joiner, ready, waiters, cur, to, from>>
      /\ \A v \in TCB : v # cur[p] => target'[v] = target[v]
  BY <1>t DEF Join, Detach, UseHandle, Calling, Goto, TypeOK, tcbVars, queueVars
<1> QED  BY <1>1, CallerSome DEF Step

LEMMA ReleaseSome ==
    ASSUME IInv, LifeInv, Tokens, NEW p \in Procs, Release(p) \/ JoinLocked(p)
    PROVE  Tokens'
<1>t. TypeOK /\ PcInv
  BY DEF IInv
<1> DEFINE t == target[cur[p]]
<1>0. Step(p) /\ pc[p] \in {"join", "release"} /\ UNCHANGED <<state, ready, waiters, cur, to, from>>
  BY DEF Step, Release, JoinLocked, queueVars
<1>1. CASE ReleaseTarget(p)
  <2>1. /\ pc'[p] = "user"
        /\ \A u \in TCB : u # cur[p] => target'[u] = target[u]
        /\ \A u \in TCB : joiner'[u] # joiner[u] => u = t
    BY <1>t, <1>1 DEF ReleaseTarget, Goto, TypeOK
  <2> QED  BY <1>0, <2>1, CallerSome
<1>2. CASE ~ReleaseTarget(p)
  <2>1. /\ state[t] \notin Gone /\ joiner' = [joiner EXCEPT ![t] = cur[p]] /\ target' = target
    BY <1>2 DEF Release, JoinLocked, Gone
  <2>2. cur[p] \in Threads /\ t \in TCB /\ t # None
    BY <1>t, <1>0, NullAssumption DEF PcInv, TypeOK, TCB
  <2>3. joiner'[t] = cur[p] /\ \A u \in TCB : joiner'[u] # joiner[u] => u = t
    BY <1>t, <2>1, <2>2 DEF TypeOK
  <2>4. Joining(cur[p])'
    BY <1>0, <2>1, <2>2, <2>3 DEF Joining, Gone
  <2> QED  BY <1>0, <2>1, <2>3, <2>4, CallerSome
<1> QED  BY <1>1, <1>2

\* The joiner of a uthread that exits is on the ready queue when it is DYING.
LEMMA ExitSome ==
    ASSUME IInv, Tokens, NEW p \in Procs, Exit(p)
    PROVE  Tokens'
<1>t. TypeOK
  BY DEF IInv
<1>0. Step(p) /\ cur[p] \in TCB /\ pc[p] = "user" /\ pc'[p] = "dequeue"
  BY <1>t DEF Step, Exit, Calling, Stop, Goto, TypeOK
<1>1. /\ state' = [state EXCEPT ![cur[p]] = "DYING"]
      /\ UNCHANGED <<joiner, target, waiters, cur, to, from>>
  BY DEF Exit, clientVars
<1>2. Queued \subseteq Queued' /\ (joiner[cur[p]] \in TCB => joiner[cur[p]] \in Queued')
  <2>1. CASE joiner[cur[p]] \in TCB
    BY <2>1, EnqueueLemma DEF Exit, IInv, TypeOK, TokenInv
  <2>2. CASE joiner[cur[p]] \notin TCB
    BY <2>2 DEF Exit, queueVars, Queued
  <2> QED  BY <2>1, <2>2
<1>3. ASSUME NEW t \in Threads, t # cur[p], HasToken(p, t)  PROVE HasToken(p, t)'
  BY <1>0, <1>1, <1>3 DEF HasToken, HasCur, HasFrom, PostPC
<1>4. ASSUME NEW t \in Threads, Joining(t)  PROVE HasSome(t)'
  <2>1. target[t] \in TCB /\ t \in TCB
    BY <1>t, <1>4 DEF Joining, TypeOK, TCB
  <2>2. CASE target[t] = cur[p]
    BY <1>2, <1>4, <2>1, <2>2 DEF Joining, HasSome
  <2>3. CASE target[t] # cur[p]
    BY <1>t, <1>1, <1>4, <2>1, <2>3 DEF Joining, HasSome, TypeOK
  <2> QED  BY <2>2, <2>3
<1> SUFFICES ASSUME NEW t \in Threads, Live(t)'  PROVE HasSome(t)'
  BY DEF Tokens
<1>5. t # cur[p] /\ Live(t)
  BY <1>t, <1>0, <1>1 DEF Live, TypeOK, TCB
<1> QED  BY <1>t, <1>0, <1>1, <1>2, <1>3, <1>4, <1>5, KeepSome DEF HasSome

LEMMA TokensStep == ASSUME IInv, LifeInv, Tokens, [Next]_vars  PROVE Tokens'
<1>1. CASE UNCHANGED vars
  BY <1>1 DEF vars, tcbVars, queueVars, procVars, clientVars, Tokens, HasSome, HasToken, HasCur, HasFrom,
              Joining, Live, Queued
<1>2. ASSUME NEW p \in Procs, SpuriousWakeUp(p)  PROVE Tokens'
  BY <1>2 DEF SpuriousWakeUp, WakeUp, tcbVars, procVars, clientVars, Tokens, HasSome, HasToken, HasCur,
              HasFrom, Joining, Live, Queued
<1>3. ASSUME NEW p \in Procs, Step(p)  PROVE Tokens'
  <2>1. CASE Dequeue(p) \/ Save(p) \/ Switch(p) \/ PostDying(p) \/ PostRunable(p)
             \/ Reap(p) \/ Requeue(p) \/ Resume(p)
    BY <2>1, DequeueSome, WriteSome, SwitchSome, PostSome, ReapSome, RequeueSome
  <2>2. CASE Idle(p) \/ Yield(p) \/ Block(p) \/ Exit(p) \/ JoinLocked(p) \/ Release(p)
    BY <2>2, StopSome, ExitSome, ReleaseSome
  <2>3. ASSUME NEW t \in Threads, Create(p, t) \/ Unblock(p, t) \/ Join(p, t) \/ Detach(p, t)
        PROVE  Tokens'
    BY <2>3, CreateSome, UnblockSome, HandleSome
  <2> QED  BY <1>3, <2>1, <2>2, <2>3 DEF Step
<1> QED  BY <1>1, <1>2, <1>3 DEF Next

LEMMA InitTokens == Init => Tokens
<1> SUFFICES ASSUME Init, NEW t \in Threads, Live(t)  PROVE HasSome(t)
  BY DEF Tokens
<1>1. t = Main
  BY BaseAssumption, ProcsAssumption DEF Init, Live, TCB, Bases
<1> QED  BY <1>1, ProcsAssumption DEF Init, HasSome, HasToken, HasCur, StopPC

\* Every live uthread runs, or is where somebody will run, requeue or start it, for
\* any number of processors and uthreads.
THEOREM NobodyIsLost == SafeCalls => (Spec => []NoLostThread)
<1>1. ASSUME IInv, Tokens  PROVE NoLostThread
  <2>t. TypeOK /\ PcInv /\ StateInv
    BY <1>1 DEF IInv
  <2> SUFFICES ASSUME NEW t \in Threads, Live(t)
               PROVE  \/ Running(t) \/ t \in Queued \cup waiters \/ Joining(t)
                      \/ \E p \in Procs : to[p] = t \/ Yielding(p, t)
    BY DEF NoLostThread, Live
  <2>1. ASSUME NEW p \in Procs, HasCur(p, t)  PROVE Running(t) \/ Yielding(p, t)
    <3>1. CASE pc[p] = "spin"
      <4>1. stop[p] # "BLOCKED" /\ state[t] = stop[p]
        BY <2>t, <2>1, <3>1 DEF HasCur, StopPC, StateInv, CurState, PlaceOK
      <4>2. stop[p] = "RUNABLE"
        BY <2>t, <4>1 DEF TypeOK, Live
      <4> QED  BY <2>1, <3>1, <4>2 DEF HasCur, Yielding
    <3>2. CASE pc[p] # "spin"
      BY <2>1, <3>2 DEF HasCur, Running
    <3> QED  BY <3>1, <3>2
  <2>2. ASSUME NEW p \in Procs, HasFrom(p, t)  PROVE Yielding(p, t)
    <3>1. FromOK(pc[p], state[t]) /\ pc[p] \in PostPC /\ from[p] = t
      BY <2>t, <2>2 DEF HasFrom, StateInv, FromState
    <3> QED  BY <3>1 DEF FromOK, PostPC, Yielding, Live
  <2> QED  BY <1>1, <2>1, <2>2 DEF Tokens, HasSome, HasToken
<1>2. IInv /\ LifeInv /\ [Next]_vars => LifeInv'
  BY LifeStep
<1>3. IInv /\ LifeInv /\ Tokens /\ [Next]_vars => Tokens'
  BY TokensStep
<1>4. IInv /\ Tokens => NoLostThread
  BY <1>1
<1> QED  BY <1>2, <1>3, <1>4, InitLife, InitTokens, Invariance, PTL DEF Spec

-----------------------------------------------------------------------------
(***************************************************************************)
(* The earlier scheduler.  A uthread gives its token away as soon as it    *)
(* stops, unless it terminates, so that the token is always at one place   *)
(* (At), and that of a uthread that has terminated ends with its reaper.   *)
(* A uthread that terminates must not do anything else that stops it       *)
(* (SafeExits): a processor that is still leaving it would take it for     *)
(* dying and reap it while it runs elsewhere.                              *)
(***************************************************************************)
Quits(t) == t \in Threads /\ "exit" \in Calls[t]

SafeExits ==
    \A t \in Threads : \/ "exit" \notin Calls[t]
                       \/ Calls[t] \cap {"yield", "block", "join"} = {}

Joins(t, u) == joiner[u] = t /\ state[u] \notin Gone

\* The token of t is in the place k, there with x.
At(k, x, t) ==
    \/ k = "cur" /\ x \in Procs /\ cur[x] = t /\ (pc[x] \in StopPC => Quits(t))
    \/ k = "to" /\ x \in Procs /\ to[x] = t
    \/ k = "from" /\ x \in Procs /\ from[x] = t /\ pc[x] \in {"post", "reap"} /\ Quits(t)
    \/ k = "ready" /\ x = None /\ t \in Queued
    \/ k = "waiters" /\ x = None /\ t \in waiters
    \/ k = "joins" /\ x \in TCB /\ Joins(t, x)

AtMostOne(t) == \A k, x, l, y : At(k, x, t) /\ At(l, y, t) => k = l /\ x = y

EarlyTokens ==
    \A t \in TCB : /\ AtMostOne(t)
                   /\ Live(t) => \E k, x : At(k, x, t)
                   /\ t \in freed => \A k, x : ~At(k, x, t)

EarlyPlaces ==
    /\ \A p \in Procs :
          /\ pc[p] \in {"save", "spin"} <=> to[p] # None
          /\ pc[p] \in {"post", "reap"} => from[p] # None
          /\ pc[p] \notin {"recheck", "requeue"}
          /\ pc[p] = "reap" => Quits(from[p])
          /\ pc[p] \in {"join", "release"} => cur[p] \in Threads /\ target[cur[p]] # None
          /\ pc[p] = "join" => ~Quits(cur[p])
          /\ pc[p] \in StopPC => (stop[p] = "DYING" <=> Quits(cur[p]))
    /\ \A b \in Bases : target[b] = None

\* The state of the uthreads of a processor.
StateAt(l, c, t, f) ==
    /\ l \in {"user", "join", "release"} => state[c] = "RUNNING"
    /\ l \in {"dequeue", "save"} => state[c] = IF Quits(c) THEN "DYING" ELSE "RUNNING"
    /\ l = "spin" => IF Quits(c) THEN state[c] = "DYING" ELSE Live(c)
    /\ l \in {"post", "reap", "resume"} => Live(c)
    /\ l \in {"save", "spin"} => Live(t)
    /\ l \in {"post", "reap"} /\ Quits(f) => state[f] = "DYING"

EarlyStates ==
    /\ \A t \in TCB : IF Quits(t) THEN state[t] \notin {"RUNABLE", "BLOCKED"} ELSE state[t] \notin Gone
    /\ \A p \in Procs : StateAt(pc[p], cur[p], to[p], from[p])
    /\ \A t \in Queued \cup waiters : Live(t)
    /\ \A t, u \in TCB : Joins(t, u) => Live(t)

EarlyHandles ==
    /\ HandleInv
    /\ \A t \in freed : state[t] \in Gone /\ t \notin handles /\ \A u \in TCB : target[u] # t
    /\ \A t, u \in TCB : Joins(t, u) => target[t] = u

EarlyInv == TypeOK /\ NoDup /\ EarlyPlaces /\ EarlyStates /\ EarlyTokens /\ EarlyHandles /\ OneProcessor

\* The tokens after a step: that of t is where it was, has gone to l, or is none.
StaysAt(t) == \A k, x : At(k, x, t)' <=> At(k, x, t)
GoesTo(t, l, y) == \A k, x : At(k, x, t)' <=> k = l /\ x = y
Ends(t) == \A k, x : ~At(k, x, t)'

\* What waits for a call is as before, and the token of c with y.
Waiting == {"ready", "waiters", "joins"}
WaitsAt(c, l, y) ==
    \A t \in TCB : \A k, x : k \in Waiting =>
        (At(k, x, t)' <=> At(k, x, t) \/ (t = c /\ k = l /\ x = y))

LEMMA Bases2 ==
    /\ \A b \in Bases : b \in TCB /\ ~Quits(b)
    /\ \A t \in Threads : t \in TCB
    /\ None \notin TCB /\ Detached \notin TCB /\ None # Detached
BY BaseAssumption, NullAssumption DEF TCB, Quits

\* The tokens stay where they are, or one comes to another place.
LEMMA TokensMove ==
    ASSUME EarlyTokens,
           \A t \in freed' \ freed : t \in TCB => Ends(t),
           \A t \in TCB : \/ StaysAt(t) /\ (Live(t)' => Live(t))
                          \/ t \notin freed' /\ \E l, y : GoesTo(t, l, y)
                          \/ Ends(t) /\ ~Live(t)'
    PROVE  EarlyTokens'
<1> SUFFICES ASSUME NEW t \in TCB
             PROVE  /\ AtMostOne(t)'
                    /\ Live(t)' => \E k, x : At(k, x, t)'
                    /\ t \in freed' => \A k, x : ~At(k, x, t)'
  BY DEF EarlyTokens
<1>0. AtMostOne(t) /\ (Live(t) => \E k, x : At(k, x, t)) /\ (t \in freed => \A k, x : ~At(k, x, t))
  BY DEF EarlyTokens
<1>1. CASE StaysAt(t) /\ (Live(t)' => Live(t))
  BY <1>0, <1>1 DEF AtMostOne, StaysAt, Ends
<1>2. CASE t \notin freed' /\ \E l, y : GoesTo(t, l, y)
  BY <1>2 DEF AtMostOne, GoesTo
<1>3. CASE Ends(t) /\ ~Live(t)'
  BY <1>3 DEF AtMostOne, Ends
<1> QED  BY <1>1, <1>2, <1>3

\* No token, no place: a uthread with a token has been created and is not freed.
LEMMA Located ==
    ASSUME EarlyInv, NEW t \in TCB, NEW k, NEW x, At(k, x, t)
    PROVE  state[t] \notin {"NONE", "DEAD"} /\ t \notin freed
<1>1. TypeOK /\ EarlyPlaces /\ EarlyStates /\ EarlyTokens
  BY DEF EarlyInv
<1>2. t \notin freed
  BY <1>1 DEF EarlyTokens
<1>3. CASE k = "cur"
  <2>1. x \in Procs /\ cur[x] = t /\ (pc[x] \in StopPC => Quits(t))
    BY <1>3 DEF At
  <2>2. pc[x] \in {"user", "join", "release", "dequeue", "save", "spin", "post", "reap", "resume"}
    BY <1>1, <2>1 DEF TypeOK, EarlyPlaces
  <2>3. StateAt(pc[x], t, to[x], from[x])
    BY <1>1, <2>1 DEF EarlyStates
  <2> QED  BY <1>2, <2>1, <2>2, <2>3 DEF StateAt, Live, StopPC
<1>4. CASE k = "to"
  <2>1. x \in Procs /\ to[x] = t /\ pc[x] \in {"save", "spin"}
    BY <1>1, <1>4, Bases2 DEF At, EarlyPlaces
  <2>2. StateAt(pc[x], cur[x], t, from[x])
    BY <1>1, <2>1 DEF EarlyStates
  <2> QED  BY <1>2, <2>1, <2>2 DEF StateAt, Live
<1>5. CASE k = "from"
  <2>1. x \in Procs /\ from[x] = t /\ pc[x] \in {"post", "reap"} /\ Quits(t)
    BY <1>5 DEF At
  <2>2. StateAt(pc[x], cur[x], to[x], t)
    BY <1>1, <2>1 DEF EarlyStates
  <2> QED  BY <1>2, <2>1, <2>2 DEF StateAt
<1>6. CASE k \notin {"cur", "to", "from"}
  <2>1. Live(t)
    BY <1>1, <1>6 DEF At, EarlyStates
  <2> QED  BY <1>2, <2>1 DEF Live
<1> QED  BY <1>3, <1>4, <1>5, <1>6

\* A processor that goes on with what it runs leaves the others alone.
LEMMA StaysApart ==
    ASSUME EarlyInv, UNCHANGED cur, \A q \in Procs : pc'[q] # "spin" => pc[q] # "spin"
    PROVE  OneProcessor'
BY DEF EarlyInv, OneProcessor

\* A step of p that changes no state.
LEMMA StatesStay ==
    ASSUME EarlyInv, NEW p \in Procs, UNCHANGED state,
           \A q \in Procs : q # p => pc'[q] = pc[q] /\ cur'[q] = cur[q] /\ to'[q] = to[q] /\ from'[q] = from[q],
           StateAt(pc'[p], cur'[p], to'[p], from'[p]),
           \A t \in Queued' \cup waiters' : Live(t),
           \A t, u \in TCB : Joins(t, u)' => Live(t)
    PROVE  EarlyStates'
<1>1. \A q \in Procs : StateAt(pc'[q], cur'[q], to'[q], from'[q])
  BY DEF EarlyInv, EarlyStates
<1>2. \A q \in Procs : StateAt(pc[q], cur[q], to[q], from[q])'
  BY <1>1 DEF StateAt, Live
<1>3. \A t \in TCB : (IF Quits(t) THEN state[t] \notin {"RUNABLE", "BLOCKED"} ELSE state[t] \notin Gone)'
  BY DEF EarlyInv, EarlyStates
<1> QED  BY <1>2, <1>3 DEF EarlyStates, Live

\* A step of p that leaves every token where it is, and the handles too.
LEMMA TokensStay ==
    ASSUME EarlyInv, UNCHANGED freed,
           \A t \in TCB : StaysAt(t),
           \A t \in TCB : Live(t)' => Live(t)
    PROVE  EarlyTokens'
BY TokensMove DEF EarlyInv

\* One token goes to the place l.
LEMMA OneMoves ==
    ASSUME EarlyInv, UNCHANGED freed, NEW t \in TCB, t \notin freed, NEW l, NEW y, GoesTo(t, l, y),
           \A u \in TCB : u # t => StaysAt(u) /\ (Live(u)' => Live(u))
    PROVE  EarlyTokens'
BY TokensMove DEF EarlyInv

LEMMA HandlesStay ==
    ASSUME EarlyInv, UNCHANGED <<joiner, freed, target, handles>>,
           \A t \in TCB : state[t] # "NONE" => state'[t] # "NONE",
           \A t \in TCB : state[t] \in Gone => state'[t] \in Gone
    PROVE  EarlyHandles'
<1>t. TypeOK /\ EarlyHandles /\ None \notin TCB
  BY NullAssumption DEF EarlyInv
<1>1. HandleInv'
  BY <1>t DEF EarlyHandles, HandleInv, TypeOK, TCB
<1>2. \A t \in freed : t \in TCB
  BY <1>t DEF TypeOK
<1>3. \A t, u \in TCB : Joins(t, u)' => Joins(t, u)
  BY DEF Joins
<1> QED  BY <1>t, <1>1, <1>2, <1>3 DEF EarlyHandles

\* What a uthread that is stopped or started was doing.
LEMMA OthersAway ==
    ASSUME EarlyInv, NEW p \in Procs, pc[p] # "spin",
           NEW q \in Procs, q # p, cur[q] = cur[p]
    PROVE  pc[q] = "spin" /\ ~Quits(cur[p])
<1>1. pc[q] = "spin"
  BY DEF EarlyInv, OneProcessor
<1>2. ASSUME Quits(cur[p])  PROVE FALSE
  <2>1. At("cur", p, cur[p]) /\ At("cur", q, cur[p])
    BY <1>2 DEF At
  <2>2. cur[p] \in TCB
    BY DEF EarlyInv, TypeOK
  <2> QED  BY <2>1, <2>2 DEF EarlyInv, EarlyTokens, AtMostOne
<1> QED  BY <1>1, <1>2

LEMMA EarlySave == ASSUME EarlyInv, NEW p \in Procs, Save(p)  PROVE EarlyInv'
<1>t. TypeOK /\ NoDup /\ EarlyPlaces /\ EarlyStates /\ EarlyTokens
  BY DEF EarlyInv
<1> DEFINE c == cur[p]
<1>1. /\ pc[p] = "save" /\ pc' = [pc EXCEPT ![p] = "spin"] /\ state' = [state EXCEPT ![c] = stop[p]]
      /\ UNCHANGED <<joiner, freed, ready, sleeping, cur, to, from, stop, target, handles, waiters>>
  BY DEF Save, Goto, queueVars, clientVars
<1>2. c \in TCB /\ stop[p] \in {"RUNABLE", "BLOCKED", "DYING"} /\ (stop[p] = "DYING" <=> Quits(c))
  BY <1>t, <1>1 DEF TypeOK, EarlyPlaces, StopPC
<1>3. state[c] = IF Quits(c) THEN "DYING" ELSE "RUNNING"
  BY <1>t, <1>1 DEF EarlyStates, StateAt
<1>4. pc'[p] = "spin" /\ state'[c] = stop[p] /\ (\A q \in Procs : q # p => pc'[q] = pc[q])
      /\ \A t \in TCB : t # c => state'[t] = state[t]
  BY <1>t, <1>1, <1>2 DEF TypeOK
<1>5. \A t \in TCB : (Live(t)' <=> Live(t)) /\ (state'[t] \in Gone <=> state[t] \in Gone)
                    /\ (state[t] # "NONE" => state'[t] # "NONE")
  BY <1>2, <1>3, <1>4 DEF Live, Gone
<1>6. TypeOK'
  BY <1>t, <1>1 DEF TypeOK, States
<1>7. NoDup' /\ Queued' = Queued
  BY <1>t, <1>1 DEF NoDup, Queued
<1>8. EarlyPlaces'
  BY <1>t, <1>1, <1>4 DEF EarlyPlaces, StopPC
<1>9. \A t, u \in TCB : Joins(t, u)' <=> Joins(t, u)
  BY <1>1, <1>5 DEF Joins
<1>10. \A t \in TCB : StaysAt(t)
  BY <1>1, <1>4, <1>7, <1>9 DEF StaysAt, At, StopPC
<1>11. EarlyTokens'
  BY <1>1, <1>5, <1>10, TokensStay
<1>12. EarlyHandles'
  BY <1>1, <1>5, HandlesStay
<1>13. EarlyStates'
  <2>1. ASSUME NEW q \in Procs  PROVE StateAt(pc[q], cur[q], to[q], from[q])'
    <3>1. StateAt(pc[q], cur[q], to[q], from[q]) /\ cur[q] \in TCB
      BY <1>t DEF EarlyStates, TypeOK
    <3>2. (pc[q] \in {"save", "spin"} => to[q] \in TCB) /\ (pc[q] \in {"post", "reap"} => from[q] \in TCB)
      BY <1>t DEF EarlyPlaces, TypeOK
    <3>3. CASE q = p
      BY <1>1, <1>2, <1>3, <1>4, <1>5, <3>1, <3>2, <3>3 DEF StateAt, Live
    <3>4. CASE q # p
      <4>1. cur[q] = c => pc[q] = "spin" /\ ~Quits(c)
        BY <1>1, <3>4, OthersAway
      <4>2. pc[q] \in {"post", "reap"} /\ Quits(from[q]) => from[q] # c
        <5> SUFFICES ASSUME pc[q] \in {"post", "reap"}, Quits(c), from[q] = c  PROVE FALSE
          OBVIOUS
        <5>1. At("from", q, c) /\ At("cur", p, c)
          BY DEF At
        <5> QED  BY <1>t, <1>2, <5>1 DEF EarlyTokens, AtMostOne
      <4> QED  BY <1>1, <1>2, <1>4, <1>5, <3>1, <3>2, <3>4, <4>1, <4>2 DEF StateAt, Live
    <3> QED  BY <3>3, <3>4
  <2>2. \A t \in TCB : (IF Quits(t) THEN state[t] \notin {"RUNABLE", "BLOCKED"} ELSE state[t] \notin Gone)'
    <3> SUFFICES ASSUME NEW t \in TCB
                 PROVE  IF Quits(t) THEN state'[t] \notin {"RUNABLE", "BLOCKED"} ELSE state'[t] \notin Gone
      BY DEF Quits
    <3>1. CASE t = c
      BY <1>2, <1>4, <3>1 DEF Gone
    <3>2. CASE t # c
      BY <1>t, <1>4, <3>2 DEF EarlyStates
    <3> QED  BY <3>1, <3>2
  <2>3. \A t \in Queued \cup waiters : t \in TCB /\ Live(t)
    BY <1>t DEF EarlyStates, TypeOK, Queued, TCB
  <2> QED  BY <1>t, <1>1, <1>5, <1>7, <1>9, <2>1, <2>2, <2>3 DEF EarlyStates
<1>14. OneProcessor'
  BY <1>1, <1>4, StaysApart
<1> QED  BY <1>6, <1>7, <1>8, <1>11, <1>12, <1>13, <1>14 DEF EarlyInv

LEMMA EarlyPost == ASSUME EarlyInv, NEW p \in Procs, PostEarly(p)  PROVE EarlyInv'
<1>t. TypeOK /\ NoDup /\ EarlyPlaces /\ EarlyStates /\ EarlyTokens
  BY DEF EarlyInv
<1> DEFINE f == from[p]
           l == IF state[f] = "DYING" THEN "reap" ELSE "resume"
<1>1. /\ pc[p] = "post" /\ pc' = [pc EXCEPT ![p] = l]
      /\ UNCHANGED <<state, joiner, freed, ready, sleeping, cur, to, from, stop, target, handles, waiters>>
  BY DEF PostEarly, Goto, tcbVars, queueVars, clientVars
<1>2. f \in TCB /\ (Quits(f) <=> state[f] = "DYING")
  BY <1>t, <1>1 DEF TypeOK, EarlyPlaces, EarlyStates, StateAt, Gone
<1>3. pc'[p] = l /\ l \in {"reap", "resume"} /\ (l = "reap" <=> Quits(f)) /\ \A q \in Procs : q # p => pc'[q] = pc[q]
  BY <1>t, <1>1, <1>2 DEF TypeOK
<1> HIDE DEF l
<1>4. TypeOK' /\ NoDup' /\ Queued' = Queued
  BY <1>t, <1>1, <1>3 DEF TypeOK, NoDup, Queued
<1>5. EarlyPlaces'
  <2>1. to[p] = None /\ from[p] # None
    BY <1>t, <1>1 DEF EarlyPlaces
  <2> QED  BY <1>t, <1>1, <1>3, <2>1 DEF EarlyPlaces, StopPC
<1>6. \A t, u \in TCB : Joins(t, u)' <=> Joins(t, u)
  BY <1>1 DEF Joins
<1>7. ASSUME NEW t \in TCB, NEW k, NEW x  PROVE At(k, x, t)' <=> At(k, x, t)
  <2>1. k = "from" /\ x = p => (At(k, x, t)' <=> At(k, x, t))
    BY <1>1, <1>3 DEF At
  <2>2. ~(k = "from" /\ x = p) => (At(k, x, t)' <=> At(k, x, t))
    BY <1>1, <1>3, <1>4, <1>6, <1>7 DEF At, StopPC
  <2> QED  BY <2>1, <2>2
<1>8. \A t \in TCB : Live(t)' <=> Live(t)
  BY <1>1 DEF Live
<1>9. EarlyTokens' /\ EarlyHandles'
  BY <1>1, <1>7, <1>8, TokensStay, HandlesStay DEF StaysAt
<1>10. StateAt(pc'[p], cur'[p], to'[p], from'[p])
  <2>1. StateAt("post", cur[p], to[p], f)
    BY <1>t, <1>1 DEF EarlyStates
  <2> QED  BY <1>1, <1>3, <2>1 DEF StateAt
<1>11. EarlyStates'
  <2>1. /\ \A t \in Queued' \cup waiters' : Live(t)
        /\ \A t, u \in TCB : Joins(t, u)' => Live(t)
    BY <1>t, <1>1, <1>4, <1>6 DEF EarlyStates
  <2> QED  BY <1>1, <1>3, <1>10, <2>1, StatesStay
<1>12. OneProcessor'
  BY <1>1, <1>3, StaysApart
<1> QED  BY <1>4, <1>5, <1>9, <1>11, <1>12 DEF EarlyInv

LEMMA EarlyResume == ASSUME EarlyInv, NEW p \in Procs, Resume(p)  PROVE EarlyInv'
<1>t. TypeOK /\ NoDup /\ EarlyPlaces /\ EarlyStates /\ EarlyTokens
  BY DEF EarlyInv
<1> DEFINE c == cur[p]
           l == IF target[c] = None THEN "user" ELSE "release"
<1>1. /\ pc[p] = "resume" /\ pc' = [pc EXCEPT ![p] = l] /\ state' = [state EXCEPT ![c] = "RUNNING"]
      /\ from' = [from EXCEPT ![p] = None]
      /\ UNCHANGED <<joiner, freed, ready, sleeping, cur, to, stop, target, handles, waiters>>
  BY DEF Resume, Goto, queueVars, clientVars
<1>2. c \in TCB /\ Live(c) /\ to[p] = None
  BY <1>t, <1>1 DEF TypeOK, EarlyPlaces, EarlyStates, StateAt
<1>3. /\ pc'[p] = l /\ l \in {"user", "release"} /\ from'[p] = None /\ state'[c] = "RUNNING"
      /\ \A q \in Procs : q # p => pc'[q] = pc[q] /\ from'[q] = from[q]
      /\ \A t \in TCB : t # c => state'[t] = state[t]
  BY <1>t, <1>1, <1>2 DEF TypeOK
<1>4. l = "release" => c \in Threads /\ target[c] # None
  BY <1>t, <1>2 DEF EarlyPlaces, TCB
<1> HIDE DEF l
<1>5. \A t \in TCB : (Live(t)' <=> Live(t)) /\ (state'[t] \in Gone <=> state[t] \in Gone)
                    /\ (state[t] # "NONE" => state'[t] # "NONE")
  BY <1>2, <1>3 DEF Live, Gone
<1>6. TypeOK'
  BY <1>t, <1>1, <1>3 DEF TypeOK, States
<1>7. NoDup' /\ Queued' = Queued
  BY <1>t, <1>1 DEF NoDup, Queued
<1>8. EarlyPlaces'
  BY <1>t, <1>1, <1>2, <1>3, <1>4 DEF EarlyPlaces, StopPC
<1>9. \A t, u \in TCB : Joins(t, u)' <=> Joins(t, u)
  BY <1>1, <1>5 DEF Joins
<1>10. ASSUME NEW t \in TCB, NEW k, NEW x  PROVE At(k, x, t)' <=> At(k, x, t)
  BY <1>1, <1>3, <1>7, <1>9 DEF At, StopPC
<1>11. EarlyTokens'
  BY <1>1, <1>5, <1>10, TokensStay DEF StaysAt
<1>12. EarlyHandles'
  BY <1>1, <1>5, HandlesStay
<1>13. EarlyStates'
  <2>1. ASSUME NEW q \in Procs  PROVE StateAt(pc[q], cur[q], to[q], from[q])'
    <3>1. StateAt(pc[q], cur[q], to[q], from[q]) /\ cur[q] \in TCB
      BY <1>t DEF EarlyStates, TypeOK
    <3>2. (pc[q] \in {"save", "spin"} => to[q] \in TCB) /\ (pc[q] \in {"post", "reap"} => from[q] \in TCB)
      BY <1>t DEF EarlyPlaces, TypeOK
    <3>3. CASE q = p
      BY <1>1, <1>3, <3>3 DEF StateAt
    <3>4. CASE q # p
      <4>1. cur[q] = c => pc[q] = "spin" /\ ~Quits(c)
        BY <1>1, <3>4, OthersAway
      <4>2. pc[q] \in {"post", "reap"} /\ Quits(from[q]) => from[q] # c
        <5> SUFFICES ASSUME pc[q] \in {"post", "reap"}, Quits(c), from[q] = c  PROVE FALSE
          OBVIOUS
        <5>1. At("from", q, c) /\ At("cur", p, c)
          BY <1>1 DEF At, StopPC
        <5> QED  BY <1>t, <1>2, <5>1 DEF EarlyTokens, AtMostOne
      <4> QED  BY <1>1, <1>2, <1>3, <1>5, <3>1, <3>2, <3>4, <4>1, <4>2 DEF StateAt, Live
    <3> QED  BY <3>3, <3>4
  <2>2. \A t \in TCB : (IF Quits(t) THEN state[t] \notin {"RUNABLE", "BLOCKED"} ELSE state[t] \notin Gone)'
    <3> SUFFICES ASSUME NEW t \in TCB
                 PROVE  IF Quits(t) THEN state'[t] \notin {"RUNABLE", "BLOCKED"} ELSE state'[t] \notin Gone
      BY DEF Quits
    <3>1. CASE t = c
      BY <1>2, <1>3, <3>1 DEF Gone
    <3>2. CASE t # c
      BY <1>t, <1>3, <3>2 DEF EarlyStates
    <3> QED  BY <3>1, <3>2
  <2>3. \A t \in Queued \cup waiters : t \in TCB /\ Live(t)
    BY <1>t DEF EarlyStates, TypeOK, Queued, TCB
  <2> QED  BY <1>t, <1>1, <1>5, <1>7, <1>9, <2>1, <2>2, <2>3 DEF EarlyStates
<1>14. OneProcessor'
  BY <1>1, <1>3, StaysApart
<1> QED  BY <1>6, <1>7, <1>8, <1>11, <1>12, <1>13, <1>14 DEF EarlyInv

\* The token of a uthread that has terminated ends here.
LEMMA EarlyReap == ASSUME EarlyInv, NEW p \in Procs, Reap(p)  PROVE EarlyInv'
<1>t. TypeOK /\ NoDup /\ EarlyPlaces /\ EarlyStates /\ EarlyTokens /\ EarlyHandles
  BY DEF EarlyInv
<1>f. PICK f : f = from[p]
  OBVIOUS
<1>1. /\ pc[p] = "reap" /\ pc' = [pc EXCEPT ![p] = "resume"]
      /\ UNCHANGED <<joiner, ready, sleeping, cur, to, from, stop, target, handles, waiters>>
      /\ IF joiner[f] = Detached THEN freed' = freed \cup {f} /\ UNCHANGED state
         ELSE state' = [state EXCEPT ![f] = "DEAD"] /\ UNCHANGED freed
  BY <1>f DEF Reap, Goto, queueVars, clientVars
<1>2. f \in TCB /\ Quits(f) /\ state[f] = "DYING" /\ to[p] = None /\ from[p] = f
  BY <1>t, <1>f, <1>1 DEF TypeOK, EarlyPlaces, EarlyStates, StateAt
<1>3. /\ pc'[p] = "resume" /\ (\A q \in Procs : q # p => pc'[q] = pc[q])
      /\ (\A t \in TCB : t # f => state'[t] = state[t])
      /\ state'[f] \in Gone
  BY <1>t, <1>1, <1>2 DEF TypeOK, Gone
<1>4. \A t \in TCB : (Live(t)' <=> Live(t)) /\ (state'[t] \in Gone <=> state[t] \in Gone)
                    /\ (state[t] # "NONE" => state'[t] # "NONE")
  BY <1>2, <1>3 DEF Live, Gone
<1>5. At("from", p, f) /\ \A k, x : At(k, x, f) => k = "from" /\ x = p
  <2>1. At("from", p, f)
    BY <1>1, <1>2 DEF At
  <2> QED  BY <1>t, <1>2, <2>1 DEF EarlyTokens, AtMostOne
<1>6. TypeOK'
  <2>1. state' \in [TCB -> States] /\ freed' \subseteq TCB
    BY <1>t, <1>1, <1>2 DEF TypeOK, States
  <2> QED  BY <1>t, <1>1, <2>1 DEF TypeOK
<1>7. NoDup' /\ Queued' = Queued
  BY <1>t, <1>1 DEF NoDup, Queued
<1>8. EarlyPlaces'
  BY <1>t, <1>1, <1>2, <1>3 DEF EarlyPlaces, StopPC
<1>9. \A t, u \in TCB : Joins(t, u)' <=> Joins(t, u)
  BY <1>1, <1>4 DEF Joins
<1>10. \A k, x : ~At(k, x, f)'
  <2> SUFFICES ASSUME NEW k, NEW x, At(k, x, f)'  PROVE FALSE
    OBVIOUS
  <2>1. ~(k = "from" /\ x = p)
    BY <1>3 DEF At
  <2>2. At(k, x, f)
    BY <1>1, <1>2, <1>3, <1>7, <1>9, <2>1 DEF At, StopPC
  <2> QED  BY <1>5, <2>1, <2>2
<1>11. ASSUME NEW t \in TCB, t # f, NEW k, NEW x  PROVE At(k, x, t)' <=> At(k, x, t)
  <2>1. k = "from" => (At(k, x, t)' <=> At(k, x, t))
    BY <1>1, <1>2, <1>3, <1>11 DEF At
  <2>2. k # "from" => (At(k, x, t)' <=> At(k, x, t))
    BY <1>1, <1>3, <1>7, <1>9, <1>11 DEF At, StopPC
  <2> QED  BY <2>1, <2>2
<1>12. EarlyTokens'
  <2>1. \A t \in freed' \ freed : t = f
    BY <1>1
  <2>2. ~Live(f)'
    BY <1>2, <1>4 DEF Live
  <2>3. Ends(f) /\ \A t \in TCB : t # f => StaysAt(t)
    BY <1>10, <1>11 DEF Ends, StaysAt
  <2> QED  BY <1>t, <1>2, <1>4, <2>1, <2>2, <2>3, TokensMove
<1>13. EarlyHandles'
  <2>1. HandleInv'
    BY <1>t, <1>1, <1>4, NullAssumption DEF EarlyHandles, HandleInv, TypeOK, TCB
  <2>2. joiner[f] = Detached => f \notin handles /\ \A u \in TCB : target[u] # f
    BY <1>t, <1>2, NullAssumption DEF EarlyHandles, HandleInv
  <2>3. \A t \in freed' : t \in freed \/ (t = f /\ joiner[f] = Detached)
    BY <1>1
  <2>4. \A t \in freed' : state'[t] \in Gone /\ t \notin handles' /\ \A u \in TCB : target'[u] # t
    BY <1>t, <1>1, <1>3, <1>4, <2>2, <2>3 DEF EarlyHandles, TypeOK
  <2> QED  BY <1>t, <1>1, <1>9, <2>1, <2>4 DEF EarlyHandles
<1>14. EarlyStates'
  <2>1. ASSUME NEW q \in Procs  PROVE StateAt(pc[q], cur[q], to[q], from[q])'
    <3>1. StateAt(pc[q], cur[q], to[q], from[q]) /\ cur[q] \in TCB
      BY <1>t DEF EarlyStates, TypeOK
    <3>2. (pc[q] \in {"save", "spin"} => to[q] \in TCB) /\ (pc[q] \in {"post", "reap"} => from[q] \in TCB)
      BY <1>t DEF EarlyPlaces, TypeOK
    <3>3. cur[q] # f
      <4>1. cur[q] = f => At("cur", q, f)
        BY <1>2 DEF At
      <4> QED  BY <1>5, <4>1
    <3>4. CASE q = p
      BY <1>1, <1>3, <1>4, <3>1, <3>4 DEF StateAt
    <3>5. CASE q # p
      <4>1. pc[q] \in {"post", "reap"} => from[q] # f
        <5>1. pc[q] \in {"post", "reap"} /\ from[q] = f => At("from", q, f)
          BY <1>2 DEF At
        <5> QED  BY <1>5, <3>5, <5>1
      <4> QED  BY <1>1, <1>3, <1>4, <3>1, <3>2, <3>3, <3>5, <4>1 DEF StateAt
    <3> QED  BY <3>4, <3>5
  <2>2. \A t \in TCB : (IF Quits(t) THEN state[t] \notin {"RUNABLE", "BLOCKED"} ELSE state[t] \notin Gone)'
    <3> SUFFICES ASSUME NEW t \in TCB
                 PROVE  IF Quits(t) THEN state'[t] \notin {"RUNABLE", "BLOCKED"} ELSE state'[t] \notin Gone
      BY DEF Quits
    <3>1. CASE t = f
      BY <1>2, <1>3, <3>1 DEF Gone
    <3>2. CASE t # f
      BY <1>t, <1>3, <3>2 DEF EarlyStates
    <3> QED  BY <3>1, <3>2
  <2>3. \A t \in Queued \cup waiters : t \in TCB /\ Live(t)
    BY <1>t DEF EarlyStates, TypeOK, Queued, TCB
  <2> QED  BY <1>t, <1>1, <1>4, <1>7, <1>9, <2>1, <2>2, <2>3 DEF EarlyStates
<1>15. OneProcessor'
  BY <1>1, <1>3, StaysApart
<1> QED  BY <1>6, <1>7, <1>8, <1>12, <1>13, <1>14, <1>15 DEF EarlyInv

\* ready_queue_dequeue.
LEMMA EarlyDequeue == ASSUME EarlyInv, NEW p \in Procs, DequeueEarly(p)  PROVE EarlyInv'
<1>t. TypeOK /\ NoDup /\ EarlyPlaces /\ EarlyStates /\ EarlyTokens
  BY DEF EarlyInv
<1>f. PICK t : t = Head(ready)
  OBVIOUS
<1>1. /\ pc[p] = "dequeue" /\ pc' = [pc EXCEPT ![p] = "save"] /\ to' = [to EXCEPT ![p] = t]
      /\ UNCHANGED <<state, joiner, freed, sleeping, cur, from, stop, target, handles, waiters>>
      /\ ready # <<>> /\ ready' = Tail(ready)
  BY <1>f DEF DequeueEarly, Take, Goto, tcbVars, clientVars
<1>2. ready' \in Seq(TCB) /\ t \in Queued /\ Queued' = Queued \ {t} /\ NoDup'
  BY <1>t, <1>f, <1>1, DequeueLemma DEF TypeOK
<1>3. t \in TCB /\ t # None /\ Live(t)
  BY <1>t, <1>2, Bases2 DEF TypeOK, Queued, EarlyStates
<1>4. /\ pc'[p] = "save" /\ to'[p] = t /\ to[p] = None
      /\ \A q \in Procs : q # p => pc'[q] = pc[q] /\ to'[q] = to[q]
  BY <1>t, <1>1 DEF TypeOK, EarlyPlaces
<1>5. TypeOK'
  BY <1>t, <1>1, <1>2, <1>3 DEF TypeOK
<1>6. EarlyPlaces'
  BY <1>t, <1>1, <1>3, <1>4 DEF EarlyPlaces, StopPC
<1>7. \A u, v \in TCB : Joins(u, v)' <=> Joins(u, v)
  BY <1>1 DEF Joins
<1>8. ASSUME NEW u \in TCB, u # t, NEW k, NEW x  PROVE At(k, x, u)' <=> At(k, x, u)
  <2>1. k = "to" => (At(k, x, u)' <=> At(k, x, u))
    BY <1>4, <1>8, Bases2 DEF At
  <2>2. k # "to" => (At(k, x, u)' <=> At(k, x, u))
    BY <1>1, <1>2, <1>4, <1>7, <1>8 DEF At, StopPC
  <2> QED  BY <2>1, <2>2
<1>9. \A k, x : At(k, x, t)' <=> k = "to" /\ x = p
  <2>1. At("ready", None, t) /\ At("to", p, t)'
    BY <1>2, <1>4 DEF At
  <2>2. ASSUME NEW k, NEW x, At(k, x, t)', ~(k = "to" /\ x = p)
        PROVE  At(k, x, t) /\ k # "ready"
    BY <1>1, <1>2, <1>3, <1>4, <1>7, <2>2 DEF At, StopPC
  <2>3. AtMostOne(t)
    BY <1>t, <1>3 DEF EarlyTokens
  <2> QED  BY <2>1, <2>2, <2>3 DEF AtMostOne
<1>10. EarlyTokens'
  <2>1. t \notin freed'
    <3>1. At("ready", None, t)
      BY <1>2 DEF At
    <3> QED  BY <1>t, <1>1, <1>3, <3>1 DEF EarlyTokens
  <2>2. \A u \in TCB : Live(u)' <=> Live(u)
    BY <1>1 DEF Live
  <2>3. \A u \in TCB : u # t => StaysAt(u)
    BY <1>8 DEF StaysAt
  <2>4. GoesTo(t, "to", p)
    BY <1>9 DEF GoesTo
  <2> QED  BY <1>1, <1>3, <2>1, <2>2, <2>3, <2>4, OneMoves
<1>11. EarlyHandles'
  BY <1>1, HandlesStay
<1>12. EarlyStates'
  <2>1. StateAt("save", cur[p], t, from[p])
    <3>1. StateAt("dequeue", cur[p], to[p], from[p])
      BY <1>t, <1>1 DEF EarlyStates
    <3> QED  BY <1>3, <3>1 DEF StateAt
  <2>2. /\ \A u \in Queued' \cup waiters' : Live(u)
        /\ \A u, v \in TCB : Joins(u, v)' => Live(u)
    BY <1>t, <1>1, <1>2, <1>7 DEF EarlyStates
  <2> QED  BY <1>1, <1>4, <2>1, <2>2, StatesStay
<1>13. OneProcessor'
  BY <1>1, <1>4, StaysApart
<1> QED  BY <1>2, <1>5, <1>6, <1>10, <1>11, <1>12, <1>13 DEF EarlyInv

\* The spin of uthread_switch keeps out who comes for a uthread that is still
\* being saved.
LEMMA EarlySwitch == ASSUME EarlyInv, NEW p \in Procs, Switch(p)  PROVE EarlyInv'
<1>t. TypeOK /\ NoDup /\ EarlyPlaces /\ EarlyStates /\ EarlyTokens /\ OneProcessor
  BY DEF EarlyInv
<1>f. PICK c, t : c = cur[p] /\ t = to[p]
  OBVIOUS
<1>1. /\ pc[p] = "spin" /\ state[t] # "RUNNING" /\ pc' = [pc EXCEPT ![p] = "post"]
      /\ from' = [from EXCEPT ![p] = c] /\ cur' = [cur EXCEPT ![p] = t] /\ to' = [to EXCEPT ![p] = None]
      /\ UNCHANGED <<state, joiner, freed, ready, sleeping, stop, target, handles, waiters>>
  BY <1>f DEF Switch, Goto, tcbVars, queueVars, clientVars
<1>2. c \in TCB /\ t \in TCB /\ t # None /\ c # None /\ cur[p] = c /\ to[p] = t
  BY <1>t, <1>f, <1>1, Bases2 DEF TypeOK, EarlyPlaces
<1>3. /\ pc'[p] = "post" /\ from'[p] = c /\ cur'[p] = t /\ to'[p] = None
      /\ \A q \in Procs : q # p => /\ pc'[q] = pc[q] /\ from'[q] = from[q]
                                   /\ cur'[q] = cur[q] /\ to'[q] = to[q]
  BY <1>t, <1>1 DEF TypeOK
<1>4. TypeOK' /\ NoDup' /\ Queued' = Queued
  BY <1>t, <1>1, <1>2 DEF TypeOK, NoDup, Queued
<1>5. EarlyPlaces'
  BY <1>t, <1>1, <1>2, <1>3 DEF EarlyPlaces, StopPC
<1>6. \A u, v \in TCB : Joins(u, v)' <=> Joins(u, v)
  BY <1>1 DEF Joins
<1>7. /\ At("to", p, t) /\ (Quits(c) => At("cur", p, c) /\ state[c] = "DYING" /\ c # t)
      /\ Live(t) /\ (~Quits(c) => Live(c))
  <2>1. At("to", p, t) /\ (Quits(c) => At("cur", p, c))
    BY <1>2 DEF At
  <2>2. Quits(c) => c # t
    BY <1>t, <1>2, <2>1 DEF EarlyTokens, AtMostOne
  <2>3. StateAt("spin", c, t, from[p])
    BY <1>t, <1>1, <1>2 DEF EarlyStates
  <2> QED  BY <2>1, <2>2, <2>3 DEF StateAt
<1>8. \A k, x : At(k, x, t)' <=> k = "cur" /\ x = p
  <2>1. At("cur", p, t)'
    BY <1>3 DEF At, StopPC
  <2>2. ASSUME NEW k, NEW x, At(k, x, t)', ~(k = "cur" /\ x = p)
        PROVE  At(k, x, t) /\ ~(k = "to" /\ x = p)
    <3>1. CASE x = p
      BY <1>1, <1>2, <1>3, <1>4, <1>6, <1>7, <2>2, <3>1, Bases2 DEF At
    <3>2. CASE x # p
      BY <1>1, <1>2, <1>3, <1>4, <1>6, <2>2, <3>2 DEF At, StopPC
    <3> QED  BY <3>1, <3>2
  <2>3. AtMostOne(t)
    BY <1>t, <1>2 DEF EarlyTokens
  <2> QED  BY <1>7, <2>1, <2>2, <2>3 DEF AtMostOne
<1>9. ASSUME Quits(c)  PROVE \A k, x : At(k, x, c)' <=> k = "from" /\ x = p
  <2>1. At("from", p, c)'
    BY <1>3, <1>9 DEF At
  <2>2. ASSUME NEW k, NEW x, At(k, x, c)', ~(k = "from" /\ x = p)
        PROVE  At(k, x, c) /\ ~(k = "cur" /\ x = p)
    <3>1. CASE x = p
      BY <1>1, <1>2, <1>3, <1>4, <1>6, <1>7, <1>9, <2>2, <3>1 DEF At
    <3>2. CASE x # p
      BY <1>1, <1>2, <1>3, <1>4, <1>6, <2>2, <3>2 DEF At, StopPC
    <3> QED  BY <3>1, <3>2
  <2>3. AtMostOne(c)
    BY <1>t, <1>2 DEF EarlyTokens
  <2> QED  BY <1>7, <1>9, <2>1, <2>2, <2>3 DEF AtMostOne
<1>10. ASSUME NEW u \in TCB, u # t, u # c \/ ~Quits(c), NEW k, NEW x  PROVE At(k, x, u)' <=> At(k, x, u)
  <2>1. CASE x = p
    BY <1>1, <1>2, <1>3, <1>4, <1>6, <1>10, <2>1, Bases2 DEF At, StopPC
  <2>2. CASE x # p
    BY <1>1, <1>3, <1>4, <1>6, <1>10, <2>2 DEF At, StopPC
  <2> QED  BY <2>1, <2>2
<1>11. EarlyTokens'
  <2>1. t \notin freed' /\ (Quits(c) => c \notin freed')
    BY <1>t, <1>1, <1>2, <1>7 DEF EarlyTokens
  <2>2. \A u \in TCB : Live(u)' <=> Live(u)
    BY <1>1 DEF Live
  <2>3. GoesTo(t, "cur", p) /\ (Quits(c) => GoesTo(c, "from", p))
    BY <1>8, <1>9 DEF GoesTo
  <2>4. \A u \in TCB : u # t /\ (u # c \/ ~Quits(c)) => StaysAt(u)
    BY <1>10 DEF StaysAt
  <2> QED  BY <1>t, <1>1, <2>1, <2>2, <2>3, <2>4, TokensMove
<1>12. EarlyHandles'
  BY <1>1, HandlesStay
<1>13. EarlyStates'
  <2>1. StateAt("post", t, None, c)
    BY <1>7 DEF StateAt
  <2>2. /\ \A u \in Queued' \cup waiters' : Live(u)
        /\ \A u, v \in TCB : Joins(u, v)' => Live(u)
    BY <1>t, <1>1, <1>4, <1>6 DEF EarlyStates
  <2> QED  BY <1>1, <1>3, <2>1, <2>2, StatesStay
<1>14. OneProcessor'
  <2>1. ASSUME NEW q \in Procs, q # p, pc[q] # "spin"  PROVE cur[q] # t
    <3> SUFFICES ASSUME cur[q] = t  PROVE FALSE
      OBVIOUS
    <3>1. ~At("cur", q, t)
      BY <1>t, <1>2, <1>7 DEF EarlyTokens, AtMostOne
    <3>2. pc[q] \in {"dequeue", "save"} /\ ~Quits(t)
      BY <2>1, <3>1 DEF At, StopPC
    <3>3. StateAt(pc[q], t, to[q], from[q])
      BY <1>t DEF EarlyStates
    <3> QED  BY <1>1, <3>2, <3>3 DEF StateAt
  <2> QED  BY <1>t, <1>1, <1>3, <2>1 DEF OneProcessor
<1> QED  BY <1>4, <1>5, <1>11, <1>12, <1>13, <1>14 DEF EarlyInv

\* A uthread that does not terminate gives its token away when it stops: to the
\* ready queue, a waiter queue or the uthread it joins.
LEMMA EarlyStop ==
    ASSUME EarlyInv, NEW p \in Procs, NEW c \in TCB, c = cur[p],
           pc[p] \in {"user", "join"}, ~Quits(c),
           NEW s \in {"RUNABLE", "BLOCKED"},
           pc' = [pc EXCEPT ![p] = "dequeue"], stop' = [stop EXCEPT ![p] = s],
           UNCHANGED <<state, freed, cur, to, from, target>>,
           TypeOK', NoDup', EarlyHandles',
           NEW l \in Waiting, NEW y, At(l, y, c)', WaitsAt(c, l, y)
    PROVE  EarlyInv'
<1>t. TypeOK /\ EarlyPlaces /\ EarlyStates /\ EarlyTokens
  BY DEF EarlyInv
<1>1. pc'[p] = "dequeue" /\ stop'[p] = s /\ \A q \in Procs : q # p => pc'[q] = pc[q] /\ stop'[q] = stop[q]
  BY <1>t DEF TypeOK
<1>2. At("cur", p, c) /\ state[c] = "RUNNING" /\ Live(c) /\ to[p] = None
  <2>1. StateAt(pc[p], c, to[p], from[p])
    BY <1>t DEF EarlyStates
  <2> QED  BY <1>t, <2>1 DEF At, StopPC, StateAt, Live, EarlyPlaces
<1>3. EarlyPlaces'
  BY <1>t, <1>1, <1>2 DEF EarlyPlaces, StopPC
<1>w. \A t \in TCB : \A k, x : k \in Waiting =>
         (At(k, x, t)' <=> At(k, x, t) \/ (t = c /\ k = l /\ x = y))
  BY DEF WaitsAt
<1>4. ASSUME NEW t \in TCB, NEW k, NEW x, k \notin Waiting
      PROVE  At(k, x, t)' <=> At(k, x, t) /\ ~(k = "cur" /\ x = p)
  <2>1. CASE k = "cur" /\ x = p
    BY <1>1, <2>1 DEF At, StopPC
  <2>2. CASE ~(k = "cur" /\ x = p)
    BY <1>1, <1>4, <2>2 DEF At, StopPC, Waiting
  <2> QED  BY <2>1, <2>2
<1>5. \A k, x : At(k, x, c)' <=> k = l /\ x = y
  <2>1. \A k, x : At(k, x, c) => k = "cur" /\ x = p
    BY <1>t, <1>2 DEF EarlyTokens, AtMostOne
  <2>2. ASSUME NEW k, NEW x  PROVE At(k, x, c)' <=> k = l /\ x = y
    <3>1. CASE k \in Waiting
      BY <1>w, <2>1, <3>1 DEF Waiting
    <3>2. CASE k \notin Waiting
      BY <1>4, <2>1, <3>2
    <3> QED  BY <3>1, <3>2
  <2> QED  BY <2>2
<1>6. ASSUME NEW t \in TCB, t # c, NEW k, NEW x  PROVE At(k, x, t)' <=> At(k, x, t)
  <2>1. CASE k \in Waiting
    BY <1>w, <1>6, <2>1
  <2>2. CASE k \notin Waiting
    <3>1. ~(At(k, x, t) /\ k = "cur" /\ x = p)
      BY <1>6 DEF At
    <3> QED  BY <1>4, <2>2, <3>1
  <2> QED  BY <2>1, <2>2
<1>7. EarlyTokens'
  <2>1. GoesTo(c, l, y) /\ \A u \in TCB : u # c => StaysAt(u)
    BY <1>5, <1>6 DEF GoesTo, StaysAt
  <2>2. c \notin freed /\ freed' = freed /\ \A u \in TCB : u # c => (Live(u)' => Live(u))
    BY <1>t, <1>2 DEF EarlyTokens, Live
  <2> QED  BY <2>1, <2>2, OneMoves
<1>8. EarlyStates'
  <2>1. StateAt(pc'[p], cur'[p], to'[p], from'[p])
    BY <1>1, <1>2 DEF StateAt
  <2>2. ASSUME NEW t \in Queued' \cup waiters'  PROVE Live(t)
    <3>1. t \in TCB /\ \E k \in {"ready", "waiters"} : At(k, None, t)'
      BY <2>2, Bases2 DEF At, TypeOK, Queued
    <3>2. t = c \/ \E k \in {"ready", "waiters"} : At(k, None, t)
      BY <1>w, <3>1 DEF Waiting
    <3> QED  BY <1>t, <1>2, <3>2 DEF At, EarlyStates
  <2>3. ASSUME NEW t \in TCB, NEW u \in TCB, Joins(t, u)'  PROVE Live(t)
    <3>1. At("joins", u, t)'
      BY <2>3 DEF At
    <3>2. t = c \/ At("joins", u, t)
      BY <1>w, <3>1 DEF Waiting
    <3> QED  BY <1>t, <1>2, <3>2 DEF At, EarlyStates
  <2> QED  BY <1>1, <2>1, <2>2, <2>3, StatesStay
<1>9. OneProcessor'
  BY <1>1, StaysApart
<1> QED  BY <1>3, <1>7, <1>8, <1>9 DEF EarlyInv

LEMMA EarlyYield == ASSUME SafeExits, EarlyInv, NEW p \in Procs, YieldEarly(p)  PROVE EarlyInv'
<1>t. TypeOK /\ NoDup
  BY DEF EarlyInv
<1>f. PICK c : c = cur[p]
  OBVIOUS
<1>1. /\ pc[p] = "user" /\ pc' = [pc EXCEPT ![p] = "dequeue"] /\ stop' = [stop EXCEPT ![p] = "RUNABLE"]
      /\ UNCHANGED <<state, joiner, freed, cur, to, from, target, handles, waiters>>
      /\ c \in TCB /\ Enqueue(c)
  BY <1>t, <1>f DEF YieldEarly, Stop, Goto, tcbVars, clientVars, TypeOK
<1>2. ~Quits(c)
  BY <1>f, BaseAssumption DEF YieldEarly, Calling, SafeExits, Quits
<1>3. ready' \in Seq(TCB) /\ Queued' = Queued \cup {c} /\ NoDup'
  BY <1>t, <1>1, EnqueueLemma DEF TypeOK
<1>4. sleeping' \subseteq Procs
  BY <1>t, <1>1 DEF Enqueue, TypeOK
<1>5. TypeOK'
  BY <1>t, <1>1, <1>3, <1>4 DEF TypeOK
<1>6. EarlyHandles'
  BY <1>1, HandlesStay
<1>7. At("ready", None, c)'
  BY <1>3 DEF At
<1>8. ASSUME NEW t \in TCB, NEW k, NEW x, k \in {"ready", "waiters", "joins"}
      PROVE  At(k, x, t)' <=> At(k, x, t) \/ (t = c /\ k = "ready" /\ x = None)
  BY <1>1, <1>3, <1>8 DEF At, Joins
<1>9. "ready" \in Waiting /\ WaitsAt(c, "ready", None)
  BY <1>8 DEF Waiting, WaitsAt
<1>10. /\ c \in TCB /\ c = cur[p] /\ pc[p] \in {"user", "join"} /\ ~Quits(c)
      /\ UNCHANGED <<state, freed, cur, to, from, target>>
  BY <1>f, <1>1, <1>2
<1> QED  BY <1>1, <1>3, <1>5, <1>6, <1>7, <1>9, <1>10, EarlyStop

LEMMA EarlyBlock == ASSUME SafeExits, EarlyInv, NEW p \in Procs, Block(p)  PROVE EarlyInv'
<1>t. TypeOK /\ NoDup
  BY DEF EarlyInv
<1>f. PICK c : c = cur[p]
  OBVIOUS
<1>1. /\ pc[p] = "user" /\ pc' = [pc EXCEPT ![p] = "dequeue"] /\ stop' = [stop EXCEPT ![p] = "BLOCKED"]
      /\ UNCHANGED <<state, joiner, freed, ready, sleeping, cur, to, from, target, handles>>
      /\ c \in Threads /\ c \in TCB /\ waiters' = waiters \cup {c}
  BY <1>t, <1>f DEF Block, Calling, Stop, Goto, tcbVars, queueVars, TypeOK
<1>2. ~Quits(c)
  BY <1>f DEF Block, Calling, SafeExits, Quits
<1>3. NoDup' /\ Queued' = Queued /\ TypeOK'
  BY <1>t, <1>1 DEF NoDup, Queued, TypeOK
<1>6. EarlyHandles'
  BY <1>1, HandlesStay
<1>7. At("waiters", None, c)'
  BY <1>1 DEF At
<1>8. ASSUME NEW t \in TCB, NEW k, NEW x, k \in {"ready", "waiters", "joins"}
      PROVE  At(k, x, t)' <=> At(k, x, t) \/ (t = c /\ k = "waiters" /\ x = None)
  BY <1>1, <1>3, <1>8 DEF At, Joins
<1>9. "waiters" \in Waiting /\ WaitsAt(c, "waiters", None)
  BY <1>8 DEF Waiting, WaitsAt
<1>10. /\ c \in TCB /\ c = cur[p] /\ pc[p] \in {"user", "join"} /\ ~Quits(c)
      /\ UNCHANGED <<state, freed, cur, to, from, target>>
  BY <1>f, <1>1, <1>2
<1> QED  BY <1>1, <1>3, <1>6, <1>7, <1>9, <1>10, EarlyStop

\* uthread_join blocks.
LEMMA EarlyJoins ==
    ASSUME EarlyInv, NEW p \in Procs, JoinLocked(p), state[target[cur[p]]] \notin Gone
    PROVE  EarlyInv'
<1>t. TypeOK /\ NoDup /\ EarlyPlaces /\ EarlyTokens /\ EarlyHandles
  BY DEF EarlyInv
<1>f. PICK c, u : c = cur[p] /\ u = target[cur[p]]
  OBVIOUS
<1>1. /\ pc[p] = "join" /\ pc' = [pc EXCEPT ![p] = "dequeue"] /\ stop' = [stop EXCEPT ![p] = "BLOCKED"]
      /\ joiner' = [joiner EXCEPT ![u] = c]
      /\ UNCHANGED <<state, freed, ready, sleeping, cur, to, from, target, handles, waiters>>
  BY <1>f DEF JoinLocked, Gone, Stop, Goto, queueVars
<1>2. c \in TCB /\ u \in TCB /\ u # None /\ target[c] = u /\ ~Quits(c) /\ c # Detached /\ state[u] \notin Gone
  BY <1>t, <1>f, <1>1, Bases2 DEF TypeOK, EarlyPlaces, TCB
<1>3. joiner'[u] = c /\ \A v \in TCB : v # u => joiner'[v] = joiner[v]
  BY <1>t, <1>1, <1>2 DEF TypeOK
<1>4. NoDup' /\ Queued' = Queued /\ TypeOK'
  BY <1>t, <1>1, <1>2 DEF NoDup, Queued, TypeOK
<1>5. At("cur", p, c) /\ \A t \in TCB : Joins(t, u) => t = c
  <2>1. At("cur", p, c)
    BY <1>f, <1>1 DEF At, StopPC
  <2>2. \A t \in TCB : Joins(t, u) => t = c
    BY <1>t, <1>2 DEF EarlyHandles, HandleInv
  <2> QED  BY <2>1, <2>2
<1>6. ~Joins(c, u)
  <2>1. ~At("joins", u, c)
    BY <1>t, <1>2, <1>5 DEF EarlyTokens, AtMostOne
  <2> QED  BY <1>2, <2>1 DEF At
<1>7. \A t, v \in TCB : Joins(t, v)' <=> Joins(t, v) \/ (t = c /\ v = u)
  BY <1>1, <1>2, <1>3, <1>5, <1>6 DEF Joins
<1>8. EarlyHandles'
  <2>1. \A v \in TCB : joiner'[v] = Detached => joiner[v] = Detached
    BY <1>2, <1>3
  <2>2. HandleInv'
    BY <1>t, <1>1, <2>1, NullAssumption DEF EarlyHandles, HandleInv, TypeOK, TCB
  <2> QED  BY <1>t, <1>1, <1>2, <1>7, <2>2 DEF EarlyHandles
<1>9. At("joins", u, c)'
  BY <1>2, <1>7 DEF At
<1>10. ASSUME NEW t \in TCB, NEW k, NEW x, k \in {"ready", "waiters", "joins"}
      PROVE  At(k, x, t)' <=> At(k, x, t) \/ (t = c /\ k = "joins" /\ x = u)
  BY <1>1, <1>2, <1>4, <1>7, <1>10 DEF At
<1>11. "joins" \in Waiting /\ WaitsAt(c, "joins", u)
  BY <1>10 DEF Waiting, WaitsAt
<1>12. /\ c \in TCB /\ c = cur[p] /\ pc[p] \in {"user", "join"} /\ ~Quits(c)
      /\ UNCHANGED <<state, freed, cur, to, from, target>>
  BY <1>f, <1>1, <1>2
<1> QED  BY <1>1, <1>4, <1>8, <1>9, <1>11, <1>12, EarlyStop

LEMMA EarlyRelease ==
    ASSUME EarlyInv, NEW p \in Procs, pc[p] \in {"join", "release"}, ReleaseTarget(p),
           UNCHANGED <<state, ready, sleeping, cur, to, from, handles, waiters>>
    PROVE  EarlyInv'
<1>t. TypeOK /\ NoDup /\ EarlyPlaces /\ EarlyStates /\ EarlyTokens /\ EarlyHandles
  BY DEF EarlyInv
<1>f. PICK c, t : c = cur[p] /\ t = target[c]
  OBVIOUS
<1>1. /\ pc' = [pc EXCEPT ![p] = "user"] /\ target' = [target EXCEPT ![c] = None] /\ stop' = stop
      /\ \/ state[t] = "DEAD" /\ freed' = freed \cup {t} /\ joiner' = joiner
         \/ state[t] # "DEAD" /\ freed' = freed /\ joiner' = [joiner EXCEPT ![t] = Detached]
  BY <1>f DEF ReleaseTarget, Goto
<1>2. /\ c \in TCB /\ t \in TCB /\ t # None /\ t \in Threads /\ t \notin handles
      /\ cur[p] = c /\ target[c] = t
      /\ joiner[t] # Detached /\ state[t] # "NONE" /\ \A u \in TCB : target[u] = t => u = c
  BY <1>t, <1>f, Bases2 DEF TypeOK, EarlyPlaces, EarlyHandles, HandleInv
<1>3. /\ pc'[p] = "user" /\ (\A q \in Procs : q # p => pc'[q] = pc[q])
      /\ \A u \in TCB : target'[u] = IF u = c THEN None ELSE target[u]
  BY <1>t, <1>1, <1>2 DEF TypeOK
<1>4. \A u \in TCB : /\ u # t => joiner'[u] = joiner[u]
                     /\ joiner'[u] = joiner[u] \/ (u = t /\ joiner'[u] = Detached)
  BY <1>t, <1>1, <1>2 DEF TypeOK
<1>5. \A u, v \in TCB : Joins(u, v) => u # c /\ v # t
  <2>1. At("cur", p, c)
    BY <1>2 DEF At, StopPC
  <2>2. \A v \in TCB : ~At("joins", v, c)
    BY <1>t, <1>2, <2>1 DEF EarlyTokens, AtMostOne
  <2>3. \A u, v \in TCB : Joins(u, v) => u # c
    BY <2>2 DEF At
  <2> QED  BY <1>t, <1>2, <2>3 DEF EarlyHandles
<1>6. \A u, v \in TCB : Joins(u, v)' <=> Joins(u, v)
  BY <1>4, <1>5, Bases2 DEF Joins
<1>7. TypeOK'
  <2>1. joiner' \in [TCB -> TCB \cup {None, Detached}] /\ freed' \subseteq TCB
    BY <1>t, <1>1, <1>2 DEF TypeOK
  <2>2. target' \in [TCB -> Threads \cup {None}]
    BY <1>t, <1>1, <1>2 DEF TypeOK
  <2> QED  BY <1>t, <1>1, <2>1, <2>2 DEF TypeOK
<1>8. NoDup' /\ Queued' = Queued
  BY <1>t DEF NoDup, Queued
<1>9. EarlyPlaces'
  <2>1. ASSUME NEW q \in Procs, q # p, pc[q] \in {"join", "release"}  PROVE cur[q] # c
    BY <1>2, <2>1 DEF EarlyInv, OneProcessor
  <2>2. \A q \in Procs : cur[q] \in TCB
    BY <1>t DEF TypeOK
  <2>3. to[p] = None
    BY <1>t DEF EarlyPlaces
  <2>4. \A b \in Bases : target'[b] = None
    BY <1>t, <1>3, Bases2 DEF EarlyPlaces
  <2> QED  BY <1>t, <1>1, <1>3, <2>1, <2>2, <2>3, <2>4 DEF EarlyPlaces, StopPC
<1>10. ASSUME NEW u \in TCB  PROVE StaysAt(u) /\ (Live(u)' => Live(u))
  BY <1>2, <1>3, <1>6, <1>8, <1>10 DEF StaysAt, At, StopPC, Live
<1>11. EarlyTokens'
  <2>1. ASSUME NEW u \in freed' \ freed  PROVE Ends(u)
    <3>1. u = t /\ state[t] = "DEAD"
      BY <1>1, <2>1
    <3>2. \A k, x : ~At(k, x, t)
      BY <1>2, <3>1, Located
    <3> QED  BY <1>2, <1>10, <3>1, <3>2 DEF Ends, StaysAt
  <2> QED  BY <1>t, <1>10, <2>1, TokensMove
<1>12. EarlyHandles'
  <2>1. \A u \in TCB : target'[u] # None => target'[u] = target[u] /\ target'[u] \in TCB /\ target'[u] # t
    BY <1>t, <1>2, <1>3 DEF TypeOK, TCB
  <2>2. HandleInv'
    BY <1>t, <1>2, <1>4, <2>1 DEF EarlyHandles, HandleInv, TypeOK, TCB
  <2>3. \A u \in freed' : u \in freed \/ (u = t /\ state[t] = "DEAD")
    BY <1>1
  <2>4. \A u \in freed' : u \in TCB /\ u # None
    BY <1>t, <1>2, <2>3, Bases2 DEF TypeOK
  <2>5. \A u \in freed' : state[u] \in Gone /\ u \notin handles /\ \A v \in TCB : target'[v] # u
    BY <1>t, <1>2, <2>1, <2>3, <2>4 DEF EarlyHandles, Gone
  <2>6. \A u, v \in TCB : Joins(u, v)' => target'[u] = v
    BY <1>t, <1>3, <1>5, <1>6 DEF EarlyHandles
  <2> QED  BY <2>2, <2>5, <2>6 DEF EarlyHandles
<1>13. EarlyStates'
  <2>1. StateAt(pc'[p], cur'[p], to'[p], from'[p])
    <3>1. StateAt(pc[p], cur[p], to[p], from[p])
      BY <1>t DEF EarlyStates
    <3> QED  BY <1>3, <3>1 DEF StateAt
  <2>2. /\ \A u \in Queued' \cup waiters' : Live(u)
        /\ \A u, v \in TCB : Joins(u, v)' => Live(u)
    BY <1>t, <1>6, <1>8 DEF EarlyStates
  <2> QED  BY <1>3, <2>1, <2>2, StatesStay
<1>14. OneProcessor'
  BY <1>3, StaysApart
<1> QED  BY <1>7, <1>8, <1>9, <1>11, <1>12, <1>13, <1>14 DEF EarlyInv

LEMMA EarlyHandle ==
    ASSUME SafeExits, EarlyInv, NEW p \in Procs, NEW t \in Threads, Join(p, t) \/ Detach(p, t)
    PROVE  EarlyInv'
<1>t. TypeOK /\ NoDup /\ EarlyPlaces /\ EarlyStates /\ EarlyTokens /\ EarlyHandles
  BY DEF EarlyInv
<1>f. PICK c : c = cur[p]
  OBVIOUS
<1>1. /\ pc[p] = "user" /\ c \in Threads /\ t \in handles /\ handles' = handles \ {t}
      /\ UNCHANGED <<state, joiner, freed, ready, sleeping, cur, to, from, stop, waiters>>
      /\ \/ UNCHANGED <<target, pc>>
         \/ \E l \in {"join", "release"} : /\ target' = [target EXCEPT ![c] = t]
                                           /\ pc' = [pc EXCEPT ![p] = l]
                                           /\ l = "join" => "join" \in Calls[c]
  BY <1>f DEF Join, Detach, UseHandle, Calling, Goto, tcbVars, queueVars
<1>2. /\ c \in TCB /\ t \in TCB /\ cur[p] = c /\ t # None
      /\ joiner[t] # Detached /\ state[t] # "NONE" /\ t \notin freed /\ \A u \in TCB : target[u] # t
  <2>1. c \in TCB /\ t \in TCB /\ t # None
    BY <1>1, Bases2
  <2> QED  BY <1>t, <1>f, <1>1, <2>1 DEF EarlyHandles, HandleInv
<1>3. /\ pc'[p] \in {"user", "join", "release"} /\ (\A q \in Procs : q # p => pc'[q] = pc[q])
      /\ pc'[p] = "join" => "join" \in Calls[c]
      /\ pc'[p] \in {"join", "release"} => target'[c] = t
      /\ \A u \in TCB : u # c => target'[u] = target[u]
      /\ target'[c] \in {target[c], t}
  BY <1>t, <1>1, <1>2 DEF TypeOK
<1>4. TypeOK' /\ NoDup' /\ Queued' = Queued
  BY <1>t, <1>1, <1>2 DEF TypeOK, NoDup, Queued
<1>5. pc'[p] = "join" => ~Quits(c)
  BY <1>3 DEF SafeExits, Quits
<1>6. EarlyPlaces'
  <2>1. \A b \in Bases : target'[b] = None
    BY <1>t, <1>1, <1>3, Bases2, BaseAssumption DEF EarlyPlaces
  <2>2. to[p] = None /\ \A q \in Procs : cur[q] \in TCB
    BY <1>t, <1>1 DEF EarlyPlaces, TypeOK
  <2>3. \A q \in Procs : pc'[q] \in {"join", "release"} => cur[q] \in Threads /\ target'[cur[q]] # None
    BY <1>t, <1>1, <1>2, <1>3, <2>2 DEF EarlyPlaces
  <2> QED  BY <1>t, <1>1, <1>2, <1>3, <1>5, <2>1, <2>2, <2>3 DEF EarlyPlaces, StopPC
<1>7. \A u, v \in TCB : Joins(u, v)' <=> Joins(u, v)
  BY <1>1 DEF Joins
<1>8. \A u \in TCB : StaysAt(u) /\ (Live(u)' => Live(u))
  BY <1>1, <1>3, <1>4, <1>7 DEF StaysAt, At, StopPC, Live
<1>9. EarlyTokens'
  BY <1>1, <1>8, TokensStay
<1>10. EarlyHandles'
  <2>1. \A u \in TCB : target'[u] \in {target[u], t}
    BY <1>3
  <2>2. \A u, v \in TCB : target'[u] = t /\ target'[v] = t => u = v
    BY <1>2, <1>3
  <2>3. HandleInv'
    BY <1>t, <1>1, <1>2, <2>1, <2>2 DEF EarlyHandles, HandleInv
  <2>4. \A v \in TCB : ~Joins(c, v)
    <3>1. At("cur", p, c)
      BY <1>1, <1>2 DEF At, StopPC
    <3>2. \A v \in TCB : ~At("joins", v, c)
      BY <1>t, <1>2, <3>1 DEF EarlyTokens, AtMostOne
    <3> QED  BY <3>2 DEF At
  <2>5. \A u, v \in TCB : Joins(u, v)' => target'[u] = v
    BY <1>t, <1>3, <1>7, <2>4 DEF EarlyHandles
  <2> QED  BY <1>t, <1>1, <1>2, <2>1, <2>3, <2>5 DEF EarlyHandles
<1>11. EarlyStates'
  <2>1. StateAt(pc'[p], cur'[p], to'[p], from'[p])
    <3>1. StateAt("user", cur[p], to[p], from[p])
      BY <1>t, <1>1 DEF EarlyStates
    <3> QED  BY <1>1, <1>3, <3>1 DEF StateAt
  <2>2. /\ \A u \in Queued' \cup waiters' : Live(u)
        /\ \A u, v \in TCB : Joins(u, v)' => Live(u)
    BY <1>t, <1>1, <1>4, <1>7 DEF EarlyStates
  <2> QED  BY <1>1, <1>3, <2>1, <2>2, StatesStay
<1>12. OneProcessor'
  BY <1>1, <1>3, StaysApart
<1> QED  BY <1>4, <1>6, <1>9, <1>10, <1>11, <1>12 DEF EarlyInv

\* A uthread that terminates keeps its token, and the one that joins it is queued.
LEMMA EarlyExit == ASSUME EarlyInv, NEW p \in Procs, Exit(p)  PROVE EarlyInv'
<1>t. TypeOK /\ NoDup /\ EarlyPlaces /\ EarlyStates /\ EarlyTokens /\ EarlyHandles
  BY DEF EarlyInv
<1>f. PICK c, j : c = cur[p] /\ j = joiner[c]
  OBVIOUS
<1>1. /\ pc[p] = "user" /\ pc' = [pc EXCEPT ![p] = "dequeue"] /\ stop' = [stop EXCEPT ![p] = "DYING"]
      /\ state' = [state EXCEPT ![c] = "DYING"]
      /\ UNCHANGED <<joiner, freed, cur, to, from, target, handles, waiters>>
      /\ IF j \in TCB THEN Enqueue(j) ELSE UNCHANGED <<ready, sleeping>>
  BY <1>f DEF Exit, Calling, Stop, Goto, queueVars, clientVars
<1>2. /\ c \in TCB /\ Quits(c) /\ state[c] = "RUNNING" /\ to[p] = None /\ cur[p] = c
  <2>1. StateAt(pc[p], cur[p], to[p], from[p]) /\ cur[p] \in TCB
    BY <1>t DEF EarlyStates, TypeOK
  <2>2. Quits(c)
    BY <1>f DEF Exit, Calling, Quits
  <2> QED  BY <1>t, <1>f, <1>1, <2>1, <2>2 DEF StateAt, EarlyPlaces
<1>3. /\ pc'[p] = "dequeue" /\ stop'[p] = "DYING" /\ state'[c] = "DYING"
      /\ \A q \in Procs : q # p => pc'[q] = pc[q] /\ stop'[q] = stop[q]
      /\ \A t \in TCB : t # c => state'[t] = state[t]
  BY <1>t, <1>1, <1>2 DEF TypeOK
<1>4. /\ ready' \in Seq(TCB) /\ sleeping' \subseteq Procs /\ NoDup'
      /\ Queued' = IF j \in TCB THEN Queued \cup {j} ELSE Queued
  <2>1. CASE j \in TCB
    BY <1>t, <1>1, <2>1, EnqueueLemma DEF Enqueue, TypeOK
  <2>2. CASE j \notin TCB
    BY <1>t, <1>1, <2>2 DEF TypeOK, NoDup, Queued
  <2> QED  BY <2>1, <2>2
<1>5. TypeOK'
  BY <1>t, <1>1, <1>2, <1>4 DEF TypeOK, States
<1>6. \A t \in TCB : /\ t # c => (Live(t)' <=> Live(t))
                     /\ state[t] # "NONE" => state'[t] # "NONE"
                     /\ state[t] \in Gone => state'[t] \in Gone
  BY <1>1, <1>3 DEF Live, Gone
<1>7. EarlyHandles'
  BY <1>1, <1>6, HandlesStay
<1>8. EarlyPlaces'
  BY <1>t, <1>1, <1>2, <1>3 DEF EarlyPlaces, StopPC
<1>9. \A k, x : At(k, x, c) => k = "cur" /\ x = p
  <2>1. At("cur", p, c)
    BY <1>2 DEF At
  <2> QED  BY <1>t, <1>2, <2>1 DEF EarlyTokens, AtMostOne
<1>10. j \in TCB => Joins(j, c) /\ j # c /\ Live(j)
  <2> SUFFICES ASSUME j \in TCB  PROVE Joins(j, c) /\ j # c /\ Live(j)
    OBVIOUS
  <2>1. Joins(j, c)
    BY <1>f, <1>2 DEF Joins, Gone
  <2>2. At("joins", c, j)
    BY <1>2, <2>1 DEF At
  <2> QED  BY <1>t, <1>2, <1>9, <2>1, <2>2 DEF EarlyStates
<1>11. \A t, u \in TCB : Joins(t, u)' <=> Joins(t, u) /\ u # c
  BY <1>1, <1>2, <1>3 DEF Joins, Gone
<1>12. ASSUME NEW t \in TCB, NEW k, NEW x
       PROVE  At(k, x, t)' <=> \/ At(k, x, t) /\ ~(k = "joins" /\ x = c)
                               \/ t = j /\ k = "ready" /\ x = None
  <2>1. CASE k = "ready"
    BY <1>4, <2>1 DEF At
  <2>2. CASE k = "joins"
    BY <1>11, <2>2 DEF At
  <2>3. CASE k = "waiters"
    BY <1>1, <2>3 DEF At
  <2>4. CASE k = "cur"
    BY <1>1, <1>2, <1>3, <2>4 DEF At, StopPC
  <2>5. CASE k \in {"to", "from"}
    BY <1>1, <1>3, <2>5 DEF At
  <2>6. CASE k \notin {"cur", "to", "from", "ready", "waiters", "joins"}
    BY <2>6 DEF At
  <2> QED  BY <2>1, <2>2, <2>3, <2>4, <2>5, <2>6
<1>13. \A t \in TCB : t # j => StaysAt(t)
  <2> SUFFICES ASSUME NEW t \in TCB, t # j, NEW k, NEW x  PROVE At(k, x, t)' <=> At(k, x, t)
    BY DEF StaysAt
  <2>1. ~At("joins", c, t)
    BY <1>f DEF At, Joins
  <2> QED  BY <1>12, <2>1
<1>14. j \in TCB => j \notin freed' /\ GoesTo(j, "ready", None)
  <2> SUFFICES ASSUME j \in TCB  PROVE j \notin freed' /\ GoesTo(j, "ready", None)
    OBVIOUS
  <2>1. At("joins", c, j)
    BY <1>2, <1>10 DEF At
  <2>2. j \notin freed /\ AtMostOne(j)
    BY <1>t, <2>1 DEF EarlyTokens
  <2>3. \A k, x : At(k, x, j) => k = "joins" /\ x = c
    BY <2>1, <2>2 DEF AtMostOne
  <2> QED  BY <1>1, <1>12, <2>2, <2>3 DEF GoesTo
<1>15. EarlyTokens'
  <2>1. freed' \ freed = {}
    BY <1>1
  <2>2. ~Live(c)'
    BY <1>3 DEF Live
  <2>3. \A t \in TCB : \/ StaysAt(t) /\ (Live(t)' => Live(t))
                       \/ t \notin freed' /\ \E l, y : GoesTo(t, l, y)
    BY <1>6, <1>13, <1>14, <2>2
  <2> QED  BY <1>t, <2>1, <2>3, TokensMove
<1>16. EarlyStates'
  <2>1. ASSUME NEW q \in Procs  PROVE StateAt(pc[q], cur[q], to[q], from[q])'
    <3>1. StateAt(pc[q], cur[q], to[q], from[q]) /\ cur[q] \in TCB
      BY <1>t DEF EarlyStates, TypeOK
    <3>2. (pc[q] \in {"save", "spin"} => to[q] \in TCB) /\ (pc[q] \in {"post", "reap"} => from[q] \in TCB)
      BY <1>t DEF EarlyPlaces, TypeOK
    <3>3. CASE q = p
      BY <1>1, <1>2, <1>3, <3>3 DEF StateAt
    <3>4. CASE q # p
      <4>1. cur[q] # c
        BY <1>1, <1>2, <3>4, OthersAway
      <4>2. to[q] # c
        BY <1>9 DEF At
      <4>3. pc[q] \in {"post", "reap"} => from[q] # c
        BY <1>2, <1>9 DEF At
      <4> QED  BY <1>1, <1>3, <1>6, <3>1, <3>2, <3>4, <4>1, <4>2, <4>3 DEF StateAt
    <3> QED  BY <3>3, <3>4
  <2>2. \A t \in TCB : (IF Quits(t) THEN state[t] \notin {"RUNABLE", "BLOCKED"} ELSE state[t] \notin Gone)'
    <3> SUFFICES ASSUME NEW t \in TCB
                 PROVE  IF Quits(t) THEN state'[t] \notin {"RUNABLE", "BLOCKED"} ELSE state'[t] \notin Gone
      BY DEF Quits
    <3>1. CASE t = c
      BY <1>2, <1>3, <3>1
    <3>2. CASE t # c
      BY <1>t, <1>3, <3>2 DEF EarlyStates
    <3> QED  BY <3>1, <3>2
  <2>3. ASSUME NEW t \in Queued' \cup waiters'  PROVE Live(t)'
    <3>1. (t = j /\ j \in TCB) \/ t \in Queued \cup waiters
      BY <1>1, <1>4
    <3>2. CASE t \in Queued \cup waiters
      <4>1. t \in TCB /\ Live(t)
        BY <1>t, <3>2 DEF EarlyStates, TypeOK, Queued, TCB
      <4>2. t # c
        BY <1>9, <3>2 DEF At
      <4> QED  BY <1>6, <4>1, <4>2
    <3> QED  BY <1>6, <1>10, <3>1, <3>2
  <2>4. ASSUME NEW t \in TCB, NEW u \in TCB, Joins(t, u)'  PROVE Live(t)'
    <3>1. Joins(t, u)
      BY <1>11, <2>4
    <3>2. t # c
      BY <1>9, <3>1 DEF At
    <3> QED  BY <1>t, <1>6, <3>1, <3>2 DEF EarlyStates
  <2> QED  BY <2>1, <2>2, <2>3, <2>4 DEF EarlyStates
<1>17. OneProcessor'
  BY <1>1, <1>3, StaysApart
<1> QED  BY <1>4, <1>5, <1>7, <1>8, <1>15, <1>16, <1>17 DEF EarlyInv

LEMMA EarlyCreate ==
    ASSUME EarlyInv, NEW p \in Procs, NEW c \in Threads, Create(p, c)
    PROVE  EarlyInv'
<1>t. TypeOK /\ NoDup /\ EarlyPlaces /\ EarlyStates /\ EarlyTokens /\ EarlyHandles
  BY DEF EarlyInv
<1>1. /\ state[c] = "NONE" /\ state' = [state EXCEPT ![c] = "NASCENT"] /\ Enqueue(c)
      /\ handles' = handles \cup {c} /\ c \in TCB
      /\ UNCHANGED <<joiner, freed, pc, cur, to, from, stop, target, waiters>>
  BY DEF Create, procVars, TCB
<1>2. ready' \in Seq(TCB) /\ Queued' = Queued \cup {c} /\ NoDup' /\ sleeping' \subseteq Procs
  BY <1>t, <1>1, EnqueueLemma DEF Enqueue, TypeOK
<1>3. state'[c] = "NASCENT" /\ \A t \in TCB : t # c => state'[t] = state[t]
  BY <1>t, <1>1 DEF TypeOK
<1>4. TypeOK'
  BY <1>t, <1>1, <1>2 DEF TypeOK, States
<1>5. \A k, x : ~At(k, x, c)
  BY <1>1, Located
<1>6. c \notin freed
  BY <1>t, <1>1 DEF EarlyHandles, Gone
<1>7. \A t \in TCB : /\ t # c => (Live(t)' <=> Live(t))
                     /\ state'[t] \in Gone <=> state[t] \in Gone
                     /\ Live(c)'
  BY <1>1, <1>3 DEF Live, Gone
<1>8. \A t, u \in TCB : Joins(t, u)' <=> Joins(t, u)
  BY <1>1, <1>7 DEF Joins
<1>9. EarlyHandles'
  <2>1. joiner[c] # Detached
    BY <1>t, <1>1 DEF EarlyHandles, HandleInv
  <2>2. \A u \in TCB : target[u] # None => target[u] \in TCB /\ target[u] # c
    BY <1>t, <1>1 DEF EarlyHandles, HandleInv, TypeOK, TCB
  <2>3. \A u \in TCB : state'[u] = "NONE" => state[u] = "NONE"
    BY <1>3
  <2>4. \A u \in handles' : u \in TCB /\ joiner[u] # Detached /\ state'[u] # "NONE"
    BY <1>t, <1>1, <1>3, <2>1, <2>3 DEF EarlyHandles, HandleInv, TypeOK, TCB
  <2>5. HandleInv'
    BY <1>t, <1>1, <2>2, <2>3, <2>4 DEF EarlyHandles, HandleInv
  <2>6. \A u \in freed' : u \in TCB /\ u # c
    BY <1>t, <1>1, <1>6 DEF TypeOK
  <2> QED  BY <1>t, <1>1, <1>7, <1>8, <2>5, <2>6 DEF EarlyHandles
<1>10. EarlyPlaces'
  BY <1>t, <1>1 DEF EarlyPlaces
<1>11. ASSUME NEW t \in TCB, NEW k, NEW x
       PROVE  At(k, x, t)' <=> At(k, x, t) \/ (t = c /\ k = "ready" /\ x = None)
  BY <1>1, <1>2, <1>8 DEF At
<1>12. EarlyTokens'
  <2>1. GoesTo(c, "ready", None)
    BY <1>1, <1>5, <1>11 DEF GoesTo
  <2>2. \A t \in TCB : t # c => StaysAt(t) /\ (Live(t)' => Live(t))
    BY <1>7, <1>11 DEF StaysAt
  <2> QED  BY <1>1, <1>6, <2>1, <2>2, OneMoves
<1>13. EarlyStates'
  <2>1. ASSUME NEW q \in Procs  PROVE StateAt(pc[q], cur[q], to[q], from[q])'
    <3>1. StateAt(pc[q], cur[q], to[q], from[q]) /\ cur[q] \in TCB
      BY <1>t DEF EarlyStates, TypeOK
    <3>2. (pc[q] \in {"save", "spin"} => to[q] \in TCB) /\ (pc[q] \in {"post", "reap"} => from[q] \in TCB)
      BY <1>t DEF EarlyPlaces, TypeOK
    <3>3. cur[q] # c
      <4>1. pc[q] \in {"user", "join", "release", "dequeue", "save", "spin", "post", "reap", "resume"}
        BY <1>t DEF TypeOK, EarlyPlaces
      <4>2. state[cur[q]] # "NONE"
        BY <3>1, <4>1 DEF StateAt, Live
      <4> QED  BY <1>1, <4>2
    <3>4. to[q] # c
      BY <1>5 DEF At
    <3>5. pc[q] \in {"post", "reap"} /\ Quits(from[q]) => from[q] # c
      BY <1>5 DEF At
    <3> QED  BY <1>1, <1>3, <1>7, <3>1, <3>2, <3>3, <3>4, <3>5 DEF StateAt
  <2>2. \A t \in TCB : (IF Quits(t) THEN state[t] \notin {"RUNABLE", "BLOCKED"} ELSE state[t] \notin Gone)'
    <3> SUFFICES ASSUME NEW t \in TCB
                 PROVE  IF Quits(t) THEN state'[t] \notin {"RUNABLE", "BLOCKED"} ELSE state'[t] \notin Gone
      BY DEF Quits
    <3>1. CASE t = c
      BY <1>3, <3>1 DEF Gone
    <3>2. CASE t # c
      BY <1>t, <1>3, <3>2 DEF EarlyStates
    <3> QED  BY <3>1, <3>2
  <2>3. ASSUME NEW t \in Queued' \cup waiters'  PROVE Live(t)'
    <3>1. \A u \in Queued \cup waiters : u \in TCB /\ Live(u)
      BY <1>t DEF EarlyStates, TypeOK, Queued, TCB
    <3>2. t = c \/ t \in Queued \cup waiters
      BY <1>1, <1>2, <2>3
    <3> QED  BY <1>1, <1>7, <3>1, <3>2
  <2>4. ASSUME NEW t \in TCB, NEW u \in TCB, Joins(t, u)'  PROVE Live(t)'
    BY <1>t, <1>7, <1>8, <2>4 DEF EarlyStates
  <2> QED  BY <2>1, <2>2, <2>3, <2>4 DEF EarlyStates
<1>14. OneProcessor'
  BY <1>1, StaysApart
<1> QED  BY <1>2, <1>4, <1>9, <1>10, <1>12, <1>13, <1>14 DEF EarlyInv

LEMMA EarlyUnblock ==
    ASSUME EarlyInv, NEW p \in Procs, NEW c \in Threads, Unblock(p, c)
    PROVE  EarlyInv'
<1>t. TypeOK /\ NoDup /\ EarlyPlaces /\ EarlyStates /\ EarlyTokens
  BY DEF EarlyInv
<1>1. /\ c \in waiters /\ waiters' = waiters \ {c} /\ Enqueue(c) /\ c \in TCB
      /\ UNCHANGED <<state, joiner, freed, pc, cur, to, from, stop, target, handles>>
  BY DEF Unblock, tcbVars, procVars, TCB
<1>2. ready' \in Seq(TCB) /\ Queued' = Queued \cup {c} /\ NoDup' /\ sleeping' \subseteq Procs
  BY <1>t, <1>1, EnqueueLemma DEF Enqueue, TypeOK
<1>3. TypeOK'
  BY <1>t, <1>1, <1>2 DEF TypeOK
<1>4. EarlyPlaces'
  BY <1>t, <1>1 DEF EarlyPlaces
<1>5. EarlyHandles'
  BY <1>1, HandlesStay
<1>6. \A t, u \in TCB : Joins(t, u)' <=> Joins(t, u)
  BY <1>1 DEF Joins
<1>7. /\ c \notin freed /\ \A k, x : At(k, x, c) => k = "waiters" /\ x = None
  <2>1. At("waiters", None, c)
    BY <1>1 DEF At
  <2> QED  BY <1>t, <1>1, <2>1 DEF EarlyTokens, AtMostOne
<1>8. ASSUME NEW t \in TCB, NEW k, NEW x
      PROVE  At(k, x, t)' <=> \/ At(k, x, t) /\ ~(t = c /\ k = "waiters")
                              \/ t = c /\ k = "ready" /\ x = None
  BY <1>1, <1>2, <1>6 DEF At
<1>9. EarlyTokens'
  <2>1. GoesTo(c, "ready", None)
    BY <1>1, <1>7, <1>8 DEF GoesTo
  <2>2. \A t \in TCB : t # c => StaysAt(t) /\ (Live(t)' => Live(t))
    BY <1>1, <1>8 DEF StaysAt, Live
  <2> QED  BY <1>1, <1>7, <2>1, <2>2, OneMoves
<1>10. EarlyStates'
  <2>1. StateAt(pc'[p], cur'[p], to'[p], from'[p])
    BY <1>t, <1>1 DEF EarlyStates
  <2>2. /\ \A t \in Queued' \cup waiters' : Live(t)
        /\ \A t, u \in TCB : Joins(t, u)' => Live(t)
    BY <1>t, <1>1, <1>2, <1>6 DEF EarlyStates
  <2> QED  BY <1>1, <2>1, <2>2, StatesStay
<1>11. OneProcessor'
  BY <1>1, StaysApart
<1> QED  BY <1>2, <1>3, <1>4, <1>5, <1>9, <1>10, <1>11 DEF EarlyInv

LEMMA EarlyStep == ASSUME SafeExits, EarlyInv, [NextEarly]_vars  PROVE EarlyInv'
<1>1. CASE UNCHANGED vars
  <2>1. UNCHANGED <<state, joiner, freed, ready, sleeping, pc, cur, to, from, stop,
                    target, handles, waiters>>
    BY <1>1 DEF vars, tcbVars, queueVars, procVars, clientVars
  <2>2. TypeOK' /\ NoDup' /\ EarlyPlaces' /\ OneProcessor'
    BY <2>1 DEF EarlyInv, TypeOK, NoDup, EarlyPlaces, OneProcessor
  <2>3. Queued' = Queued /\ \A t, u \in TCB : Joins(t, u)' <=> Joins(t, u)
    BY <2>1 DEF Queued, Joins
  <2>4. \A t \in TCB : StaysAt(t) /\ (Live(t)' => Live(t))
    BY <2>1, <2>3 DEF StaysAt, At, Live
  <2>5. EarlyTokens' /\ EarlyHandles'
    BY <2>1, <2>4, TokensStay, HandlesStay
  <2>6. EarlyStates'
    BY <2>1, <2>3 DEF EarlyInv, EarlyStates, StateAt, Live
  <2> QED  BY <2>2, <2>5, <2>6 DEF EarlyInv
<1>2. ASSUME NEW p \in Procs, StepEarly(p)  PROVE EarlyInv'
  <2>1. CASE DequeueEarly(p) \/ Save(p) \/ Switch(p) \/ PostEarly(p) \/ Reap(p) \/ Resume(p)
    BY <2>1, EarlyDequeue, EarlySave, EarlySwitch, EarlyPost, EarlyReap, EarlyResume
  <2>2. CASE YieldEarly(p) \/ Block(p) \/ Exit(p)
    BY <2>2, EarlyYield, EarlyBlock, EarlyExit
  <2>3. CASE JoinLocked(p)
    <3>1. CASE state[target[cur[p]]] \in Gone
      <4>1. /\ pc[p] = "join" /\ ReleaseTarget(p)
            /\ UNCHANGED <<state, ready, sleeping, cur, to, from, handles, waiters>>
        BY <2>3, <3>1 DEF JoinLocked, Gone, queueVars
      <4> QED  BY <4>1, EarlyRelease
    <3>2. CASE state[target[cur[p]]] \notin Gone
      BY <2>3, <3>2, EarlyJoins
    <3> QED  BY <3>1, <3>2
  <2>4. CASE Release(p)
    <3>1. /\ pc[p] = "release" /\ ReleaseTarget(p)
          /\ UNCHANGED <<state, ready, sleeping, cur, to, from, handles, waiters>>
      BY <2>4 DEF Release, queueVars
    <3> QED  BY <3>1, EarlyRelease
  <2>5. ASSUME NEW t \in Threads, Create(p, t) \/ Unblock(p, t) \/ Join(p, t) \/ Detach(p, t)
        PROVE  EarlyInv'
    BY <2>5, EarlyCreate, EarlyUnblock, EarlyHandle
  <2> QED  BY <1>2, <2>1, <2>2, <2>3, <2>4, <2>5 DEF StepEarly
<1> QED  BY <1>1, <1>2 DEF NextEarly

LEMMA EarlyInit == ASSUME InitEarly  PROVE EarlyInv
<1>1. /\ P0 \in Procs /\ Main \in Threads /\ Main \in TCB /\ ~Quits(Main) /\ Base[P0] \in Bases
      /\ Main \notin Bases /\ Base[P0] \in TCB
      /\ \A p \in Procs : Base[p] \in TCB /\ Base[p] \in Bases /\ (Base[p] = Base[P0] => p = P0)
  BY ProcsAssumption, BaseAssumption, CallsAssumption DEF TCB, Quits, Bases
<1>2. /\ \A p \in Procs : /\ pc[p] = "user" /\ to[p] = None /\ from[p] = None
                          /\ cur[p] = IF p = P0 THEN Main ELSE Base[p]
      /\ \A t \in TCB : /\ joiner[t] = None /\ target[t] = None
                        /\ state[t] = IF t = Base[P0] THEN "NASCENT"
                                      ELSE IF t = Main \/ t \in Bases THEN "RUNNING" ELSE "NONE"
      /\ freed = {} /\ handles = {} /\ waiters = {} /\ ready = <<Base[P0]>> /\ sleeping = {}
  BY DEF InitEarly
<1>3. Queued = {Base[P0]} /\ NoDup /\ ready \in Seq(TCB)
  BY <1>1, <1>2 DEF Queued, NoDup
<1>4. TypeOK
  BY <1>1, <1>3 DEF InitEarly, TypeOK, States
<1>5. EarlyPlaces
  BY <1>1, <1>2, Bases2 DEF EarlyPlaces, StopPC
<1>6. \A t, u \in TCB : ~Joins(t, u)
  BY <1>2, Bases2 DEF Joins
<1>7. EarlyStates
  <2>1. \A t \in TCB : IF Quits(t) THEN state[t] \notin {"RUNABLE", "BLOCKED"} ELSE state[t] \notin Gone
    BY <1>2 DEF Gone
  <2>2. ASSUME NEW p \in Procs  PROVE StateAt(pc[p], cur[p], to[p], from[p])
    <3>1. pc[p] = "user" /\ state[cur[p]] = "RUNNING"
      BY <1>1, <1>2
    <3> QED  BY <3>1 DEF StateAt
  <2>3. Live(Base[P0])
    BY <1>1, <1>2 DEF Live
  <2> QED  BY <1>2, <1>3, <1>6, <2>1, <2>2, <2>3 DEF EarlyStates
<1>8. EarlyHandles
  BY <1>2, <1>6, Bases2 DEF EarlyHandles, HandleInv
<1>9. \A p, q \in Procs : cur[p] = cur[q] => p = q
  BY <1>1, <1>2, BaseAssumption
<1>10. EarlyTokens
  <2> SUFFICES ASSUME NEW t \in TCB
               PROVE  AtMostOne(t) /\ (Live(t) => \E k, x : At(k, x, t))
    BY <1>2 DEF EarlyTokens
  <2>1. ASSUME NEW k, NEW x, At(k, x, t)
        PROVE  \/ k = "cur" /\ x \in Procs /\ cur[x] = t
               \/ k = "ready" /\ x = None /\ t = Base[P0]
    BY <1>2, <1>3, <1>6, <2>1, Bases2 DEF At
  <2>2. \A x \in Procs : cur[x] # Base[P0]
    BY <1>1, <1>2
  <2>3. AtMostOne(t)
    BY <1>9, <2>1, <2>2 DEF AtMostOne
  <2>4. ASSUME Live(t)  PROVE \E k, x : At(k, x, t)
    <3>1. t = Base[P0] \/ t = Main \/ t \in Bases
      BY <1>2, <2>4 DEF Live
    <3>2. CASE t = Base[P0]
      <4>1. At("ready", None, t)
        BY <1>3, <3>2 DEF At
      <4> QED  BY <4>1
    <3>3. CASE t # Base[P0]
      <4>1. PICK p \in Procs : cur[p] = t
        BY <1>1, <1>2, <3>1, <3>3 DEF Bases
      <4>2. At("cur", p, t)
        BY <1>2, <4>1 DEF At, StopPC
      <4> QED  BY <4>2
    <3> QED  BY <3>2, <3>3
  <2> QED  BY <2>3, <2>4
<1>11. OneProcessor
  BY <1>9 DEF OneProcessor
<1> QED  BY <1>3, <1>4, <1>5, <1>7, <1>8, <1>10, <1>11 DEF EarlyInv

\* The invariant says enough.
LEMMA EarlyKept == ASSUME EarlyInv  PROVE EarlyThreadsKept
<1>t. TypeOK /\ EarlyPlaces /\ EarlyStates /\ EarlyTokens /\ EarlyHandles /\ OneProcessor
  BY DEF EarlyInv
<1>1. NoUseAfterFree
  <2>1. \A t \in Queued : t \notin freed
    BY <1>t DEF EarlyStates, EarlyHandles, Live, Gone
  <2>2. ASSUME NEW p \in Procs, NEW t \in Touched(p), t \in freed  PROVE FALSE
    <3>1. t \in TCB /\ cur[p] \in TCB /\ state[t] \in Gone /\ (\A u \in TCB : target[u] # t)
          /\ \A k, x : ~At(k, x, t)
      BY <1>t, <2>2 DEF TypeOK, EarlyTokens, EarlyHandles
    <3>2. cur[p] # t
      <4>1. StateAt(pc[p], cur[p], to[p], from[p])
        BY <1>t DEF EarlyStates
      <4>2. pc[p] \in {"user", "join", "release", "dequeue", "save", "spin", "post", "reap", "resume"}
        BY <1>t DEF TypeOK, EarlyPlaces
      <4>3. cur[p] = t => Quits(t) /\ pc[p] \in StopPC
        BY <3>1, <4>1, <4>2 DEF StateAt, Live, Gone, StopPC
      <4>4. cur[p] = t => At("cur", p, t)
        BY <4>3 DEF At
      <4> QED  BY <3>1, <4>4
    <3>3. to[p] # t
      BY <3>1 DEF At
    <3>4. pc[p] \in {"post", "reap"} => from[p] # t
      <4>1. Quits(t)
        BY <1>t, <3>1 DEF EarlyStates, Gone
      <4> QED  BY <3>1, <4>1 DEF At
    <3>5. pc[p] \notin {"recheck", "requeue"}
      BY <1>t DEF EarlyPlaces
    <3> QED  BY <2>2, <3>1, <3>2, <3>3, <3>4, <3>5 DEF Touched
  <2> QED  BY <2>1, <2>2 DEF NoUseAfterFree
<1>2. NoLostThread
  <2> SUFFICES ASSUME NEW t \in Threads, state[t] \notin {"NONE", "DYING", "DEAD"}
               PROVE  Running(t) \/ t \in Queued \cup waiters \/ Joining(t) \/ \E p \in Procs : to[p] = t
    BY DEF NoLostThread
  <2>1. t \in TCB
    BY DEF TCB
  <2>2. PICK k, x : At(k, x, t)
    BY <1>t, <2>1 DEF EarlyTokens, Live
  <2>3. CASE k = "cur"
    <3>1. x \in Procs /\ cur[x] = t /\ StateAt(pc[x], t, to[x], from[x]) /\ (pc[x] \in StopPC => Quits(t))
      BY <1>t, <2>2, <2>3 DEF At, EarlyStates
    <3>2. pc[x] # "spin"
      BY <3>1 DEF StateAt, StopPC
    <3> QED  BY <3>1, <3>2 DEF Running
  <2>4. CASE k = "from"
    <3>1. x \in Procs /\ from[x] = t /\ pc[x] \in {"post", "reap"} /\ Quits(t)
      BY <2>2, <2>4 DEF At
    <3>2. StateAt(pc[x], cur[x], to[x], t)
      BY <1>t, <3>1 DEF EarlyStates
    <3> QED  BY <3>1, <3>2 DEF StateAt
  <2>5. CASE k = "joins"
    <3>1. x \in TCB /\ x # None /\ Joins(t, x) /\ target[t] = x
      BY <1>t, <2>1, <2>2, <2>5, Bases2 DEF At, EarlyHandles
    <3> QED  BY <3>1 DEF Joining, Joins, Gone
  <2>6. CASE k \in {"to", "ready", "waiters"}
    BY <2>2, <2>6 DEF At
  <2> QED  BY <2>2, <2>3, <2>4, <2>5, <2>6 DEF At
<1> QED  BY <1>t, <1>1, <1>2 DEF EarlyThreadsKept

\* The scheduler of a9 runs no uthread on two processors, uses none that was
\* freed and loses none, for any number of processors and uthreads, if no
\* uthread that terminates yields, blocks or joins before.
THEOREM EarlyThreads == SafeExits => (SpecEarly => []EarlyThreadsKept)
<1>1. SUFFICES ASSUME SafeExits  PROVE SpecEarly => []EarlyThreadsKept
  OBVIOUS
<1>2. InitEarly => EarlyInv
  BY EarlyInit
<1>3. EarlyInv /\ [NextEarly]_vars => EarlyInv'
  BY <1>1, EarlyStep
<1>4. EarlyInv => EarlyThreadsKept
  BY EarlyKept
<1> QED  BY <1>2, <1>3, <1>4, PTL DEF SpecEarly

-----------------------------------------------------------------------------
(***************************************************************************)
(* The part of the promise of uthread_unblock that the code keeps, for any *)
(* processors and uthreads and whatever the clients unblock: a uthread     *)
(* that is unblocked while it runs comes back from its next uthread_block, *)
(* provided that it does not also yield or exit (SafeCalls).               *)
(*                                                                         *)
(* Clients that unblock a uthread twice can make it run twice, so that the *)
(* tokens are not available here.  Of a uthread that only blocks it is     *)
(* enough to follow the one unblock: it is on the ready queue, then in     *)
(* to_thread of a processor that spins, and then on the stack of that      *)
(* processor, which finds it BLOCKED.                                      *)
(***************************************************************************)

Types ==
    /\ state \in [TCB -> States]
    /\ ready \in Seq(TCB)
    /\ pc \in [Procs -> {"user", "join", "release", "dequeue", "save", "spin",
                         "post", "recheck", "reap", "requeue", "resume"}]
    /\ cur \in [Procs -> TCB]
    /\ to \in [Procs -> TCB \cup {None}]
    /\ from \in [Procs -> TCB \cup {None}]
    /\ stop \in [Procs -> {"RUNABLE", "BLOCKED", "DYING"}]
    /\ running \subseteq Threads

\* What the program counter says of the variables of a processor alone.
Places ==
    \A p \in Procs :
        /\ pc[p] \in {"save", "spin"} <=> to[p] # None
        /\ pc[p] \in PostPC => from[p] # None
        /\ pc[p] \in {"reap", "requeue"} => ~Blocker(from[p])
        /\ pc[p] = "join" => Blocker(cur[p])
        /\ pc[p] \in StopPC => (stop[p] = "BLOCKED" <=> Blocker(cur[p]))

\* The unblock of t has not reached it yet.
Pending(t) ==
    \/ t \in Queued
    \/ \E p \in Procs : to[p] = t
    \/ state[t] = "BLOCKED" /\ \E p \in Procs : cur[p] = t /\ pc[p] \in PostPC \cup {"resume"}

Remember ==
    \A t \in running : Blocker(t) => state[t] \in {"RUNNING", "BLOCKED"} /\ Pending(t)

UInv == Types /\ Places /\ KindState /\ Remember

-----------------------------------------------------------------------------
\* uthread_enqueue and uthread_dequeue forget nobody else.
LEMMA EnqueueKeeps ==
    ASSUME ready \in Seq(TCB), NEW t \in TCB, Enqueue(t)
    PROVE  ready' \in Seq(TCB) /\ t \in Queued' /\ Queued \subseteq Queued'
<1>1. CASE t \in Queued
  BY <1>1 DEF Enqueue, Queued
<1>2. CASE t \notin Queued
  <2>1. ready' = Append(ready, t) /\ ready' \in Seq(TCB)
    BY <1>2 DEF Enqueue
  <2>2. DOMAIN ready' = 1..(Len(ready) + 1) /\ DOMAIN ready = 1..Len(ready)
    BY <2>1
  <2>3. \A i \in DOMAIN ready' : ready'[i] = IF i <= Len(ready) THEN ready[i] ELSE t
    BY <2>1
  <2> QED  BY <2>1, <2>2, <2>3 DEF Queued
<1> QED  BY <1>1, <1>2

LEMMA TailForgetsHead ==
    ASSUME ready \in Seq(TCB), ready # <<>>, ready' = Tail(ready)
    PROVE  /\ ready' \in Seq(TCB) /\ Head(ready) \in TCB
           /\ Queued \subseteq Queued' \cup {Head(ready)}
<1>1. /\ Len(ready) \in Nat /\ DOMAIN ready = 1..Len(ready) /\ Head(ready) = ready[1]
      /\ DOMAIN ready' = 1..(Len(ready) - 1) /\ ready' \in Seq(TCB) /\ Head(ready) \in TCB
      /\ \A i \in 1..(Len(ready) - 1) : ready'[i] = ready[i + 1]
  OBVIOUS
<1>2. ASSUME NEW i \in DOMAIN ready, i # 1  PROVE ready[i] \in Queued'
  <2>1. i - 1 \in DOMAIN ready' /\ ready'[i - 1] = ready[i]
    BY <1>1, <1>2
  <2> QED  BY <2>1 DEF Queued
<1> QED  BY <1>1, <1>2 DEF Queued

\* A uthread that makes a call only blocks, or never does.
LEMMA CallerBlocks ==
    ASSUME SafeCalls, NEW p \in Procs
    PROVE  /\ Calling(p, "block") \/ Calling(p, "join") => Blocker(cur[p])
           /\ Calling(p, "yield") \/ Calling(p, "exit") => ~Blocker(cur[p])
BY BaseAssumption DEF SafeCalls, Calling, Blocker

LEMMA BaseBlocks == \A p \in Procs : Base[p] \in TCB /\ Base[p] \in Bases /\ Blocker(Base[p])
BY DEF Bases, TCB, Blocker

\* A step that changes no state and no stack, forgets nobody who is queued or about
\* to be run, and moves p to a place where what Places says holds.
LEMMA CalmStep ==
    ASSUME UInv, NEW p \in Procs, Types', UNCHANGED <<state, cur, from, running>>,
           \A q \in Procs : q # p => pc'[q] = pc[q] /\ to'[q] = to[q] /\ stop'[q] = stop[q],
           pc[p] \in PostPC => pc'[p] \in PostPC \cup {"resume"},
           pc[p] = "resume" => pc'[p] = "resume",
           Queued \subseteq Queued' \cup {to'[p]}, to[p] = None \/ to'[p] = to[p],
           /\ pc'[p] \in {"save", "spin"} <=> to'[p] # None
           /\ pc'[p] \in PostPC => from[p] # None
           /\ pc'[p] \in {"reap", "requeue"} => ~Blocker(from[p])
           /\ pc'[p] = "join" => Blocker(cur[p])
           /\ pc'[p] \in StopPC => (stop'[p] = "BLOCKED" <=> Blocker(cur[p]))
    PROVE  UInv'
<1>1. Places'
  BY DEF UInv, Places
<1>2. KindState'
  BY DEF UInv, KindState
<1>3. ASSUME NEW t \in running, Pending(t)  PROVE Pending(t)'
  <2>1. t \in TCB /\ t # None
    BY NullAssumption DEF UInv, Types, TCB
  <2>2. t \in Queued => t \in Queued' \/ to'[p] = t
    OBVIOUS
  <2>3. \A q \in Procs : to[q] = t => to'[q] = t
    BY <2>1
  <2>4. \A q \in Procs : pc[q] \in PostPC \cup {"resume"} => pc'[q] \in PostPC \cup {"resume"}
    OBVIOUS
  <2> QED  BY <1>3, <2>2, <2>3, <2>4 DEF Pending
<1>4. Remember'
  BY <1>3 DEF UInv, Remember
<1> QED  BY <1>1, <1>2, <1>4 DEF UInv

LEMMA DequeueU ==
    ASSUME UInv, NEW p \in Procs, Dequeue(p), UNCHANGED history
    PROVE  UInv'
<1>t. Types /\ Places
  BY DEF UInv
<1>0. pc[p] = "dequeue" /\ UNCHANGED <<state, cur, from, stop, running>>
  BY DEF Dequeue, tcbVars, clientVars, history
<1>1. CASE UNCHANGED <<to, pc, ready>>
  <2>1. Queued' = Queued /\ Types'
    BY <1>t, <1>0, <1>1 DEF Queued, Types
  <2> QED  BY <1>t, <1>0, <1>1, <2>1 DEF UInv, Places, KindState, Remember, Pending
<1>2. ASSUME NEW t \in TCB, to' = [to EXCEPT ![p] = t], pc' = [pc EXCEPT ![p] = "save"],
             ready' \in Seq(TCB), Queued \subseteq Queued' \cup {t}
      PROVE  UInv'
  <2>1. Types'
    BY <1>t, <1>0, <1>2 DEF Types
  <2>2. /\ to'[p] = t /\ t # None /\ pc'[p] = "save"
        /\ \A q \in Procs : q # p => pc'[q] = pc[q] /\ to'[q] = to[q]
    BY <1>t, <1>2, NullAssumption DEF Types
  <2> QED  BY <1>t, <1>0, <1>2, <2>1, <2>2, CalmStep DEF Places, StopPC, PostPC
<1>3. CASE ready # <<>> /\ ~UNCHANGED <<to, pc, ready>>
  <2>1. /\ ready' = Tail(ready) /\ to' = [to EXCEPT ![p] = Head(ready)]
        /\ pc' = [pc EXCEPT ![p] = "save"]
    BY <1>3 DEF Dequeue, Take, Sleep, Goto
  <2> QED  BY <1>t, <1>2, <1>3, <2>1, TailForgetsHead DEF Types
<1>4. CASE ready = <<>> /\ ~UNCHANGED <<to, pc, ready>>
  <2>1. /\ ready' = ready /\ to' = [to EXCEPT ![p] = Base[p]]
        /\ pc' = [pc EXCEPT ![p] = "save"]
    BY <1>4 DEF Dequeue, Take, Sleep, Goto, queueVars
  <2>2. Queued' = Queued
    BY <2>1 DEF Queued
  <2> QED  BY <1>t, <1>2, <2>1, <2>2, BaseBlocks DEF Types
<1> QED  BY <1>1, <1>3, <1>4

\* The steps that change no state: what they do to the queue and to p.
LEMMA QuietU ==
    ASSUME SafeCalls, UInv, NEW p \in Procs, UNCHANGED history,
           \/ PostDying(p) \/ PostRunable(p) \/ Requeue(p) \/ Idle(p) \/ Yield(p) \/ Block(p)
           \/ Release(p) \/ JoinLocked(p)
           \/ \E u \in Threads : Unblock(p, u) \/ Join(p, u) \/ Detach(p, u)
    PROVE  UInv'
<1>t. Types /\ Places /\ KindState
  BY DEF UInv
<1>k. cur[p] \in TCB /\ from[p] \in TCB \cup {None}
  BY <1>t DEF Types
<1>1. CASE PostDying(p) \/ PostRunable(p)
  <2>1. /\ UNCHANGED <<state, cur, to, from, stop, running, ready>>
        /\ pc[p] \in {"post", "recheck"} /\ from[p] # None
        /\ \E l \in {"recheck", "reap", "requeue", "resume"} :
              /\ pc' = [pc EXCEPT ![p] = l]
              /\ l \in {"reap", "requeue"} => state[from[p]] \in {"DYING", "RUNABLE"}
    BY <1>1, <1>t DEF PostDying, PostRunable, Goto, Places, PostPC, tcbVars, queueVars, history
  <2>2. state[from[p]] \in {"DYING", "RUNABLE"} => ~Blocker(from[p])
    BY <1>t, <1>k, <2>1 DEF KindState
  <2>3. Types' /\ Queued' = Queued
    BY <1>t, <2>1 DEF Types, Queued
  <2>4. PICK l \in {"recheck", "reap", "requeue", "resume"} :
           pc' = [pc EXCEPT ![p] = l] /\ (l \in {"reap", "requeue"} => state[from[p]] \in {"DYING", "RUNABLE"})
    BY <2>1
  <2>5. pc'[p] = l /\ \A q \in Procs : q # p => pc'[q] = pc[q]
    BY <1>t, <2>4 DEF Types
  <2>6. /\ pc[p] \in PostPC /\ pc'[p] \in PostPC \cup {"resume"}
        /\ pc'[p] \notin {"save", "spin", "join"} \cup StopPC /\ to[p] = None
    BY <1>t, <2>1, <2>5 DEF Places, PostPC, StopPC
  <2>7. pc'[p] \in {"reap", "requeue"} => ~Blocker(from[p])
    BY <2>2, <2>4, <2>5
  <2> QED  BY <2>1, <2>3, <2>5, <2>6, <2>7, CalmStep
<1>2. CASE Requeue(p)
  <2>1. /\ UNCHANGED <<state, cur, to, from, stop, running>> /\ from[p] \in TCB
        /\ pc[p] = "requeue" /\ pc' = [pc EXCEPT ![p] = "resume"]
    BY <1>2, <1>t, <1>k DEF Requeue, Goto, Places, PostPC, tcbVars, history
  <2>2. ready' \in Seq(TCB) /\ Queued \subseteq Queued'
    BY <1>2, <1>t, <2>1, EnqueueKeeps DEF Requeue, Types
  <2>3. Types'
    BY <1>t, <2>1, <2>2 DEF Types
  <2>4. pc'[p] = "resume" /\ \A q \in Procs : q # p => pc'[q] = pc[q]
    BY <1>t, <2>1 DEF Types
  <2>5. pc'[p] \notin {"save", "spin", "join"} \cup PostPC \cup StopPC /\ to[p] = None
    BY <1>t, <2>1, <2>4 DEF Places, PostPC, StopPC
  <2> QED  BY <2>1, <2>2, <2>3, <2>4, <2>5, CalmStep DEF PostPC
<1>3. CASE \E u \in Threads : Unblock(p, u)
  <2>1. PICK u \in Threads : Unblock(p, u)
    BY <1>3
  <2>2. UNCHANGED <<state, pc, cur, to, from, stop, running>> /\ u \in TCB
    BY <2>1 DEF Unblock, tcbVars, procVars, history, TCB
  <2>3. ready' \in Seq(TCB) /\ Queued \subseteq Queued'
    BY <1>t, <2>1, <2>2, EnqueueKeeps DEF Unblock, Types
  <2>4. Types'
    BY <1>t, <2>2, <2>3 DEF Types
  <2> QED  BY <1>t, <2>2, <2>3, <2>4, CalmStep DEF Types, Places
<1>4. CASE Idle(p) \/ Yield(p) \/ Block(p)
  <2>1. /\ UNCHANGED <<state, cur, to, from, running, ready>>
        /\ pc[p] = "user" /\ pc' = [pc EXCEPT ![p] = "dequeue"]
        /\ \E x \in {"RUNABLE", "BLOCKED"} :
              stop' = [stop EXCEPT ![p] = x] /\ (x = "BLOCKED" <=> Blocker(cur[p]))
    BY <1>4, CallerBlocks, BaseBlocks
       DEF Idle, Yield, Block, Calling, Stop, Goto, tcbVars, queueVars, history
  <2>2. Types' /\ Queued' = Queued
    BY <1>t, <2>1 DEF Types, Queued
  <2> QED  BY <1>t, <2>1, <2>2, CalmStep DEF Types, Places, PostPC, StopPC
<1>5. CASE \E u \in Threads : Join(p, u) \/ Detach(p, u)
  <2>1. /\ UNCHANGED <<state, cur, to, from, stop, running, ready>>
        /\ pc[p] = "user"
        /\ \E l \in {"user", "join", "release"} :
              pc' = [pc EXCEPT ![p] = l] /\ (l = "join" => Blocker(cur[p]))
    BY <1>5, <1>t, CallerBlocks
       DEF Join, Detach, UseHandle, Calling, Goto, tcbVars, queueVars, history, Types
  <2>2. Types' /\ Queued' = Queued
    BY <1>t, <2>1 DEF Types, Queued
  <2> QED  BY <1>t, <2>1, <2>2, CalmStep DEF Types, Places, PostPC, StopPC
<1>6. CASE Release(p) \/ JoinLocked(p)
  <2>1. /\ UNCHANGED <<state, cur, to, from, running, ready>>
        /\ pc[p] \in {"join", "release"}
        /\ \/ pc' = [pc EXCEPT ![p] = "user"] /\ stop' = stop
           \/ /\ pc' = [pc EXCEPT ![p] = "dequeue"] /\ stop' = [stop EXCEPT ![p] = "BLOCKED"]
              /\ Blocker(cur[p])
    BY <1>6, <1>t DEF Release, JoinLocked, ReleaseTarget, Stop, Goto, queueVars, history, Places
  <2>2. Types' /\ Queued' = Queued
    BY <1>t, <2>1 DEF Types, Queued
  <2> QED  BY <1>t, <2>1, <2>2, CalmStep DEF Types, Places, PostPC, StopPC
<1> QED  BY <1>1, <1>2, <1>3, <1>4, <1>5, <1>6

\* The spin ends: a uthread that only blocks is BLOCKED now.
LEMMA SwitchU ==
    ASSUME UInv, NEW p \in Procs, Switch(p), UNCHANGED history
    PROVE  UInv'
<1>t. Types /\ Places /\ KindState /\ Remember
  BY DEF UInv
<1>1. /\ pc[p] = "spin" /\ state[to[p]] # "RUNNING" /\ to[p] \in TCB
      /\ UNCHANGED <<state, stop, running, ready>>
      /\ cur' = [cur EXCEPT ![p] = to[p]] /\ from' = [from EXCEPT ![p] = cur[p]]
      /\ to' = [to EXCEPT ![p] = None] /\ pc' = [pc EXCEPT ![p] = "post"]
  BY <1>t DEF Switch, Goto, Types, Places, tcbVars, queueVars, history
<1>2. Types'
  BY <1>t, <1>1 DEF Types
<1>3. Places'
  BY <1>t, <1>1, NullAssumption DEF Types, Places, PostPC, StopPC
<1>4. KindState'
  BY <1>t, <1>1 DEF KindState
<1>5. ASSUME NEW t \in running, Blocker(t)  PROVE state'[t] \in {"RUNNING", "BLOCKED"} /\ Pending(t)'
  <2>1. t \in TCB /\ t # None /\ state[t] \in {"RUNNING", "BLOCKED"} /\ Pending(t)
    BY <1>t, <1>5, NullAssumption DEF Types, TCB, Remember
  <2>2. CASE to[p] = t
    <3>1. state'[t] = "BLOCKED" /\ cur'[p] = t /\ pc'[p] = "post"
      BY <1>t, <1>1, <2>1, <2>2 DEF Types
    <3> QED  BY <3>1 DEF Pending, PostPC
  <2>3. CASE to[p] # t
    <3>1. \A q \in Procs : to[q] = t => to'[q] = t
      BY <1>t, <1>1, <2>3 DEF Types
    <3>2. \A q \in Procs : pc[q] \in PostPC \cup {"resume"} => q # p /\ pc'[q] = pc[q] /\ cur'[q] = cur[q]
      BY <1>t, <1>1 DEF Types, PostPC
    <3>3. Queued' = Queued /\ state' = state
      BY <1>1 DEF Queued
    <3>4. Pending(t)'
      BY <2>1, <3>1, <3>2, <3>3 DEF Pending
    <3> QED  BY <2>1, <3>3, <3>4
  <2> QED  BY <2>2, <2>3
<1> QED  BY <1>1, <1>2, <1>3, <1>4, <1>5 DEF UInv, Remember

\* A step that writes the state of u, moves p, and enqueues at most.
LEMMA WriteU ==
    ASSUME UInv, NEW p \in Procs, NEW u \in TCB, UNCHANGED <<cur, to, from>>,
           Types', \A q \in Procs : q # p => pc'[q] = pc[q] /\ stop'[q] = stop[q],
           \A v \in TCB : v # u => state'[v] = state[v],
           running' \subseteq running, Queued \subseteq Queued',
           IF Blocker(u) THEN state'[u] \in {"NASCENT", "RUNNING", "BLOCKED"}
                         ELSE state'[u] # "BLOCKED",
           u \in running' /\ Blocker(u) =>
               state'[u] = "BLOCKED" \/ (state'[u] = "RUNNING" /\ state[u] # "BLOCKED"),
           pc[p] \in PostPC => pc'[p] \in PostPC \cup {"resume"},
           pc[p] = "resume" => state[cur[p]] # "BLOCKED" \/ cur[p] \notin running',
           /\ pc'[p] \in {"save", "spin"} <=> to[p] # None
           /\ pc'[p] \in PostPC => from[p] # None
           /\ pc'[p] \in {"reap", "requeue"} => ~Blocker(from[p])
           /\ pc'[p] = "join" => Blocker(cur[p])
           /\ pc'[p] \in StopPC => (stop'[p] = "BLOCKED" <=> Blocker(cur[p]))
    PROVE  UInv'
<1>t. Types /\ Places /\ KindState /\ Remember
  BY DEF UInv
<1>1. Places'
  BY <1>t DEF Places
<1>2. KindState'
  BY <1>t DEF KindState
<1>3. ASSUME NEW t \in running', Blocker(t)  PROVE state'[t] \in {"RUNNING", "BLOCKED"} /\ Pending(t)'
  <2>1. t \in TCB /\ t \in running /\ state[t] \in {"RUNNING", "BLOCKED"} /\ Pending(t)
    BY <1>t, <1>3 DEF Types, TCB, Remember
  <2>2. state'[t] \in {"RUNNING", "BLOCKED"} /\ (state[t] = "BLOCKED" => state'[t] = "BLOCKED")
    BY <1>3, <2>1
  <2>3. ASSUME NEW q \in Procs, state[t] = "BLOCKED", cur[q] = t, pc[q] \in PostPC \cup {"resume"}
        PROVE  pc'[q] \in PostPC \cup {"resume"}
    BY <1>3, <2>1, <2>3
  <2> QED  BY <2>1, <2>2, <2>3 DEF Pending
<1> QED  BY <1>1, <1>2, <1>3 DEF UInv, Remember

LEMMA SaveU ==
    ASSUME UInv, NEW p \in Procs, Save(p), UNCHANGED history
    PROVE  UInv'
<1>t. Types /\ Places /\ KindState /\ Remember
  BY DEF UInv
<1>1. /\ pc[p] = "save" /\ pc' = [pc EXCEPT ![p] = "spin"] /\ cur[p] \in TCB
      /\ state' = [state EXCEPT ![cur[p]] = stop[p]]
      /\ UNCHANGED <<cur, to, from, stop, running, ready>>
  BY <1>t DEF Save, Goto, Types, queueVars, history
<1>2. stop[p] \in States /\ (stop[p] = "BLOCKED" <=> Blocker(cur[p]))
  BY <1>t, <1>1 DEF Types, Places, StopPC, States
<1>3. Types' /\ Queued' = Queued
  BY <1>t, <1>1, <1>2 DEF Types, Queued
<1>4. pc'[p] = "spin" /\ state'[cur[p]] = stop[p]
      /\ (\A q \in Procs : q # p => pc'[q] = pc[q])
      /\ \A v \in TCB : v # cur[p] => state'[v] = state[v]
  BY <1>t, <1>1 DEF Types
<1>5. ~Blocker(cur[p]) => stop[p] # "BLOCKED"
  BY <1>2
<1> QED  BY <1>t, <1>1, <1>2, <1>3, <1>4, <1>5, WriteU DEF Places, PostPC, StopPC

\* Only a uthread that was BLOCKED gets what it is owed, and is running again.
LEMMA ResumeU ==
    ASSUME UInv, NEW p \in Procs, ResumePays(p)
    PROVE  UInv'
<1>t. Types /\ Places /\ KindState /\ Remember
  BY DEF UInv
<1>1. /\ pc[p] = "resume" /\ cur[p] \in TCB
      /\ state' = [state EXCEPT ![cur[p]] = "RUNNING"]
      /\ \E l \in {"user", "release"} : pc' = [pc EXCEPT ![p] = l]
      /\ running' \subseteq running /\ (state[cur[p]] = "BLOCKED" => cur[p] \notin running')
      /\ from' = [from EXCEPT ![p] = None]
      /\ UNCHANGED <<cur, to, stop, ready>>
  BY <1>t DEF ResumePays, Resume, Goto, Types, queueVars, history
<1>2. Types' /\ Queued' = Queued
  BY <1>t, <1>1 DEF Types, Queued, States
<1>3. /\ pc'[p] \in {"user", "release"} /\ state'[cur[p]] = "RUNNING"
      /\ \A q \in Procs : q # p => pc'[q] = pc[q] /\ from'[q] = from[q]
      /\ \A v \in TCB : v # cur[p] => state'[v] = state[v]
  BY <1>t, <1>1 DEF Types
<1>4. Places'
  BY <1>t, <1>1, <1>3 DEF Places, PostPC, StopPC
<1>5. KindState'
  BY <1>t, <1>1, <1>3 DEF KindState
<1>6. ASSUME NEW t \in running', Blocker(t)  PROVE state'[t] \in {"RUNNING", "BLOCKED"} /\ Pending(t)'
  <2>1. t \in TCB /\ t \in running /\ state[t] \in {"RUNNING", "BLOCKED"} /\ Pending(t)
    BY <1>t, <1>1, <1>6 DEF Types, TCB, Remember
  <2>2. state'[t] \in {"RUNNING", "BLOCKED"} /\ (state[t] = "BLOCKED" => state'[t] = "BLOCKED")
    BY <1>1, <1>3, <1>6, <2>1
  <2>3. ASSUME NEW q \in Procs, state[t] = "BLOCKED", cur[q] = t, pc[q] \in PostPC \cup {"resume"}
        PROVE  pc'[q] = pc[q]
    BY <1>1, <1>3, <1>6, <2>3
  <2> QED  BY <1>1, <1>2, <2>1, <2>2, <2>3 DEF Pending
<1> QED  BY <1>2, <1>4, <1>5, <1>6 DEF UInv, Remember

LEMMA ReapU ==
    ASSUME UInv, NEW p \in Procs, Reap(p), UNCHANGED history
    PROVE  UInv'
<1>t. Types /\ Places /\ KindState /\ Remember
  BY DEF UInv
<1>1. /\ pc[p] = "reap" /\ pc' = [pc EXCEPT ![p] = "resume"] /\ from[p] \in TCB /\ ~Blocker(from[p])
      /\ UNCHANGED <<cur, to, from, stop, running, ready>>
      /\ state' = state \/ state' = [state EXCEPT ![from[p]] = "DEAD"]
  BY <1>t DEF Reap, Goto, Types, Places, PostPC, queueVars, history
<1>2. Types' /\ Queued' = Queued
  BY <1>t, <1>1 DEF Types, Queued, States
<1>3. pc'[p] = "resume" /\ (\A q \in Procs : q # p => pc'[q] = pc[q])
      /\ \A v \in TCB : v # from[p] => state'[v] = state[v]
  BY <1>t, <1>1 DEF Types
<1>4. state'[from[p]] \in States /\ state'[from[p]] # "BLOCKED"
  BY <1>t, <1>1 DEF Types, KindState, States
<1> QED  BY <1>t, <1>1, <1>2, <1>3, <1>4, WriteU DEF Places, PostPC, StopPC

LEMMA ExitU ==
    ASSUME SafeCalls, UInv, NEW p \in Procs, Exit(p), UNCHANGED history
    PROVE  UInv'
<1>t. Types /\ Places /\ KindState /\ Remember
  BY DEF UInv
<1>1. /\ pc[p] = "user" /\ pc' = [pc EXCEPT ![p] = "dequeue"] /\ cur[p] \in TCB /\ ~Blocker(cur[p])
      /\ UNCHANGED <<cur, to, from, running>> /\ stop' = [stop EXCEPT ![p] = "DYING"]
      /\ state' = [state EXCEPT ![cur[p]] = "DYING"]
  BY <1>t, CallerBlocks DEF Exit, Calling, Stop, Goto, Types, history
<1>2. ready' \in Seq(TCB) /\ Queued \subseteq Queued'
  <2>1. CASE joiner[cur[p]] \in TCB
    BY <1>t, <2>1, EnqueueKeeps DEF Exit, Types
  <2>2. CASE joiner[cur[p]] \notin TCB
    <3>1. ready' = ready
      BY <2>2 DEF Exit, queueVars
    <3> QED  BY <1>t, <3>1 DEF Types, Queued
  <2> QED  BY <2>1, <2>2
<1>3. Types'
  BY <1>t, <1>1, <1>2 DEF Types, States
<1>4. pc'[p] = "dequeue" /\ state'[cur[p]] = "DYING" /\ stop'[p] = "DYING"
      /\ (\A q \in Procs : q # p => pc'[q] = pc[q] /\ stop'[q] = stop[q])
      /\ \A v \in TCB : v # cur[p] => state'[v] = state[v]
  BY <1>t, <1>1 DEF Types
<1>5. "DYING" \in States
  BY DEF States
<1> QED  BY <1>t, <1>1, <1>2, <1>3, <1>4, <1>5, WriteU DEF Places, PostPC, StopPC

LEMMA CreateU ==
    ASSUME UInv, NEW p \in Procs, NEW u \in Threads, Create(p, u), UNCHANGED history
    PROVE  UInv'
<1>t. Types /\ Places /\ KindState /\ Remember
  BY DEF UInv
<1>1. /\ pc[p] = "user" /\ UNCHANGED <<pc, cur, to, from, stop, running>>
      /\ u \in TCB /\ state[u] = "NONE" /\ state' = [state EXCEPT ![u] = "NASCENT"]
  BY DEF Create, Calling, procVars, history, TCB
<1>2. ready' \in Seq(TCB) /\ Queued \subseteq Queued'
  BY <1>t, <1>1, EnqueueKeeps DEF Create, Types
<1>3. Types'
  BY <1>t, <1>1, <1>2 DEF Types, States
<1>4. state'[u] = "NASCENT" /\ "NASCENT" \in States /\ \A v \in TCB : v # u => state'[v] = state[v]
  BY <1>t, <1>1 DEF Types, States
<1>5. u \in running => ~Blocker(u)
  BY <1>t, <1>1 DEF Remember
<1> QED  BY <1>t, <1>1, <1>2, <1>3, <1>4, <1>5, WriteU DEF Places, PostPC, StopPC

LEMMA UnblockAnyU ==
    ASSUME UInv, NEW p \in Procs, NEW u \in Threads, UnblockAny(p, u)
    PROVE  UInv'
<1>t. Types /\ Places /\ KindState /\ Remember
  BY DEF UInv
<1>1. /\ UNCHANGED <<state, pc, cur, to, from, stop>> /\ u \in TCB
      /\ running' = IF state[u] = "RUNNING" /\ u \notin Queued THEN running \cup {u} ELSE running
  BY DEF UnblockAny, tcbVars, procVars, TCB
<1>2. ready' \in Seq(TCB) /\ u \in Queued' /\ Queued \subseteq Queued'
  BY <1>t, <1>1, EnqueueKeeps DEF UnblockAny, Start, Types
<1>3. Types' /\ Places' /\ KindState'
  BY <1>t, <1>1, <1>2 DEF Types, Places, KindState
<1>4. Remember'
  BY <1>t, <1>1, <1>2 DEF Remember, Pending
<1> QED  BY <1>3, <1>4 DEF UInv

LEMMA StepU == ASSUME SafeCalls, UInv, [NextU]_<<vars, history>>  PROVE UInv'
<1>1. CASE UNCHANGED <<vars, history>>
  BY <1>1 DEF vars, tcbVars, queueVars, procVars, history, UInv, Types, Places, KindState, Remember,
              Pending, Queued
<1>2. ASSUME NEW p \in Procs, SpuriousWakeUp(p), UNCHANGED history  PROVE UInv'
  BY <1>2 DEF SpuriousWakeUp, WakeUp, tcbVars, procVars, history, UInv, Types, Places, KindState, Remember,
              Pending, Queued
<1>3. ASSUME NEW p \in Procs, OtherStep(p)  PROVE UInv'
  <2>1. CASE Dequeue(p) \/ Switch(p) \/ Save(p) \/ Reap(p) \/ Exit(p) \/ SpuriousWakeUp(p)
    BY <1>2, <1>3, <2>1, DequeueU, SwitchU, SaveU, ReapU, ExitU DEF OtherStep
  <2>2. CASE \/ PostDying(p) \/ PostRunable(p) \/ Requeue(p) \/ Idle(p) \/ Yield(p) \/ Block(p)
             \/ Release(p) \/ JoinLocked(p)
    BY <1>3, <2>2, QuietU DEF OtherStep
  <2>3. ASSUME NEW t \in Threads, Create(p, t) \/ Unblock(p, t) \/ Join(p, t) \/ Detach(p, t)
        PROVE  UInv'
    BY <1>3, <2>3, QuietU, CreateU DEF OtherStep
  <2> QED  BY <1>3, <2>1, <2>2, <2>3 DEF OtherStep
<1> QED  BY <1>1, <1>3, ResumeU, UnblockAnyU DEF NextU

LEMMA InitUInv == InitU => UInv
<1> SUFFICES ASSUME InitU  PROVE UInv
  OBVIOUS
<1>1. Types
  BY ProcsAssumption DEF InitU, Init, QInit, Types, TCB, Bases, States
<1>2. Places
  BY DEF InitU, Init, Places, PostPC, StopPC
<1>3. KindState
  BY DEF InitU, Init, KindState, Blocker
<1>4. Remember
  BY DEF InitU, Remember
<1> QED  BY <1>1, <1>2, <1>3, <1>4 DEF UInv

\* For any processors and uthreads, and clients that unblock whom they like: a
\* uthread unblocked while it was running, and BLOCKED since, is on its way back.
THEOREM UnblockIsKept == SafeCalls => (SpecU => []RunningUnblockRemembered)
<1>1. ASSUME UInv  PROVE RunningUnblockRemembered
  <2> SUFFICES ASSUME NEW t \in running, state[t] = "BLOCKED"
               PROVE  t \in Queued \/ Running(t) \/ \E p \in Procs : to[p] = t
    BY DEF RunningUnblockRemembered, Remembered
  <2>1. t \in TCB /\ Blocker(t)
    BY <1>1 DEF UInv, Types, TCB, KindState
  <2>2. Pending(t)
    BY <1>1, <2>1 DEF UInv, Remember
  <2> QED  BY <2>2 DEF Pending, PostPC, Running
<1>2. SafeCalls => (UInv /\ [NextU]_<<vars, history>> => UInv')
  BY StepU
<1>3. UInv => RunningUnblockRemembered
  BY <1>1
<1>4. ASSUME SafeCalls  PROVE SpecU => []RunningUnblockRemembered
  <2>1. UInv /\ [NextU]_<<vars, history>> => UInv'
    BY <1>2, <1>4
  <2> QED  BY <1>3, <2>1, InitUInv, PTL DEF SpecU
<1> QED  BY <1>4
=============================================================================
