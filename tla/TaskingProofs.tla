---------------------------- MODULE TaskingProofs ----------------------------
(***************************************************************************)
(* Proofs about the tasks and the example runtime, for every set of workers *)
(* and every size of the example programs.  The invariant is a predicate of *)
(* the tasks, the workers, the queue and the two sets of labels, so that    *)
(* each lemma is about values and not about a step.                         *)
(***************************************************************************)
EXTENDS Tasking, TLAPS

USE TaskingAssumption
\* A leaf that names no prover goes to the SMT solver, for a minute at most.
USE SMTT(60)

-----------------------------------------------------------------------------
(* The inductive invariant                                                  *)

States == {"uninitialized", "initialized", "running", "suspended", "finished"}
Stages == {"begin", "count1", "push1", "count2", "push2", "depend", "yield", "sum"}

TaskRecs ==
  [arg : Nat, into : Int \X {1, 2}, deps : SUBSET Nat, state : States, entered : BOOLEAN, ended : BOOLEAN,
   stage : Stages, children : Seq(Nat), results : [1 .. 2 -> Nat]]

WorkerRecs ==
  [pc : {"pull", "pop", "check", "requeue", "run", "resume", "function", "after", "callback", "insert", "delete",
         "leave", "terminate", "exited"},
   task : Int, seen : {"none", "suspended", "finished"}]

\* The worker whose record this is still uses its task.
HoldsTask(k) == k.pc \notin {"pull", "pop", "leave", "terminate", "exited"}

\* A task that waits to be run: it is new, or it has suspended itself.
New(r) == ~r.entered /\ ~r.ended /\ r.state = "uninitialized" /\ r.stage = "begin"
Awake(r) == ~r.entered /\ ~r.ended /\ r.state = "suspended" /\ r.stage = "sum"
Ready(r) == New(r) \/ Awake(r)

\* The state of a task that a worker holds: what is left for Task::run to throw at.
Fits(k, r, dn, fr) ==
  /\ k.pc \in {"check", "requeue"} => Ready(r)
  /\ k.pc = "run" => Ready(r) /\ r.deps \subseteq dn
  /\ k.pc = "resume" => /\ ~r.entered /\ ~r.ended /\ r.deps \subseteq dn
                        /\ r.state \in {"initialized", "suspended"} /\ r.stage \in {"begin", "sum"}
  /\ k.pc = "function" => /\ r.entered /\ ~r.ended
                          /\ \/ r.stage = "yield" /\ r.state = "suspended"
                             \/ r.stage # "yield" /\ r.state = "running" /\ r.deps \subseteq dn
  /\ k.pc = "after" => r.ended \/ Awake(r)
  /\ k.pc = "callback" => \/ k.seen = "suspended" /\ Awake(r)
                          \/ k.seen = "finished" /\ r.ended /\ r.state = "finished"
  /\ k.pc \in {"insert", "delete"} => r.ended /\ r.state = "finished"
  /\ k.pc \in {"after", "callback", "insert"} => k.task \notin dn
  /\ k.pc = "delete" => k.task \in dn /\ k.task \notin fr

\* Child k of a task at stage s is still to be put into the queue.
Waits(s, k) == s \in {"count1", "push1"} \/ (s \in {"count2", "push2"} /\ k = 2)
Pending(tk, t) ==
  tk[t].into[1] \in DOMAIN tk /\ Waits(tk[tk[t].into[1]].stage, tk[t].into[2])

\* The task that t's result goes to knows t, and depends on it once it yields.
HasParent(tk, t) ==
  LET p == tk[t].into[1] IN
  p # NoTask => /\ p \in DOMAIN tk /\ tk[p].stage # "begin"
                /\ tk[p].children[tk[t].into[2]] = t /\ t \in Range(tk[p].children)
                /\ tk[p].stage \in {"yield", "sum"} => t \in tk[p].deps

HasChildren(tk, t) ==
  tk[t].stage \in {"count1", "push1", "count2", "push2", "depend"} =>
    \A k \in {1, 2} : /\ tk[t].children[k] \in DOMAIN tk
                      /\ tk[tk[t].children[k]].into[1] = t /\ tk[tk[t].children[k]].into[2] = k

InTheMiddle(r) == r.stage \notin {"begin", "sum"}

TaskFits(r, t, dn) ==
  /\ r.ended => r.deps \subseteq dn /\ ~InTheMiddle(r)
  /\ t \in dn => r.ended /\ r.state = "finished"

\* The labels drawn so far: 0, 1, ...
LabelSets == {0 .. n - 1 : n \in Nat}

Typed(tk, wk, q, dn, fr) ==
  /\ tk \in [DOMAIN tk -> TaskRecs] /\ wk \in [Workers -> WorkerRecs] /\ q \in Seq(DOMAIN tk)
  /\ dn \subseteq DOMAIN tk /\ fr \subseteq dn
  /\ DOMAIN tk \in LabelSets

Owners(tk, wk, q, dn, fr) ==
  \A w \in Workers : HoldsTask(wk[w]) =>
    /\ wk[w].task \in DOMAIN tk /\ wk[w].task \notin Range(q) /\ ~Pending(tk, wk[w].task)
    /\ Fits(wk[w], tk[wk[w].task], dn, fr)

Apart(wk) == \A v, w \in Workers : v # w /\ HoldsTask(wk[v]) /\ HoldsTask(wk[w]) => wk[v].task # wk[w].task

NoDuplicates(q) == \A i, j \in DOMAIN q : i # j => q[i] # q[j]

Queued(tk, q) == \A t \in Range(q) : Ready(tk[t]) /\ ~Pending(tk, t)

\* A task in the middle of its function has a worker that runs it.
Runner(wk, t) == \E w \in Workers : wk[w].pc = "function" /\ wk[w].task = t

Tasks(tk, wk, dn) ==
  \A t \in DOMAIN tk :
    /\ TaskFits(tk[t], t, dn)
    /\ Pending(tk, t) => New(tk[t])
    /\ HasParent(tk, t) /\ HasChildren(tk, t)
    /\ InTheMiddle(tk[t]) => Runner(wk, t)

Sound(tk, wk, q, dn, fr) ==
  /\ Typed(tk, wk, q, dn, fr) /\ Owners(tk, wk, q, dn, fr) /\ Apart(wk)
  /\ NoDuplicates(q) /\ Queued(tk, q) /\ Tasks(tk, wk, dn)


-----------------------------------------------------------------------------
(* What the kinds of step do to the invariant                               *)

\* The new record s of a task keeps its relatives: what changes of it is its
\* own execution state and where its function is.
SameFamily(r, s) ==
  /\ s.into = r.into /\ s.children = r.children
  /\ \A j \in {1, 2} : Waits(s.stage, j) <=> Waits(r.stage, j)
  /\ r.stage # "begin" => s.stage # "begin"
  /\ s.stage \in {"count1", "push1", "count2", "push2", "depend"} =>
       r.stage \in {"count1", "push1", "count2", "push2", "depend"}
  /\ s.stage \in {"yield", "sum"} => \/ r.stage \in {"yield", "sum"} /\ r.deps \subseteq s.deps
                                     \/ Range(r.children) \subseteq s.deps

\* A worker that holds a task and goes on holding it changes its record and the
\* task's.
LEMMA OwnChange ==
  ASSUME NEW tk, NEW wk, NEW q, NEW dn, NEW fr, Sound(tk, wk, q, dn, fr),
         NEW w \in Workers, NEW t, HoldsTask(wk[w]), wk[w].task = t,
         NEW r \in TaskRecs, NEW k \in WorkerRecs, k.task = t, HoldsTask(k),
         Fits(k, r, dn, fr), SameFamily(tk[t], r), TaskFits(r, t, dn), InTheMiddle(r) => k.pc = "function"
  PROVE  Sound([tk EXCEPT ![t] = r], [wk EXCEPT ![w] = k], q, dn, fr)
<1> DEFINE tk2 == [tk EXCEPT ![t] = r]
           wk2 == [wk EXCEPT ![w] = k]
<1>0. Typed(tk, wk, q, dn, fr) /\ Owners(tk, wk, q, dn, fr) /\ Apart(wk) /\ NoDuplicates(q) /\ Queued(tk, q) /\ Tasks(tk, wk, dn)
  BY Zenon DEF Sound
<1>1. t \in DOMAIN tk /\ t \notin Range(q) /\ ~Pending(tk, t)
  BY <1>0, Zenon DEF Owners
<1>2. /\ DOMAIN tk2 = DOMAIN tk /\ tk2 \in [DOMAIN tk -> TaskRecs]
      /\ tk2[t] = r /\ \A u \in DOMAIN tk : u # t => tk2[u] = tk[u]
  BY <1>0, <1>1, Zenon DEF Typed
<1>3. wk2 \in [Workers -> WorkerRecs] /\ wk2[w] = k /\ \A v \in Workers : v # w => wk2[v] = wk[v]
  BY <1>0, Zenon DEF Typed
<1> HIDE DEF tk2, wk2
<1>4. \A u \in DOMAIN tk : /\ tk2[u].into = tk[u].into /\ tk2[u].children = tk[u].children
                           /\ SameFamily(tk[u], tk2[u])
  <2>1. \A u \in DOMAIN tk : SameFamily(tk[u], tk2[u])
    <3>1. \A s : SameFamily(s, s)
      BY Zenon DEF SameFamily
    <3> QED BY <1>2, <3>1, Zenon
  <2> QED BY <2>1, Zenon DEF SameFamily
<1>5. \A u \in DOMAIN tk : Pending(tk2, u) <=> Pending(tk, u)
  <2> SUFFICES ASSUME NEW u \in DOMAIN tk PROVE Pending(tk2, u) <=> Pending(tk, u)
    BY Zenon
  <2>1. tk[u].into[2] \in {1, 2}
    BY <1>0, Zenon DEF Typed, TaskRecs
  <2>2. \A p \in DOMAIN tk : \A j \in {1, 2} : Waits(tk2[p].stage, j) <=> Waits(tk[p].stage, j)
    BY <1>4, Zenon DEF SameFamily
  <2> QED BY <1>2, <1>4, <2>1, <2>2, Zenon DEF Pending
<1>6. Typed(tk2, wk2, q, dn, fr)
  BY <1>0, <1>2, <1>3, Zenon DEF Typed
<1>7. Apart(wk2)
  <2> SUFFICES ASSUME NEW u \in Workers, NEW v \in Workers, u # v, HoldsTask(wk2[u]), HoldsTask(wk2[v])
               PROVE  wk2[u].task # wk2[v].task
    BY Zenon DEF Apart
  <2> QED BY <1>0, <1>3 DEF Apart
<1>8. Owners(tk2, wk2, q, dn, fr)
  <2> SUFFICES ASSUME NEW v \in Workers, HoldsTask(wk2[v])
               PROVE  /\ wk2[v].task \in DOMAIN tk2 /\ wk2[v].task \notin Range(q) /\ ~Pending(tk2, wk2[v].task)
                      /\ Fits(wk2[v], tk2[wk2[v].task], dn, fr)
    BY Zenon DEF Owners
  <2>1. CASE v = w
    BY <1>1, <1>2, <1>3, <1>5, <2>1, Zenon
  <2>2. CASE v # w
    <3>1. wk2[v] = wk[v] /\ wk[v].task # t
      BY <1>0, <1>3, <2>2, Zenon DEF Apart
    <3>2. /\ wk[v].task \in DOMAIN tk /\ wk[v].task \notin Range(q) /\ ~Pending(tk, wk[v].task)
          /\ Fits(wk[v], tk[wk[v].task], dn, fr)
      BY <1>0, <3>1, Zenon DEF Owners
    <3> QED BY <1>2, <1>5, <3>1, <3>2, Zenon
  <2> QED BY <2>1, <2>2, Zenon
<1>9. Queued(tk2, q)
  <2> SUFFICES ASSUME NEW u \in Range(q) PROVE Ready(tk2[u]) /\ ~Pending(tk2, u)
    BY Zenon DEF Queued
  <2>1. u \in DOMAIN tk
    BY <1>0 DEF Typed, Range
  <2>2. u # t
    BY <1>1, Zenon
  <2> QED BY <1>0, <1>2, <1>5, <2>1, <2>2, Zenon DEF Queued
<1>10. Tasks(tk2, wk2, dn)
  <2> SUFFICES ASSUME NEW u \in DOMAIN tk
               PROVE  /\ TaskFits(tk2[u], u, dn)
                      /\ Pending(tk2, u) => New(tk2[u])
                      /\ HasParent(tk2, u) /\ HasChildren(tk2, u)
                      /\ InTheMiddle(tk2[u]) => Runner(wk2, u)
    BY <1>2, Zenon DEF Tasks
  <2>0. /\ TaskFits(tk[u], u, dn)
        /\ Pending(tk, u) => New(tk[u])
        /\ HasParent(tk, u) /\ HasChildren(tk, u)
        /\ InTheMiddle(tk[u]) => Runner(wk, u)
    BY <1>0, Zenon DEF Tasks
  <2>1. TaskFits(tk2[u], u, dn)
    BY <1>2, <2>0, Zenon
  <2>2. Pending(tk2, u) => New(tk2[u])
    BY <1>1, <1>2, <1>5, <2>0, Zenon
  <2>3. HasParent(tk2, u)
    <3> DEFINE p == tk[u].into[1]
    <3> SUFFICES ASSUME p # NoTask
                 PROVE  /\ p \in DOMAIN tk /\ tk2[p].stage # "begin"
                        /\ tk2[p].children[tk[u].into[2]] = u /\ u \in Range(tk2[p].children)
                        /\ tk2[p].stage \in {"yield", "sum"} => u \in tk2[p].deps
      BY <1>2, <1>4, Zenon DEF HasParent
    <3>1. /\ p \in DOMAIN tk /\ tk[p].stage # "begin"
          /\ tk[p].children[tk[u].into[2]] = u /\ u \in Range(tk[p].children)
          /\ tk[p].stage \in {"yield", "sum"} => u \in tk[p].deps
      BY <2>0, Zenon DEF HasParent
    <3>2. SameFamily(tk[p], tk2[p])
      BY <1>4, <3>1, Zenon
    <3> QED BY <3>1, <3>2, Zenon DEF SameFamily
  <2>4. HasChildren(tk2, u)
    <3> SUFFICES ASSUME tk2[u].stage \in {"count1", "push1", "count2", "push2", "depend"}, NEW j \in {1, 2}
                 PROVE  /\ tk2[u].children[j] \in DOMAIN tk
                        /\ tk2[tk2[u].children[j]].into[1] = u /\ tk2[tk2[u].children[j]].into[2] = j
      BY <1>2, Zenon DEF HasChildren
    <3>1. tk[u].stage \in {"count1", "push1", "count2", "push2", "depend"} /\ tk2[u].children = tk[u].children
      BY <1>4, Zenon DEF SameFamily
    <3>2. /\ tk[u].children[j] \in DOMAIN tk
          /\ tk[tk[u].children[j]].into[1] = u /\ tk[tk[u].children[j]].into[2] = j
      BY <2>0, <3>1, Zenon DEF HasChildren
    <3> QED BY <1>4, <3>1, <3>2, Zenon
  <2>5. InTheMiddle(tk2[u]) => Runner(wk2, u)
    <3>1. CASE u = t
      BY <1>2, <1>3, <3>1, Zenon DEF Runner
    <3>2. CASE u # t
      <4> SUFFICES ASSUME InTheMiddle(tk2[u]) PROVE Runner(wk2, u)
        BY Zenon
      <4>1. Runner(wk, u)
        BY <1>2, <2>0, <3>2, Zenon
      <4>2. PICK v \in Workers : wk[v].pc = "function" /\ wk[v].task = u
        BY <4>1, Zenon DEF Runner
      <4>3. v # w
        BY <3>2, <4>2, Zenon
      <4> QED BY <1>3, <4>2, <4>3, Zenon DEF Runner
    <3> QED BY <3>1, <3>2, Zenon
  <2> QED BY <2>1, <2>2, <2>3, <2>4, <2>5, Zenon
<1> QED BY <1>0, <1>6, <1>7, <1>8, <1>9, <1>10, Zenon DEF Sound, tk2, wk2

\* The queue gets one more task, or gives up its oldest one.
LEMMA QueueGrows ==
  ASSUME NEW S, NEW q \in Seq(S), NEW x \in S, NoDuplicates(q), x \notin Range(q)
  PROVE  /\ Append(q, x) \in Seq(S) /\ NoDuplicates(Append(q, x))
         /\ Range(Append(q, x)) = Range(q) \cup {x}
<1> DEFINE r == Append(q, x)
<1>1. /\ r \in Seq(S) /\ Len(r) = Len(q) + 1 /\ Len(q) \in Nat
      /\ r[Len(q) + 1] = x /\ \A i \in 1 .. Len(q) : r[i] = q[i]
  OBVIOUS
<1> HIDE DEF r
<1>2. DOMAIN r = 1 .. Len(q) + 1 /\ DOMAIN q = 1 .. Len(q)
  BY <1>1
<1>3. \A i \in DOMAIN r : i \in DOMAIN q \/ i = Len(q) + 1
  BY <1>1, <1>2
<1>4. \A i \in DOMAIN q : i \in DOMAIN r /\ r[i] = q[i] /\ i # Len(q) + 1 /\ q[i] \in Range(q)
  BY <1>1, <1>2 DEF Range
<1>5. Len(q) + 1 \in DOMAIN r
  BY <1>1, <1>2
<1>6. NoDuplicates(r)
  <2> SUFFICES ASSUME NEW i \in DOMAIN r, NEW j \in DOMAIN r, i # j PROVE r[i] # r[j]
    BY Zenon DEF NoDuplicates
  <2> QED BY <1>1, <1>3, <1>4, Zenon DEF NoDuplicates
<1>7. Range(r) = Range(q) \cup {x}
  <2>1. \A y \in Range(r) : y \in Range(q) \cup {x}
    <3> SUFFICES ASSUME NEW i \in DOMAIN r PROVE r[i] \in Range(q) \cup {x}
      BY Zenon DEF Range
    <3> QED BY <1>1, <1>3, <1>4, Zenon
  <2>2. \A y \in Range(q) : y \in Range(r)
    <3> SUFFICES ASSUME NEW i \in DOMAIN q PROVE q[i] \in Range(r)
      BY Zenon DEF Range
    <3>1. i \in DOMAIN r /\ r[i] = q[i]
      BY <1>4, Zenon
    <3>2. r[i] \in Range(r)
      BY <3>1, Zenon DEF Range
    <3> QED BY <3>1, <3>2, Zenon
  <2>3. x \in Range(r)
    BY <1>1, <1>5, Zenon DEF Range
  <2> QED BY <2>1, <2>2, <2>3, Zenon
<1> QED BY <1>1, <1>6, <1>7, Zenon DEF r

\* Popping the oldest label keeps the rest of the queue, without that label.
LEMMA QueueShrinks ==
  ASSUME NEW S, NEW q \in Seq(S), q # <<>>, NoDuplicates(q)
  PROVE  /\ Tail(q) \in Seq(S) /\ NoDuplicates(Tail(q)) /\ Head(q) \in Range(q)
         /\ Range(Tail(q)) \subseteq Range(q) /\ Head(q) \notin Range(Tail(q))
<1> DEFINE r == Tail(q)
<1>1. /\ r \in Seq(S) /\ Len(r) = Len(q) - 1 /\ Len(q) \in Nat \ {0} /\ Head(q) = q[1]
      /\ \A i \in 1 .. Len(r) : r[i] = q[i + 1]
  OBVIOUS
<1> HIDE DEF r
<1>2. DOMAIN r = 1 .. Len(q) - 1 /\ DOMAIN q = 1 .. Len(q)
  BY <1>1
<1>3. \A i \in DOMAIN r : i \in Int /\ i + 1 \in DOMAIN q /\ i + 1 # 1 /\ r[i] = q[i + 1]
  BY <1>1, <1>2
<1>4. 1 \in DOMAIN q
  BY <1>1, <1>2
<1>5. NoDuplicates(r)
  <2> SUFFICES ASSUME NEW i \in DOMAIN r, NEW j \in DOMAIN r, i # j PROVE r[i] # r[j]
    BY Zenon DEF NoDuplicates
  <2>1. i + 1 # j + 1
    BY <1>3
  <2>2. q[i + 1] # q[j + 1]
    BY <1>3, <2>1, Zenon DEF NoDuplicates
  <2> QED BY <1>3, <2>2, Zenon
<1>6. Range(r) \subseteq Range(q)
  <2> SUFFICES ASSUME NEW i \in DOMAIN r PROVE r[i] \in Range(q)
    BY Zenon DEF Range
  <2> QED BY <1>3, Zenon DEF Range
<1>7. Head(q) \in Range(q)
  BY <1>1, <1>4, Zenon DEF Range
<1>8. Head(q) \notin Range(r)
  <2> SUFFICES ASSUME NEW i \in DOMAIN r PROVE r[i] # Head(q)
    BY Zenon DEF Range
  <2> QED BY <1>1, <1>3, <1>4, Zenon DEF NoDuplicates
<1> QED BY <1>1, <1>5, <1>6, <1>7, <1>8, Zenon DEF r

\* The other workers keep their tasks, and this one may have k's.
Aside(wk, w, k, q2, fr, fr2) ==
  \A v \in Workers : v # w /\ HoldsTask(wk[v]) => /\ wk[v].task \notin Range(q2)
                                                  /\ wk[v].task \in fr2 => wk[v].task \in fr
                                                  /\ HoldsTask(k) => wk[v].task # k.task
Owns(tk, k, q2, dn, fr2) ==
  HoldsTask(k) => /\ k.task \in DOMAIN tk /\ k.task \notin Range(q2) /\ ~Pending(tk, k.task)
                  /\ Fits(k, tk[k.task], dn, fr2)

\* A worker that is not in a function takes a task, lets one go or moves on; the
\* queue and the set of deleted tasks change with it, and the tasks do not.
LEMMA WorkerMoves ==
  ASSUME NEW tk, NEW wk, NEW q, NEW dn, NEW fr, Sound(tk, wk, q, dn, fr),
         NEW w \in Workers, wk[w].pc # "function", NEW k \in WorkerRecs,
         NEW q2 \in Seq(DOMAIN tk), NoDuplicates(q2), Queued(tk, q2),
         NEW fr2, fr2 \subseteq dn,
         Aside(wk, w, k, q2, fr, fr2), Owns(tk, k, q2, dn, fr2)
  PROVE  Sound(tk, [wk EXCEPT ![w] = k], q2, dn, fr2)
<1> DEFINE wk2 == [wk EXCEPT ![w] = k]
<1>0. Typed(tk, wk, q, dn, fr) /\ Owners(tk, wk, q, dn, fr) /\ Apart(wk) /\ NoDuplicates(q) /\ Queued(tk, q) /\ Tasks(tk, wk, dn)
  BY Zenon DEF Sound
<1>3. wk2 \in [Workers -> WorkerRecs] /\ wk2[w] = k /\ \A v \in Workers : v # w => wk2[v] = wk[v]
  BY <1>0, Zenon DEF Typed
<1> HIDE DEF wk2
<1>6. Typed(tk, wk2, q2, dn, fr2)
  BY <1>0, <1>3, Zenon DEF Typed
<1>7. Apart(wk2)
  <2> SUFFICES ASSUME NEW u \in Workers, NEW v \in Workers, u # v, HoldsTask(wk2[u]), HoldsTask(wk2[v])
               PROVE  wk2[u].task # wk2[v].task
    BY Zenon DEF Apart
  <2> QED BY <1>0, <1>3, Zenon DEF Apart, Aside
<1>8. Owners(tk, wk2, q2, dn, fr2)
  <2> SUFFICES ASSUME NEW v \in Workers, HoldsTask(wk2[v])
               PROVE  /\ wk2[v].task \in DOMAIN tk /\ wk2[v].task \notin Range(q2) /\ ~Pending(tk, wk2[v].task)
                      /\ Fits(wk2[v], tk[wk2[v].task], dn, fr2)
    BY Zenon DEF Owners
  <2>1. CASE v = w
    BY <1>3, <2>1, Zenon DEF Owns
  <2>2. CASE v # w
    <3>1. wk2[v] = wk[v]
      BY <1>3, <2>2, Zenon
    <3>2. /\ wk[v].task \in DOMAIN tk /\ wk[v].task \notin Range(q) /\ ~Pending(tk, wk[v].task)
          /\ Fits(wk[v], tk[wk[v].task], dn, fr)
      BY <1>0, <3>1, Zenon DEF Owners
    <3>3. wk[v].task \notin Range(q2) /\ (wk[v].task \in fr2 => wk[v].task \in fr)
      BY <2>2, <3>1, Zenon DEF Aside
    <3>4. Fits(wk[v], tk[wk[v].task], dn, fr2)
      BY <3>2, <3>3, Zenon DEF Fits
    <3> QED BY <3>1, <3>2, <3>3, <3>4, Zenon
  <2> QED BY <2>1, <2>2, Zenon
<1>10. Tasks(tk, wk2, dn)
  <2>1. \A u : Runner(wk, u) => Runner(wk2, u)
    <3> SUFFICES ASSUME NEW u, Runner(wk, u) PROVE Runner(wk2, u)
      BY Zenon
    <3>1. PICK v \in Workers : wk[v].pc = "function" /\ wk[v].task = u
      BY Zenon DEF Runner
    <3>2. v # w
      BY <3>1, Zenon
    <3> QED BY <1>3, <3>1, <3>2, Zenon DEF Runner
  <2> QED BY <1>0, <2>1, Zenon DEF Tasks
<1> QED BY <1>6, <1>7, <1>8, <1>10, Zenon DEF Sound, wk2

\* onTaskFinish records the label of the task its worker holds.
LEMMA LabelRecorded ==
  ASSUME NEW tk, NEW wk, NEW q, NEW dn, NEW fr, Sound(tk, wk, q, dn, fr),
         NEW w \in Workers, NEW t, wk[w].pc = "insert", wk[w].task = t,
         NEW k \in WorkerRecs, k.pc = "delete", k.task = t
  PROVE  Sound(tk, [wk EXCEPT ![w] = k], q, dn \cup {t}, fr)
<1> DEFINE wk2 == [wk EXCEPT ![w] = k]
           dn2 == dn \cup {t}
<1>0. Typed(tk, wk, q, dn, fr) /\ Owners(tk, wk, q, dn, fr) /\ Apart(wk) /\ NoDuplicates(q) /\ Queued(tk, q) /\ Tasks(tk, wk, dn)
  BY Zenon DEF Sound
<1>1. HoldsTask(wk[w]) /\ HoldsTask(k)
  BY Zenon DEF HoldsTask
<1>2. /\ t \in DOMAIN tk /\ t \notin Range(q) /\ ~Pending(tk, t) /\ tk[t].ended /\ tk[t].state = "finished"
      /\ t \notin dn /\ t \notin fr
  <2>1. t \in DOMAIN tk /\ t \notin Range(q) /\ ~Pending(tk, t) /\ Fits(wk[w], tk[t], dn, fr)
    BY <1>0, <1>1, Zenon DEF Owners
  <2>2. tk[t].ended /\ tk[t].state = "finished" /\ t \notin dn
    BY <2>1, Zenon DEF Fits
  <2>3. fr \subseteq dn
    BY <1>0, Zenon DEF Typed
  <2> QED BY <2>1, <2>2, <2>3, Zenon
<1>3. wk2 \in [Workers -> WorkerRecs] /\ wk2[w] = k /\ \A v \in Workers : v # w => wk2[v] = wk[v]
  BY <1>0, Zenon DEF Typed
<1>4. dn \subseteq dn2 /\ t \in dn2 /\ \A u : u \in dn2 => u \in dn \/ u = t
  BY Zenon
<1> HIDE DEF wk2, dn2
<1>6. Typed(tk, wk2, q, dn2, fr)
  BY <1>0, <1>2, <1>3, <1>4, Zenon DEF Typed
<1>7. Apart(wk2)
  <2> SUFFICES ASSUME NEW u \in Workers, NEW v \in Workers, u # v, HoldsTask(wk2[u]), HoldsTask(wk2[v])
               PROVE  wk2[u].task # wk2[v].task
    BY Zenon DEF Apart
  <2> QED BY <1>0, <1>1, <1>3 DEF Apart
<1>8. Owners(tk, wk2, q, dn2, fr)
  <2> SUFFICES ASSUME NEW v \in Workers, HoldsTask(wk2[v])
               PROVE  /\ wk2[v].task \in DOMAIN tk /\ wk2[v].task \notin Range(q) /\ ~Pending(tk, wk2[v].task)
                      /\ Fits(wk2[v], tk[wk2[v].task], dn2, fr)
    BY Zenon DEF Owners
  <2>1. CASE v = w
    <3>1. Fits(k, tk[t], dn2, fr)
      BY <1>2, <1>4, Zenon DEF Fits
    <3> QED BY <1>2, <1>3, <2>1, <3>1, Zenon
  <2>2. CASE v # w
    <3>1. wk2[v] = wk[v] /\ wk[v].task # t
      BY <1>0, <1>1, <1>3, <2>2, Zenon DEF Apart
    <3>2. /\ wk[v].task \in DOMAIN tk /\ wk[v].task \notin Range(q) /\ ~Pending(tk, wk[v].task)
          /\ Fits(wk[v], tk[wk[v].task], dn, fr)
      BY <1>0, <3>1, Zenon DEF Owners
    <3>4. Fits(wk[v], tk[wk[v].task], dn2, fr)
      <4>1. wk[v].task \in dn2 <=> wk[v].task \in dn
        BY <1>4, <3>1, Zenon
      <4>2. tk[wk[v].task].deps \subseteq dn => tk[wk[v].task].deps \subseteq dn2
        BY <1>4, Zenon
      <4> QED BY <3>2, <4>1, <4>2, Zenon DEF Fits
    <3> QED BY <3>1, <3>2, <3>4, Zenon
  <2> QED BY <2>1, <2>2, Zenon
<1>10. Tasks(tk, wk2, dn2)
  <2> SUFFICES ASSUME NEW u \in DOMAIN tk
               PROVE  /\ TaskFits(tk[u], u, dn2)
                      /\ Pending(tk, u) => New(tk[u])
                      /\ HasParent(tk, u) /\ HasChildren(tk, u)
                      /\ InTheMiddle(tk[u]) => Runner(wk2, u)
    BY Zenon DEF Tasks
  <2>0. /\ TaskFits(tk[u], u, dn)
        /\ Pending(tk, u) => New(tk[u])
        /\ HasParent(tk, u) /\ HasChildren(tk, u)
        /\ InTheMiddle(tk[u]) => Runner(wk, u)
    BY <1>0, Zenon DEF Tasks
  <2>1. TaskFits(tk[u], u, dn2)
    BY <1>2, <1>4, <2>0, Zenon DEF TaskFits
  <2>2. Runner(wk, u) => Runner(wk2, u)
    <3> SUFFICES ASSUME Runner(wk, u) PROVE Runner(wk2, u)
      BY Zenon
    <3>1. PICK v \in Workers : wk[v].pc = "function" /\ wk[v].task = u
      BY Zenon DEF Runner
    <3>2. v # w
      BY <3>1, Zenon
    <3> QED BY <1>3, <3>1, <3>2, Zenon DEF Runner
  <2> QED BY <2>0, <2>1, <2>2, Zenon
<1> QED BY <1>0, <1>6, <1>7, <1>8, <1>10, Zenon DEF Sound, wk2, dn2

\* Nothing but the results of a task's children changes.
SameControl(r, s) ==
  /\ s.into = r.into /\ s.children = r.children /\ s.deps = r.deps /\ s.state = r.state
  /\ s.entered = r.entered /\ s.ended = r.ended /\ s.stage = r.stage

\* A child that writes its result to its parent disturbs nothing else.
LEMMA ResultWritten ==
  ASSUME NEW tk, NEW wk, NEW q, NEW dn, NEW fr, Sound(tk, wk, q, dn, fr),
         NEW p \in DOMAIN tk, NEW r \in TaskRecs, SameControl(tk[p], r)
  PROVE  Sound([tk EXCEPT ![p] = r], wk, q, dn, fr)
<1> DEFINE tk2 == [tk EXCEPT ![p] = r]
<1>0. Typed(tk, wk, q, dn, fr) /\ Owners(tk, wk, q, dn, fr) /\ Apart(wk) /\ NoDuplicates(q) /\ Queued(tk, q) /\ Tasks(tk, wk, dn)
  BY Zenon DEF Sound
<1>1. DOMAIN tk2 = DOMAIN tk /\ tk2 \in [DOMAIN tk -> TaskRecs]
  BY <1>0, Zenon DEF Typed
<1>2. \A u \in DOMAIN tk : SameControl(tk[u], tk2[u])
  <2>1. \A s : SameControl(s, s)
    BY Zenon DEF SameControl
  <2>2. tk2[p] = r /\ \A u \in DOMAIN tk : u # p => tk2[u] = tk[u]
    BY <1>0, Zenon DEF Typed
  <2> QED BY <2>1, <2>2, Zenon
<1> HIDE DEF tk2
<1>3. \A u \in DOMAIN tk : Pending(tk2, u) <=> Pending(tk, u)
  BY <1>1, <1>2 DEF Pending, SameControl
<1>4. \A u \in DOMAIN tk : /\ Ready(tk2[u]) <=> Ready(tk[u])
                           /\ New(tk2[u]) <=> New(tk[u])
                           /\ InTheMiddle(tk2[u]) <=> InTheMiddle(tk[u])
  BY <1>2, Zenon DEF SameControl, Ready, New, Awake, InTheMiddle
<1>6. Typed(tk2, wk, q, dn, fr)
  BY <1>0, <1>1, Zenon DEF Typed
<1>8. Owners(tk2, wk, q, dn, fr)
  <2>1. ASSUME NEW k, NEW r1, NEW r2, SameControl(r1, r2), Fits(k, r1, dn, fr)
        PROVE  Fits(k, r2, dn, fr)
    <3>1. (Ready(r1) <=> Ready(r2)) /\ (Awake(r1) <=> Awake(r2))
      BY <2>1, Zenon DEF SameControl, Ready, New, Awake
    <3> QED BY <2>1, <3>1, Zenon DEF SameControl, Fits
  <2> QED BY <1>0, <1>1, <1>2, <1>3, <2>1, Zenon DEF Owners
<1>9. Queued(tk2, q)
  <2>1. \A u \in Range(q) : u \in DOMAIN tk
    BY <1>0 DEF Typed, Range
  <2> QED BY <1>0, <1>3, <1>4, <2>1, Zenon DEF Queued
<1>10. Tasks(tk2, wk, dn)
  <2> SUFFICES ASSUME NEW u \in DOMAIN tk
               PROVE  /\ TaskFits(tk2[u], u, dn)
                      /\ Pending(tk2, u) => New(tk2[u])
                      /\ HasParent(tk2, u) /\ HasChildren(tk2, u)
                      /\ InTheMiddle(tk2[u]) => Runner(wk, u)
    BY <1>1, Zenon DEF Tasks
  <2>0. /\ TaskFits(tk[u], u, dn)
        /\ Pending(tk, u) => New(tk[u])
        /\ HasParent(tk, u) /\ HasChildren(tk, u)
        /\ InTheMiddle(tk[u]) => Runner(wk, u)
    BY <1>0, Zenon DEF Tasks
  <2>1. TaskFits(tk2[u], u, dn)
    BY <1>2, <2>0, Zenon DEF TaskFits, SameControl, InTheMiddle
  <2>3. HasParent(tk2, u)
    <3> SUFFICES ASSUME tk2[u].into[1] # NoTask
                 PROVE  LET o == tk2[u].into[1] IN
                        /\ o \in DOMAIN tk2 /\ tk2[o].stage # "begin"
                        /\ tk2[o].children[tk2[u].into[2]] = u /\ u \in Range(tk2[o].children)
                        /\ tk2[o].stage \in {"yield", "sum"} => u \in tk2[o].deps
      BY Zenon DEF HasParent
    <3> DEFINE o == tk[u].into[1]
    <3>1. tk2[u].into = tk[u].into
      BY <1>2, Zenon DEF SameControl
    <3>2. /\ o \in DOMAIN tk /\ tk[o].stage # "begin"
          /\ tk[o].children[tk[u].into[2]] = u /\ u \in Range(tk[o].children)
          /\ tk[o].stage \in {"yield", "sum"} => u \in tk[o].deps
      BY <2>0, <3>1, Zenon DEF HasParent
    <3> HIDE DEF o
    <3>3. tk2[o].children = tk[o].children /\ tk2[o].stage = tk[o].stage /\ tk2[o].deps = tk[o].deps
      BY <1>2, <3>2, Zenon DEF SameControl
    <3> QED BY <1>1, <3>1, <3>2, <3>3, Zenon DEF o
  <2>4. HasChildren(tk2, u)
    <3> SUFFICES ASSUME tk[u].stage \in {"count1", "push1", "count2", "push2", "depend"}, NEW k \in {1, 2}
                 PROVE  LET c == tk[u].children[k] IN
                        c \in DOMAIN tk2 /\ tk2[c].into[1] = u /\ tk2[c].into[2] = k
      <4>1. tk2[u].stage = tk[u].stage /\ tk2[u].children = tk[u].children
        BY <1>2, Zenon DEF SameControl
      <4> QED BY <4>1, Zenon DEF HasChildren
    <3> DEFINE c == tk[u].children[k]
    <3>1. c \in DOMAIN tk /\ tk[c].into[1] = u /\ tk[c].into[2] = k
      BY <2>0, Zenon DEF HasChildren
    <3> HIDE DEF c
    <3>2. tk2[c].into = tk[c].into
      BY <1>2, <3>1, Zenon DEF SameControl
    <3> QED BY <1>1, <3>1, <3>2, Zenon DEF c
  <2> QED BY <1>3, <1>4, <2>0, <2>1, <2>3, <2>4, Zenon
<1> QED BY <1>0, <1>6, <1>8, <1>9, <1>10, Zenon DEF Sound, tk2

\* Queued labels are labels.
LEMMA QueuedLabel ==
  ASSUME NEW S, NEW q \in Seq(S), NEW u \in Range(q)
  PROVE  u \in S
  BY DEF Range

\* The function of a task goes on to its next stage, with child j pushed.
PastPush(s, r, j) ==
  /\ \/ s.stage = "push1" /\ j = 1 /\ r.stage = "count2"
     \/ s.stage = "push2" /\ j = 2 /\ r.stage = "depend"
  /\ r.into = s.into /\ r.children = s.children /\ r.deps = s.deps /\ r.state = s.state
  /\ r.entered = s.entered /\ r.ended = s.ended

\* Which children no longer wait to be queued at these stages.
LEMMA WaitsNoMore ==
  /\ ~Waits("count2", 1)
  /\ \A j : ~Waits("depend", j)
  BY DEF Waits

\* A function puts its child j into the queue.
LEMMA ChildPushed ==
  ASSUME NEW tk, NEW wk, NEW q, NEW dn, NEW fr, Sound(tk, wk, q, dn, fr),
         NEW w \in Workers, NEW t, wk[w].pc = "function", wk[w].task = t,
         NEW j \in {1, 2}, NEW r \in TaskRecs, PastPush(tk[t], r, j)
  PROVE  Sound([tk EXCEPT ![t] = r], wk, Append(q, tk[t].children[j]), dn, fr)
<1> DEFINE tk2 == [tk EXCEPT ![t] = r]
           c == tk[t].children[j]
           q2 == Append(q, c)
<1>0. Typed(tk, wk, q, dn, fr) /\ Owners(tk, wk, q, dn, fr) /\ Apart(wk) /\ NoDuplicates(q) /\ Queued(tk, q) /\ Tasks(tk, wk, dn)
  BY Zenon DEF Sound
<1>1. t \in DOMAIN tk /\ t \notin Range(q) /\ ~Pending(tk, t) /\ Fits(wk[w], tk[t], dn, fr) /\ HoldsTask(wk[w])
  BY <1>0, Zenon DEF Owners, HoldsTask
<1>2. c \in DOMAIN tk /\ tk[c].into[1] = t /\ tk[c].into[2] = j
  <2>1. HasChildren(tk, t)
    BY <1>0, <1>1, Zenon DEF Tasks
  <2> QED BY <2>1, Zenon DEF HasChildren, PastPush
<1>3. Pending(tk, c)
  BY <1>1, <1>2, Zenon DEF Pending, Waits, PastPush
<1>4. New(tk[c]) /\ c # t /\ c \notin Range(q) /\ \A v \in Workers : HoldsTask(wk[v]) => wk[v].task # c
  BY <1>0, <1>1, <1>2, <1>3, Zenon DEF Tasks, Queued, Owners
<1>5. /\ DOMAIN tk2 = DOMAIN tk /\ tk2 \in [DOMAIN tk -> TaskRecs]
      /\ tk2[t] = r /\ \A u \in DOMAIN tk : u # t => tk2[u] = tk[u]
  BY <1>0, <1>1, Zenon DEF Typed
<1>6. q2 \in Seq(DOMAIN tk) /\ NoDuplicates(q2) /\ Range(q2) = Range(q) \cup {c}
  <2>1. q \in Seq(DOMAIN tk)
    BY <1>0, Zenon DEF Typed
  <2>2. NoDuplicates(q) /\ c \in DOMAIN tk /\ c \notin Range(q)
    BY <1>0, <1>2, <1>4, Zenon
  <2> HIDE DEF c
  <2> QED BY <2>1, <2>2, QueueGrows
<1> HIDE DEF tk2, q2
<1>7. \A u \in DOMAIN tk : tk2[u].into = tk[u].into /\ tk2[u].children = tk[u].children /\ tk2[u].deps = tk[u].deps
  BY <1>1, <1>5, Zenon DEF PastPush
<1>8. ~Pending(tk2, c) /\ \A u \in DOMAIN tk : Pending(tk2, u) => Pending(tk, u)
  <2>1. \A p \in DOMAIN tk : \A i \in {1, 2} : Waits(tk2[p].stage, i) => Waits(tk[p].stage, i)
    BY <1>1, <1>5, Zenon DEF Waits, PastPush
  <2>2. \A u \in DOMAIN tk : tk[u].into[2] \in {1, 2}
    BY <1>0, Zenon DEF Typed, TaskRecs
  <2>3. \A u \in DOMAIN tk : Pending(tk2, u) => Pending(tk, u)
    <3> SUFFICES ASSUME NEW u \in DOMAIN tk, Pending(tk2, u) PROVE Pending(tk, u)
      BY Zenon
    <3>1. tk2[u].into = tk[u].into /\ tk[u].into[2] \in {1, 2}
      BY <1>7, <2>2, Zenon
    <3>2. tk[u].into[1] \in DOMAIN tk /\ Waits(tk2[tk[u].into[1]].stage, tk[u].into[2])
      BY <1>5, <3>1, Zenon DEF Pending
    <3> QED BY <2>1, <3>1, <3>2, Zenon DEF Pending
  <2>4. ~Waits(r.stage, j)
    <3>1. (r.stage = "count2" /\ j = 1) \/ r.stage = "depend"
      BY Zenon DEF PastPush
    <3> QED BY <3>1, WaitsNoMore, Zenon
  <2>5. ~Pending(tk2, c)
    BY <1>2, <1>5, <1>7, <2>4, Zenon DEF Pending
  <2> QED BY <2>3, <2>5, Zenon
<1>9. Typed(tk2, wk, q2, dn, fr)
  BY <1>0, <1>5, <1>6, Zenon DEF Typed
<1>10. Owners(tk2, wk, q2, dn, fr)
  <2> SUFFICES ASSUME NEW v \in Workers, HoldsTask(wk[v])
               PROVE  /\ wk[v].task \in DOMAIN tk2 /\ wk[v].task \notin Range(q2) /\ ~Pending(tk2, wk[v].task)
                      /\ Fits(wk[v], tk2[wk[v].task], dn, fr)
    BY Zenon DEF Owners
  <2>1. /\ wk[v].task \in DOMAIN tk /\ wk[v].task \notin Range(q) /\ ~Pending(tk, wk[v].task)
        /\ Fits(wk[v], tk[wk[v].task], dn, fr) /\ wk[v].task # c
    BY <1>0, <1>4, Zenon DEF Owners
  <2>2. CASE v = w
    <3>1. Fits(wk[w], r, dn, fr)
      BY <1>1, Zenon DEF Fits, PastPush
    <3> QED BY <1>5, <1>6, <1>8, <2>1, <2>2, <3>1, Zenon
  <2>3. CASE v # w
    <3>1. wk[v].task # t
      BY <1>0, <1>1, <2>3, Zenon DEF Apart
    <3> QED BY <1>5, <1>6, <1>8, <2>1, <3>1, Zenon
  <2> QED BY <2>2, <2>3, Zenon
<1>11. Queued(tk2, q2)
  <2> SUFFICES ASSUME NEW u \in Range(q2) PROVE Ready(tk2[u]) /\ ~Pending(tk2, u)
    BY Zenon DEF Queued
  <2>1. CASE u = c
    BY <1>2, <1>4, <1>5, <1>8, <2>1, Zenon DEF Ready
  <2>2. CASE u \in Range(q)
    <3>1. u \in DOMAIN tk
      <4>1. q \in Seq(DOMAIN tk)
        BY <1>0, Zenon DEF Typed
      <4> QED BY <2>2, <4>1, QueuedLabel, Zenon
    <3> QED BY <1>0, <1>1, <1>5, <1>8, <2>2, <3>1, Zenon DEF Queued
  <2> QED BY <1>6, <2>1, <2>2, Zenon
<1>12. Tasks(tk2, wk, dn)
  <2> SUFFICES ASSUME NEW u \in DOMAIN tk
               PROVE  /\ TaskFits(tk2[u], u, dn)
                      /\ Pending(tk2, u) => New(tk2[u])
                      /\ HasParent(tk2, u) /\ HasChildren(tk2, u)
                      /\ InTheMiddle(tk2[u]) => Runner(wk, u)
    BY <1>5, Zenon DEF Tasks
  <2>0. /\ TaskFits(tk[u], u, dn)
        /\ Pending(tk, u) => New(tk[u])
        /\ HasParent(tk, u) /\ HasChildren(tk, u)
        /\ InTheMiddle(tk[u]) => Runner(wk, u)
    BY <1>0, Zenon DEF Tasks
  <2>1. TaskFits(tk2[u], u, dn)
    <3>1. CASE u = t
      <4>1. ~tk[t].ended
        BY <1>1, Zenon DEF Fits
      <4> QED BY <1>5, <2>0, <3>1, <4>1, Zenon DEF TaskFits, PastPush
    <3>2. CASE u # t
      BY <1>5, <2>0, <3>2, Zenon
    <3> QED BY <3>1, <3>2, Zenon
  <2>2. Pending(tk2, u) => New(tk2[u])
    BY <1>1, <1>5, <1>8, <2>0, Zenon
  <2>3. HasParent(tk2, u)
    <3> DEFINE p == tk[u].into[1]
    <3> SUFFICES ASSUME p # NoTask
                 PROVE  /\ p \in DOMAIN tk /\ tk2[p].stage # "begin"
                        /\ tk2[p].children[tk[u].into[2]] = u /\ u \in Range(tk2[p].children)
                        /\ tk2[p].stage \in {"yield", "sum"} => u \in tk2[p].deps
      BY <1>5, <1>7, Zenon DEF HasParent
    <3>1. /\ p \in DOMAIN tk /\ tk[p].stage # "begin"
          /\ tk[p].children[tk[u].into[2]] = u /\ u \in Range(tk[p].children)
          /\ tk[p].stage \in {"yield", "sum"} => u \in tk[p].deps
      BY <2>0, Zenon DEF HasParent
    <3>2. CASE p = t
      BY <1>5, <3>1, <3>2, Zenon DEF PastPush
    <3>3. CASE p # t
      BY <1>5, <3>1, <3>3, Zenon
    <3> QED BY <3>2, <3>3, Zenon
  <2>4. HasChildren(tk2, u)
    <3> SUFFICES ASSUME tk2[u].stage \in {"count1", "push1", "count2", "push2", "depend"}, NEW i \in {1, 2}
                 PROVE  /\ tk2[u].children[i] \in DOMAIN tk
                        /\ tk2[tk2[u].children[i]].into[1] = u /\ tk2[tk2[u].children[i]].into[2] = i
      BY <1>5, Zenon DEF HasChildren
    <3>1. tk[u].stage \in {"count1", "push1", "count2", "push2", "depend"} /\ tk2[u].children = tk[u].children
      BY <1>5, <1>7, Zenon DEF PastPush
    <3>2. /\ tk[u].children[i] \in DOMAIN tk
          /\ tk[tk[u].children[i]].into[1] = u /\ tk[tk[u].children[i]].into[2] = i
      BY <2>0, <3>1, Zenon DEF HasChildren
    <3> QED BY <1>7, <3>1, <3>2, Zenon
  <2>5. InTheMiddle(tk2[u]) => Runner(wk, u)
    <3>1. CASE u = t
      BY <3>1, Zenon DEF Runner
    <3>2. CASE u # t
      BY <1>5, <2>0, <3>2, Zenon
    <3> QED BY <3>1, <3>2, Zenon
  <2> QED BY <2>1, <2>2, <2>3, <2>4, <2>5, Zenon
<1> QED BY <1>0, <1>6, <1>9, <1>10, <1>11, <1>12, Zenon DEF Sound, tk2, q2

\* The parent with its two children, and one of the children.
IsParent(s, r, a, b) ==
  /\ r.stage = "count1" /\ r.into = s.into /\ r.deps = s.deps /\ r.state = s.state
  /\ r.entered = s.entered /\ r.ended = s.ended
  /\ r.children[1] = a /\ r.children[2] = b /\ a \in Range(r.children) /\ b \in Range(r.children)
IsChild(n, t, j) == New(n) /\ n.into[1] = t /\ n.into[2] = j
Fresh(tk, a, b) == a \in Nat /\ DOMAIN tk = 0 .. a - 1 /\ b = a + 1

KeepsOthers(tk, tk2, t) == \A u \in DOMAIN tk : u # t => tk2[u] = tk[u]

\* A function at its beginning draws two labels and constructs two tasks.
LEMMA TasksCreated ==
  ASSUME NEW tk, NEW wk, NEW q, NEW dn, NEW fr, Sound(tk, wk, q, dn, fr),
         NEW w \in Workers, NEW t, wk[w].pc = "function", wk[w].task = t, tk[t].stage = "begin",
         NEW a, NEW b, Fresh(tk, a, b), NEW r, IsParent(tk[t], r, a, b),
         NEW tk2 \in [DOMAIN tk \cup {a, b} -> TaskRecs],
         tk2[t] = r, IsChild(tk2[a], t, 1), IsChild(tk2[b], t, 2), KeepsOthers(tk, tk2, t)
  PROVE  Sound(tk2, wk, q, dn, fr)
<1> USE DEF KeepsOthers
<1>0. Typed(tk, wk, q, dn, fr) /\ Owners(tk, wk, q, dn, fr) /\ Apart(wk) /\ NoDuplicates(q) /\ Queued(tk, q) /\ Tasks(tk, wk, dn)
  BY Zenon DEF Sound
<1>1. t \in DOMAIN tk /\ t \notin Range(q) /\ ~Pending(tk, t) /\ Fits(wk[w], tk[t], dn, fr) /\ HoldsTask(wk[w])
  BY <1>0, Zenon DEF Owners, HoldsTask
<1>2. a \in Nat /\ b = a + 1 /\ DOMAIN tk = 0 .. a - 1
  BY Zenon DEF Fresh
<1>3. /\ a \notin DOMAIN tk /\ b \notin DOMAIN tk /\ a # b
      /\ DOMAIN tk2 = DOMAIN tk \cup {a, b} /\ DOMAIN tk2 = 0 .. a + 1
  <2>1. DOMAIN tk2 = DOMAIN tk \cup {a, b}
    BY Zenon
  <2> QED BY <1>2, <2>1
<1>5. Typed(tk2, wk, q, dn, fr)
  <2>1. q \in Seq(DOMAIN tk2)
    <3>1. q \in Seq(DOMAIN tk) /\ DOMAIN tk \subseteq DOMAIN tk2
      BY <1>0, <1>3, Zenon DEF Typed
    <3> QED BY <3>1
  <2>2. DOMAIN tk2 \in LabelSets
    <3>1. a + 2 \in Nat /\ a + 2 - 1 = a + 1 /\ DOMAIN tk2 = 0 .. a + 1
      BY <1>2, <1>3
    <3> QED BY <3>1 DEF LabelSets
  <2>3. tk2 \in [DOMAIN tk2 -> TaskRecs] /\ dn \subseteq DOMAIN tk2 /\ fr \subseteq dn /\ wk \in [Workers -> WorkerRecs]
    BY <1>0, <1>3, Zenon DEF Typed
  <2> QED BY <2>1, <2>2, <2>3, Zenon DEF Typed
<1>6. \A u \in DOMAIN tk : tk2[u].into = tk[u].into /\ tk2[u].deps = tk[u].deps
  BY <1>1, Zenon DEF IsParent
<1>7. \A u \in DOMAIN tk : tk[u].into[1] # t /\ (tk[u].into[1] # NoTask => tk[u].into[1] \in DOMAIN tk)
  <2>1. t # NoTask
    BY <1>1, <1>2 DEF NoTask
  <2> SUFFICES ASSUME NEW u \in DOMAIN tk
               PROVE  tk[u].into[1] # t /\ (tk[u].into[1] # NoTask => tk[u].into[1] \in DOMAIN tk)
    BY Zenon
  <2>2. HasParent(tk, u)
    BY <1>0, Zenon DEF Tasks
  <2> QED BY <2>1, <2>2, Zenon DEF HasParent
<1>8. \A u \in DOMAIN tk : Pending(tk2, u) <=> Pending(tk, u)
  <2> SUFFICES ASSUME NEW u \in DOMAIN tk PROVE Pending(tk2, u) <=> Pending(tk, u)
    BY Zenon
  <2> DEFINE p == tk[u].into[1]
  <2>1. tk2[u].into = tk[u].into
    BY <1>6, Zenon
  <2>2. p \in DOMAIN tk <=> p \in DOMAIN tk2
    <3>1. NoTask \notin DOMAIN tk /\ NoTask \notin DOMAIN tk2
      BY <1>2, <1>3 DEF NoTask
    <3> QED BY <1>3, <1>7, <3>1, Zenon
  <2>3. p \in DOMAIN tk => tk2[p] = tk[p]
    BY <1>7, Zenon
  <2> QED BY <2>1, <2>2, <2>3, Zenon DEF Pending
<1>9. Owners(tk2, wk, q, dn, fr)
  <2> SUFFICES ASSUME NEW v \in Workers, HoldsTask(wk[v])
               PROVE  /\ wk[v].task \in DOMAIN tk2 /\ wk[v].task \notin Range(q) /\ ~Pending(tk2, wk[v].task)
                      /\ Fits(wk[v], tk2[wk[v].task], dn, fr)
    BY Zenon DEF Owners
  <2>1. /\ wk[v].task \in DOMAIN tk /\ wk[v].task \notin Range(q) /\ ~Pending(tk, wk[v].task)
        /\ Fits(wk[v], tk[wk[v].task], dn, fr)
    BY <1>0, Zenon DEF Owners
  <2>2. CASE v = w
    <3>1. Fits(wk[w], r, dn, fr)
      BY <1>1, Zenon DEF Fits, IsParent
    <3> QED BY <1>3, <1>8, <2>1, <2>2, <3>1, Zenon
  <2>3. CASE v # w
    <3>1. wk[v].task # t
      BY <1>0, <1>1, <2>3, Zenon DEF Apart
    <3> QED BY <1>3, <1>8, <2>1, <3>1, Zenon
  <2> QED BY <2>2, <2>3, Zenon
<1>10. Queued(tk2, q)
  <2> SUFFICES ASSUME NEW u \in Range(q) PROVE Ready(tk2[u]) /\ ~Pending(tk2, u)
    BY Zenon DEF Queued
  <2>1. u \in DOMAIN tk
    <3>1. q \in Seq(DOMAIN tk)
      BY <1>0, Zenon DEF Typed
    <3> QED BY <3>1, QueuedLabel, Zenon
  <2> QED BY <1>0, <1>1, <1>8, <2>1, Zenon DEF Queued
<1>11. /\ t \in DOMAIN tk2 /\ a \in DOMAIN tk2 /\ b \in DOMAIN tk2 /\ t # a /\ t # b
       /\ r.children[1] = a /\ r.children[2] = b /\ a \in Range(r.children) /\ b \in Range(r.children)
  BY <1>1, <1>3, Zenon DEF IsParent
<1>12. ASSUME NEW u \in {a, b}
       PROVE  /\ TaskFits(tk2[u], u, dn) /\ New(tk2[u]) /\ HasParent(tk2, u) /\ HasChildren(tk2, u)
              /\ ~InTheMiddle(tk2[u])
  <2>1. New(tk2[u])
    BY <1>12, Zenon DEF IsChild
  <2>2. u \notin dn
    BY <1>0, <1>3, <1>12, Zenon DEF Typed
  <2>3. TaskFits(tk2[u], u, dn) /\ HasChildren(tk2, u) /\ ~InTheMiddle(tk2[u])
    BY <2>1, <2>2, Zenon DEF TaskFits, HasChildren, InTheMiddle, New
  <2>4. HasParent(tk2, u)
    <3>1. tk2[u].into[1] = t /\ r.children[tk2[u].into[2]] = u /\ u \in Range(r.children)
      BY <1>11, <1>12, Zenon DEF IsChild
    <3> QED BY <1>11, <3>1, Zenon DEF HasParent, IsParent
  <2> QED BY <2>1, <2>3, <2>4, Zenon
<1>13. ASSUME NEW u \in DOMAIN tk
       PROVE  /\ TaskFits(tk2[u], u, dn)
              /\ Pending(tk2, u) => New(tk2[u])
              /\ HasParent(tk2, u) /\ HasChildren(tk2, u)
              /\ InTheMiddle(tk2[u]) => Runner(wk, u)
  <2>0. /\ TaskFits(tk[u], u, dn)
        /\ Pending(tk, u) => New(tk[u])
        /\ HasParent(tk, u) /\ HasChildren(tk, u)
        /\ InTheMiddle(tk[u]) => Runner(wk, u)
    BY <1>0, <1>13, Zenon DEF Tasks
  <2>3. HasParent(tk2, u)
    <3> DEFINE p == tk[u].into[1]
    <3>1. p # t /\ tk2[u].into = tk[u].into
      BY <1>6, <1>7, <1>13, Zenon
    <3>2. p # NoTask => p \in DOMAIN tk /\ p \in DOMAIN tk2 /\ tk2[p] = tk[p]
      BY <1>3, <1>7, <1>13, <3>1, Zenon
    <3> QED BY <2>0, <3>1, <3>2, Zenon DEF HasParent
  <2>4. CASE u = t
    <3>1. TaskFits(r, t, dn)
      <4>1. ~tk[t].ended
        BY <1>1, Zenon DEF Fits
      <4> QED BY <2>0, <2>4, <4>1, Zenon DEF TaskFits, IsParent
    <3>2. ~Pending(tk2, t)
      BY <1>1, <1>8, Zenon
    <3>3. Runner(wk, t)
      BY Zenon DEF Runner
    <3>4. HasChildren(tk2, t)
      <4> SUFFICES ASSUME NEW i \in {1, 2}
                   PROVE  /\ tk2[t].children[i] \in DOMAIN tk2
                          /\ tk2[tk2[t].children[i]].into[1] = t /\ tk2[tk2[t].children[i]].into[2] = i
        BY Zenon DEF HasChildren
      <4> QED BY <1>11, Zenon DEF IsChild
    <3> QED BY <2>3, <2>4, <3>1, <3>2, <3>3, <3>4, Zenon
  <2>5. CASE u # t
    <3>1. tk2[u] = tk[u]
      BY <1>13, <2>5, Zenon
    <3>2. HasChildren(tk2, u)
      <4> SUFFICES ASSUME tk[u].stage \in {"count1", "push1", "count2", "push2", "depend"}, NEW i \in {1, 2}
                   PROVE  /\ tk[u].children[i] \in DOMAIN tk2
                          /\ tk2[tk[u].children[i]].into[1] = u /\ tk2[tk[u].children[i]].into[2] = i
        BY <3>1, Zenon DEF HasChildren
      <4>1. /\ tk[u].children[i] \in DOMAIN tk
            /\ tk[tk[u].children[i]].into[1] = u /\ tk[tk[u].children[i]].into[2] = i
        BY <2>0, Zenon DEF HasChildren
      <4> QED BY <1>3, <1>6, <4>1, Zenon
    <3> QED BY <1>8, <1>13, <2>0, <2>3, <3>1, <3>2, Zenon
  <2> QED BY <2>4, <2>5, Zenon
<1>14. Tasks(tk2, wk, dn)
  BY <1>3, <1>12, <1>13, Zenon DEF Tasks
<1> QED BY <1>0, <1>5, <1>9, <1>10, <1>14, Zenon DEF Sound

-----------------------------------------------------------------------------
(* The records that the actions write                                       *)

Pcs ==
  {"pull", "pop", "check", "requeue", "run", "resume", "function", "after", "callback", "insert", "delete",
   "leave", "terminate", "exited"}

\* A worker's next step.
LEMMA WorkerWent ==
  ASSUME NEW w \in Workers, worker \in [Workers -> WorkerRecs], NEW pc \in Pcs, Go(w, pc)
  PROVE  \E k \in WorkerRecs : /\ worker' = [worker EXCEPT ![w] = k]
                               /\ k.pc = pc /\ k.task = worker[w].task /\ k.seen = worker[w].seen
<1> DEFINE k == [worker[w] EXCEPT !.pc = pc]
<1>1. worker' = [worker EXCEPT ![w] = k]
  BY Zenon DEF Go
<1>2. k \in WorkerRecs /\ k.pc = pc /\ k.task = worker[w].task /\ k.seen = worker[w].seen
  BY Zenon DEF WorkerRecs, Pcs
<1> HIDE DEF k
<1> QED BY <1>1, <1>2, Zenon

WithState(s, x) == [s EXCEPT !.state = x]
\* Setting the state of a task changes nothing else of it.
LEMMA StateSet ==
  ASSUME NEW s \in TaskRecs, NEW x \in States
  PROVE  LET r == WithState(s, x) IN
         /\ r \in TaskRecs
         /\ r.into = s.into /\ r.deps = s.deps /\ r.state = x /\ r.entered = s.entered
         /\ r.ended = s.ended /\ r.stage = s.stage /\ r.children = s.children
  BY Zenon DEF TaskRecs, WithState

AtStage(s, x) == [s EXCEPT !.stage = x]
\* Moving to another stage changes nothing else of a task.
LEMMA StageSet ==
  ASSUME NEW s \in TaskRecs, NEW x \in Stages
  PROVE  LET r == AtStage(s, x) IN
         /\ r \in TaskRecs
         /\ r.into = s.into /\ r.deps = s.deps /\ r.state = s.state /\ r.entered = s.entered
         /\ r.ended = s.ended /\ r.stage = x /\ r.children = s.children
  BY Zenon DEF TaskRecs, AtStage

\* Resume: the task runs.
LEMMA RunningSet ==
  ASSUME NEW D, NEW f \in [D -> TaskRecs], NEW t \in D
  PROVE  \E r \in TaskRecs :
           /\ [f EXCEPT ![t].state = "running", ![t].entered = TRUE] = [f EXCEPT ![t] = r]
           /\ r.arg = f[t].arg /\ r.into = f[t].into /\ r.deps = f[t].deps /\ r.state = "running" /\ r.entered
           /\ r.ended = f[t].ended /\ r.stage = f[t].stage /\ r.children = f[t].children
<1> DEFINE r == [f[t] EXCEPT !.state = "running", !.entered = TRUE]
<1>1. [f EXCEPT ![t].state = "running", ![t].entered = TRUE] = [f EXCEPT ![t] = r]
  BY Zenon
<1>2. f[t] \in TaskRecs
  BY Zenon
<1>3. /\ r \in TaskRecs
      /\ r.arg = f[t].arg /\ r.into = f[t].into /\ r.deps = f[t].deps /\ r.state = "running" /\ r.entered = TRUE
      /\ r.ended = f[t].ended /\ r.stage = f[t].stage /\ r.children = f[t].children
  BY <1>2, Zenon DEF TaskRecs, States
<1> HIDE DEF r
<1> QED BY <1>1, <1>3, Zenon

\* Yield: the coroutine goes back to the worker.
LEMMA YieldSet ==
  ASSUME NEW D, NEW f \in [D -> TaskRecs], NEW t \in D
  PROVE  \E r \in TaskRecs :
           /\ [f EXCEPT ![t].entered = FALSE, ![t].stage = "sum"] = [f EXCEPT ![t] = r]
           /\ r.arg = f[t].arg /\ r.into = f[t].into /\ r.deps = f[t].deps /\ r.state = f[t].state /\ ~r.entered
           /\ r.ended = f[t].ended /\ r.stage = "sum" /\ r.children = f[t].children
<1> DEFINE r == [f[t] EXCEPT !.entered = FALSE, !.stage = "sum"]
<1>1. [f EXCEPT ![t].entered = FALSE, ![t].stage = "sum"] = [f EXCEPT ![t] = r]
  BY Zenon
<1>2. f[t] \in TaskRecs
  BY Zenon
<1>3. /\ r \in TaskRecs
      /\ r.arg = f[t].arg /\ r.into = f[t].into /\ r.deps = f[t].deps /\ r.state = f[t].state /\ r.entered = FALSE
      /\ r.ended = f[t].ended /\ r.stage = "sum" /\ r.children = f[t].children
  BY <1>2, Zenon DEF TaskRecs, Stages
<1> HIDE DEF r
<1> QED BY <1>1, <1>3, Zenon

\* Return: the coroutine ends.
LEMMA EndedSet ==
  ASSUME NEW D, NEW f \in [D -> TaskRecs], NEW t \in D
  PROVE  \E r \in TaskRecs :
           /\ [f EXCEPT ![t].ended = TRUE, ![t].entered = FALSE] = [f EXCEPT ![t] = r]
           /\ r.arg = f[t].arg /\ r.into = f[t].into /\ r.deps = f[t].deps /\ r.state = f[t].state /\ ~r.entered
           /\ r.ended /\ r.stage = f[t].stage /\ r.children = f[t].children
<1> DEFINE r == [f[t] EXCEPT !.ended = TRUE, !.entered = FALSE]
<1>1. [f EXCEPT ![t].ended = TRUE, ![t].entered = FALSE] = [f EXCEPT ![t] = r]
  BY Zenon
<1>2. f[t] \in TaskRecs
  BY Zenon
<1>3. /\ r \in TaskRecs
      /\ r.arg = f[t].arg /\ r.into = f[t].into /\ r.deps = f[t].deps /\ r.state = f[t].state /\ r.entered = FALSE
      /\ r.ended = TRUE /\ r.stage = f[t].stage /\ r.children = f[t].children
  BY <1>2, Zenon DEF TaskRecs
<1> HIDE DEF r
<1> QED BY <1>1, <1>3, Zenon

\* SuspendTask: the task depends on its children, and is suspended.
WithDeps(s, d) == [s EXCEPT !.deps = d, !.state = "suspended", !.stage = "yield"]
\* Suspending with dependencies changes these, the state and the stage only.
LEMMA SuspendedSet ==
  ASSUME NEW s \in TaskRecs, NEW d \in SUBSET Nat
  PROVE  LET r == WithDeps(s, d) IN
         /\ r \in TaskRecs
         /\ r.into = s.into /\ r.deps = d /\ r.state = "suspended" /\ r.entered = s.entered
         /\ r.ended = s.ended /\ r.stage = "yield" /\ r.children = s.children
  BY Zenon DEF TaskRecs, WithDeps, States, Stages

\* Dependencies are labels, also after the children were added.
LEMMA DepsGrow ==
  ASSUME NEW s \in TaskRecs
  PROVE  s.deps \cup Range(s.children) \in SUBSET Nat
<1>1. s.children \in Seq(Nat) /\ s.deps \in SUBSET Nat
  BY Zenon DEF TaskRecs
<1>2. \A u \in Range(s.children) : u \in Nat
  BY <1>1, QueuedLabel, Zenon
<1> QED BY <1>1, <1>2, Zenon

\* Return: the result goes to the parent.
WithResult(f, p, j, x) == [f EXCEPT ![p].results[j] = x]

\* Writing a result is a change of the parent that keeps its control state.
LEMMA ResultSet ==
  ASSUME NEW D, NEW f \in [D -> TaskRecs], NEW p \in D, NEW j \in {1, 2}, NEW x \in Nat
  PROVE  \E r \in TaskRecs : WithResult(f, p, j, x) = [f EXCEPT ![p] = r] /\ SameControl(f[p], r)
<1> DEFINE y == [f[p].results EXCEPT ![j] = x]
           r == [f[p] EXCEPT !.results = y]
<1>1. WithResult(f, p, j, x) = [f EXCEPT ![p] = r]
  BY Zenon DEF WithResult
<1>2. f[p] \in TaskRecs
  BY Zenon
<1>3. y \in [1 .. 2 -> Nat]
  BY <1>2, Zenon DEF TaskRecs
<1> HIDE DEF y
<1>4. r \in TaskRecs /\ SameControl(f[p], r)
  BY <1>2, <1>3, Zenon DEF TaskRecs, SameControl
<1> HIDE DEF r
<1> QED BY <1>1, <1>4, Zenon

-----------------------------------------------------------------------------
(* The actions                                                              *)

IInv == exc = "none" /\ Sound(task, worker, queue, done, freed)

\* What the invariant says of a worker and of the task it holds.
LEMMA Holder ==
  ASSUME IInv, NEW w \in Workers
  PROVE  /\ task \in [DOMAIN task -> TaskRecs] /\ worker \in [Workers -> WorkerRecs] /\ worker[w] \in WorkerRecs
         /\ queue \in Seq(DOMAIN task) /\ NoDuplicates(queue) /\ Queued(task, queue) /\ freed \subseteq done
         /\ HoldsTask(worker[w]) => /\ Mine(w) \in DOMAIN task /\ task[Mine(w)] \in TaskRecs
                                    /\ Fits(worker[w], task[Mine(w)], done, freed)
                                    /\ TaskFits(task[Mine(w)], Mine(w), done) /\ HasParent(task, Mine(w))
                                    /\ Mine(w) \notin Range(queue) /\ ~Pending(task, Mine(w))
                                    /\ \A v \in Workers : v # w /\ HoldsTask(worker[v]) => worker[v].task # Mine(w)
<1>1. Typed(task, worker, queue, done, freed) /\ Owners(task, worker, queue, done, freed) /\ Apart(worker)
      /\ NoDuplicates(queue) /\ Queued(task, queue) /\ Tasks(task, worker, done)
  BY Zenon DEF IInv, Sound
<1>2. /\ task \in [DOMAIN task -> TaskRecs] /\ worker \in [Workers -> WorkerRecs] /\ queue \in Seq(DOMAIN task)
      /\ freed \subseteq done
  BY <1>1, Zenon DEF Typed
<1>3. ASSUME HoldsTask(worker[w])
      PROVE  /\ Mine(w) \in DOMAIN task /\ task[Mine(w)] \in TaskRecs
             /\ Fits(worker[w], task[Mine(w)], done, freed)
             /\ TaskFits(task[Mine(w)], Mine(w), done) /\ HasParent(task, Mine(w))
             /\ Mine(w) \notin Range(queue) /\ ~Pending(task, Mine(w))
             /\ \A v \in Workers : v # w /\ HoldsTask(worker[v]) => worker[v].task # Mine(w)
  <2>1. /\ Mine(w) \in DOMAIN task /\ Fits(worker[w], task[Mine(w)], done, freed)
        /\ Mine(w) \notin Range(queue) /\ ~Pending(task, Mine(w))
    BY <1>1, <1>3, Zenon DEF Owners, Mine
  <2>2. task[Mine(w)] \in TaskRecs
    BY <1>2, <2>1, Zenon
  <2>3. TaskFits(task[Mine(w)], Mine(w), done) /\ HasParent(task, Mine(w))
    BY <1>1, <2>1, Zenon DEF Tasks
  <2>4. \A v \in Workers : v # w /\ HoldsTask(worker[v]) => worker[v].task # Mine(w)
    BY <1>1, <1>3, Zenon DEF Apart, Mine
  <2> QED BY <2>1, <2>2, <2>3, <2>4, Zenon
<1> QED BY <1>1, <1>2, <1>3, Zenon

\* A worker that holds nothing before or after, and leaves the rest alone.
LEMMA FreeMoveSound ==
  ASSUME IInv, NEW w \in Workers, NEW k \in WorkerRecs, worker[w].pc # "function", ~HoldsTask(k),
         worker' = [worker EXCEPT ![w] = k], UNCHANGED <<queue, done, task, freed, exc>>
  PROVE  IInv'
<1>1. Sound(task, worker, queue, done, freed) /\ exc = "none" /\ queue \in Seq(DOMAIN task)
      /\ NoDuplicates(queue) /\ Queued(task, queue) /\ freed \subseteq done
  BY Holder, Zenon DEF IInv
<1>2. Aside(worker, w, k, queue, freed, freed) /\ Owns(task, k, queue, done, freed)
  BY <1>1, Zenon DEF Sound, Owners, Aside, Owns
<1>3. Sound(task, [worker EXCEPT ![w] = k], queue, done, freed)
  BY <1>1, <1>2, WorkerMoves, Zenon
<1> QED BY <1>1, <1>3, Zenon DEF IInv

\* One lemma per action: the pull function reads the counter.
LEMMA CheckTaskCountSound == ASSUME IInv, NEW w \in Workers, CheckTaskCount(w) PROVE IInv'
<1>1. worker \in [Workers -> WorkerRecs] /\ worker[w].pc = "pull" /\ UNCHANGED <<queue, done, task, freed, exc>>
  BY Holder, Zenon DEF CheckTaskCount, At
<1>2. PICK pc \in {"terminate", "pop"} : Go(w, pc)
  BY Zenon DEF CheckTaskCount
<1>3. pc \in Pcs
  BY Zenon DEF Pcs
<1>4. PICK k \in WorkerRecs : worker' = [worker EXCEPT ![w] = k] /\ k.pc = pc
  BY <1>1, <1>2, <1>3, WorkerWent
<1>5. ~HoldsTask(k)
  BY <1>4, Zenon DEF HoldsTask
<1> QED BY <1>1, <1>4, <1>5, FreeMoveSound, Zenon

\* A worker leaves Task::run, or its main loop returns.
LEMMA LeaveSound == ASSUME IInv, NEW w \in Workers, LeaveRun(w) \/ LoopReturns(w) PROVE IInv'
<1>1. worker \in [Workers -> WorkerRecs] /\ worker[w].pc \in {"leave", "terminate"}
      /\ UNCHANGED <<queue, done, task, freed, exc>>
  BY Holder, Zenon DEF LeaveRun, LoopReturns, At
<1>2. PICK k \in WorkerRecs : worker' = [worker EXCEPT ![w] = k] /\ k.pc \in {"pull", "exited"}
  <2>1. CASE LeaveRun(w)
    <3>1. IdleWorker \in WorkerRecs /\ IdleWorker.pc = "pull"
      BY DEF IdleWorker, WorkerRecs, NoTask
    <3> QED BY <2>1, <3>1, Zenon DEF LeaveRun
  <2>2. CASE LoopReturns(w)
    <3>1. Go(w, "exited") /\ "exited" \in Pcs
      BY <2>2, Zenon DEF LoopReturns, Pcs
    <3> QED BY <1>1, <3>1, WorkerWent, Zenon
  <2> QED BY <2>1, <2>2, Zenon
<1>3. ~HoldsTask(k)
  BY <1>2, Zenon DEF HoldsTask
<1> QED BY <1>1, <1>2, <1>3, FreeMoveSound, Zenon

\* The pull function pops a task from the queue.
LEMMA PopTaskSound == ASSUME IInv, NEW w \in Workers, PopTask(w) PROVE IInv'
<1>1. worker \in [Workers -> WorkerRecs] /\ worker[w].pc = "pop" /\ UNCHANGED <<done, task, freed, exc>>
  BY Holder, Zenon DEF PopTask, At
<1>2. CASE queue = <<>>
  <2>1. Go(w, "pull") /\ UNCHANGED queue /\ "pull" \in Pcs
    BY <1>2, Zenon DEF PopTask, Pcs
  <2>2. PICK k \in WorkerRecs : worker' = [worker EXCEPT ![w] = k] /\ k.pc = "pull"
    BY <1>1, <2>1, WorkerWent
  <2>3. ~HoldsTask(k)
    BY <2>2, Zenon DEF HoldsTask
  <2> QED BY <1>1, <2>1, <2>2, <2>3, FreeMoveSound, Zenon
<1>3. CASE queue # <<>>
  <2> DEFINE k == [pc |-> "check", task |-> Head(queue), seen |-> "none"]
  <2>1. worker' = [worker EXCEPT ![w] = k] /\ queue' = Tail(queue)
    BY <1>3, Zenon DEF PopTask
  <2>2. queue \in Seq(DOMAIN task) /\ NoDuplicates(queue) /\ Queued(task, queue) /\ freed \subseteq done
    BY Holder, Zenon
  <2>3. /\ Tail(queue) \in Seq(DOMAIN task) /\ NoDuplicates(Tail(queue)) /\ Head(queue) \in Range(queue)
        /\ Range(Tail(queue)) \subseteq Range(queue) /\ Head(queue) \notin Range(Tail(queue))
    BY <1>3, <2>2, QueueShrinks, Zenon
  <2>4. Head(queue) \in DOMAIN task /\ DOMAIN task \subseteq Int
    <3>1. PICK n \in Nat : DOMAIN task = 0 .. n - 1
      BY Zenon DEF IInv, Sound, Typed, LabelSets
    <3> QED BY <2>2, <2>3, <3>1, QueuedLabel
  <2>5. k \in WorkerRecs /\ k.pc = "check" /\ k.task = Head(queue)
    BY <2>4, Zenon DEF WorkerRecs
  <2>6. Queued(task, Tail(queue)) /\ Ready(task[Head(queue)]) /\ ~Pending(task, Head(queue))
    BY <2>2, <2>3, Zenon DEF Queued
  <2>7. Fits(k, task[Head(queue)], done, freed)
    BY <2>6, Zenon DEF Fits
  <2> HIDE DEF k
  <2>8. Owns(task, k, Tail(queue), done, freed) /\ Aside(worker, w, k, Tail(queue), freed, freed)
    <3>1. \A v \in Workers : HoldsTask(worker[v]) => worker[v].task \notin Range(queue)
      BY Zenon DEF IInv, Sound, Owners
    <3>2. Owns(task, k, Tail(queue), done, freed)
      BY <2>3, <2>4, <2>5, <2>6, <2>7, Zenon DEF Owns
    <3> QED BY <2>3, <2>5, <3>1, <3>2, Zenon DEF Aside
  <2>9. Sound(task, worker, queue, done, freed)
    BY Zenon DEF IInv
  <2>10. Sound(task, [worker EXCEPT ![w] = k], Tail(queue), done, freed)
    <3>1. worker[w].pc # "function"
      BY <1>1, Zenon
    <3> QED BY <2>2, <2>3, <2>5, <2>6, <2>8, <2>9, <3>1, WorkerMoves, Zenon
  <2> QED BY <1>1, <2>1, <2>10, Zenon DEF IInv
<1> QED BY <1>2, <1>3, Zenon

\* A worker goes on holding its task.
LEMMA OwnStepSound ==
  ASSUME IInv, NEW w \in Workers, HoldsTask(worker[w]), NEW r \in TaskRecs, NEW k \in WorkerRecs,
         worker' = [worker EXCEPT ![w] = k], task' = [task EXCEPT ![Mine(w)] = r],
         UNCHANGED <<queue, done, freed, exc>>, k.task = Mine(w), HoldsTask(k), Fits(k, r, done, freed),
         SameFamily(task[Mine(w)], r), TaskFits(r, Mine(w), done), InTheMiddle(r) => k.pc = "function"
  PROVE  IInv'
<1>1. Sound(task, worker, queue, done, freed) /\ exc = "none" /\ worker[w].task = Mine(w)
  BY Zenon DEF IInv, Mine
<1>2. Sound([task EXCEPT ![Mine(w)] = r], [worker EXCEPT ![w] = k], queue, done, freed)
  BY <1>1, OwnChange, Zenon
<1> QED BY <1>1, <1>2, Zenon DEF IInv

\* Writing back what is there changes nothing.
LEMMA SameTask ==
  ASSUME NEW D, NEW f \in [D -> TaskRecs], NEW t \in D
  PROVE  f = [f EXCEPT ![t] = f[t]] /\ SameFamily(f[t], f[t])
  BY Zenon DEF SameFamily

\* The pull function finds the dependencies finished, or not.
LEMMA CheckTaskReadySound == ASSUME IInv, NEW w \in Workers, CheckTaskReady(w) PROVE IInv'
<1> DEFINE t == Mine(w)
<1>1. worker[w].pc = "check" /\ UNCHANGED <<queue, done, task, freed, exc>> /\ HoldsTask(worker[w])
  BY Zenon DEF CheckTaskReady, At, HoldsTask
<1>2. /\ worker \in [Workers -> WorkerRecs] /\ task \in [DOMAIN task -> TaskRecs] /\ t \in DOMAIN task
      /\ task[t] \in TaskRecs /\ Fits(worker[w], task[t], done, freed) /\ TaskFits(task[t], t, done)
  BY <1>1, Holder, Zenon
<1>3. Ready(task[t])
  BY <1>1, <1>2, Zenon DEF Fits
<1>4. PICK pc \in {"run", "requeue"} : Go(w, pc) /\ (pc = "run" => task[t].deps \subseteq done)
  BY Zenon DEF CheckTaskReady, Task
<1>5. pc \in Pcs
  BY Zenon DEF Pcs
<1>6. PICK k \in WorkerRecs : worker' = [worker EXCEPT ![w] = k] /\ k.pc = pc /\ k.task = worker[w].task
  BY <1>2, <1>4, <1>5, WorkerWent
<1>7. HoldsTask(k) /\ Fits(k, task[t], done, freed) /\ k.task = t
  BY <1>3, <1>4, <1>6, Zenon DEF HoldsTask, Fits, Mine
<1>8. ~InTheMiddle(task[t])
  BY <1>3, Zenon DEF InTheMiddle, Ready, New, Awake
<1>9. task' = [task EXCEPT ![t] = task[t]] /\ SameFamily(task[t], task[t])
  BY <1>1, <1>2, SameTask
<1> QED BY <1>1, <1>2, <1>6, <1>7, <1>8, <1>9, OwnStepSound, Zenon

\* The callback of a finished task takes it off the counter.
LEMMA OnTaskFinishSound == ASSUME IInv, NEW w \in Workers, OnTaskFinish(w) PROVE IInv'
<1> DEFINE t == Mine(w)
<1>1. /\ worker[w].pc = "callback" /\ worker[w].seen = "finished" /\ UNCHANGED <<queue, done, task, freed, exc>>
      /\ HoldsTask(worker[w]) /\ Go(w, "insert") /\ "insert" \in Pcs
  BY Zenon DEF OnTaskFinish, At, HoldsTask, Pcs
<1>2. /\ worker \in [Workers -> WorkerRecs] /\ task \in [DOMAIN task -> TaskRecs] /\ t \in DOMAIN task
      /\ task[t] \in TaskRecs /\ Fits(worker[w], task[t], done, freed) /\ TaskFits(task[t], t, done)
  BY <1>1, Holder, Zenon
<1>3. task[t].ended /\ task[t].state = "finished" /\ worker[w].task \notin done
  BY <1>1, <1>2, Zenon DEF Fits
<1>6. PICK k \in WorkerRecs : worker' = [worker EXCEPT ![w] = k] /\ k.pc = "insert" /\ k.task = worker[w].task
  BY <1>1, <1>2, WorkerWent
<1>7. HoldsTask(k) /\ Fits(k, task[t], done, freed) /\ k.task = t
  BY <1>3, <1>6, Zenon DEF HoldsTask, Fits, Mine
<1>8. ~InTheMiddle(task[t])
  BY <1>2, <1>3, Zenon DEF TaskFits
<1>9. task' = [task EXCEPT ![t] = task[t]] /\ SameFamily(task[t], task[t])
  BY <1>1, <1>2, SameTask, Zenon
<1> QED BY <1>1, <1>2, <1>6, <1>7, <1>8, <1>9, OwnStepSound, Zenon

\* Requeue and awakenTask: the task goes back to the queue.
LEMMA PutBackSound == ASSUME IInv, NEW w \in Workers, Requeue(w) \/ OnTaskSuspend(w) PROVE IInv'
<1> DEFINE t == Mine(w)
           q2 == Append(queue, t)
<1>1. /\ worker[w].pc = "requeue" \/ (worker[w].pc = "callback" /\ worker[w].seen = "suspended")
      /\ UNCHANGED <<done, task, freed, exc>> /\ queue' = q2
  BY Zenon DEF Requeue, OnTaskSuspend, At, QueuePush
<1>a. HoldsTask(worker[w]) /\ worker[w].pc # "function"
  BY <1>1, Zenon DEF HoldsTask
<1>2. /\ worker \in [Workers -> WorkerRecs] /\ task \in [DOMAIN task -> TaskRecs] /\ t \in DOMAIN task
      /\ Fits(worker[w], task[t], done, freed) /\ t \notin Range(queue) /\ ~Pending(task, t)
      /\ queue \in Seq(DOMAIN task) /\ NoDuplicates(queue) /\ Queued(task, queue) /\ freed \subseteq done
      /\ \A v \in Workers : v # w /\ HoldsTask(worker[v]) => worker[v].task # t
  BY <1>a, Holder, Zenon
<1>3. Ready(task[t])
  BY <1>1, <1>2, Zenon DEF Fits, Ready
<1>4. PICK pc \in {"pull", "leave"} : Go(w, pc)
  BY Zenon DEF Requeue, OnTaskSuspend
<1>5. pc \in Pcs
  BY Zenon DEF Pcs
<1>6. PICK k \in WorkerRecs : worker' = [worker EXCEPT ![w] = k] /\ k.pc = pc
  BY <1>2, <1>4, <1>5, WorkerWent
<1>7. ~HoldsTask(k)
  BY <1>6, Zenon DEF HoldsTask
<1>8. q2 \in Seq(DOMAIN task) /\ NoDuplicates(q2) /\ Range(q2) = Range(queue) \cup {t}
  <2> HIDE DEF t
  <2> QED BY <1>2, QueueGrows
<1> HIDE DEF q2
<1>9. Queued(task, q2)
  BY <1>2, <1>3, <1>8, Zenon DEF Queued
<1>10. Aside(worker, w, k, q2, freed, freed) /\ Owns(task, k, q2, done, freed)
  <2>1. \A v \in Workers : HoldsTask(worker[v]) => worker[v].task \notin Range(queue)
    BY Zenon DEF IInv, Sound, Owners
  <2>2. Aside(worker, w, k, q2, freed, freed)
    BY <1>2, <1>7, <1>8, <2>1, Zenon DEF Aside
  <2> QED BY <1>7, <2>2, Zenon DEF Owns
<1>11. Sound(task, worker, queue, done, freed) /\ exc = "none"
  BY Zenon DEF IInv
<1>12. Sound(task, [worker EXCEPT ![w] = k], q2, done, freed)
  <2>1. freed \subseteq done
    BY <1>2, Zenon
  <2> QED BY <1>a, <1>8, <1>9, <1>10, <1>11, <2>1, WorkerMoves, Zenon
<1> QED BY <1>1, <1>6, <1>11, <1>12, Zenon DEF IInv

\* The callback deletes the task.
LEMMA DeleteTaskSound == ASSUME IInv, NEW w \in Workers, DeleteTask(w) PROVE IInv'
<1> DEFINE t == Mine(w)
           fr2 == freed \cup {t}
<1>1. /\ worker[w].pc = "delete" /\ UNCHANGED <<queue, done, task, exc>> /\ freed' = fr2
      /\ HoldsTask(worker[w]) /\ Go(w, "leave") /\ "leave" \in Pcs
  BY Zenon DEF DeleteTask, At, HoldsTask, Pcs
<1>2. /\ worker \in [Workers -> WorkerRecs] /\ Fits(worker[w], task[t], done, freed)
      /\ queue \in Seq(DOMAIN task) /\ NoDuplicates(queue) /\ Queued(task, queue) /\ freed \subseteq done
      /\ \A v \in Workers : v # w /\ HoldsTask(worker[v]) => worker[v].task # t
  BY <1>1, Holder, Zenon
<1>3. fr2 \subseteq done /\ \A u : u \in fr2 => u \in freed \/ u = t
  BY <1>1, <1>2, Zenon DEF Fits, Mine
<1>6. PICK k \in WorkerRecs : worker' = [worker EXCEPT ![w] = k] /\ k.pc = "leave"
  BY <1>1, <1>2, WorkerWent
<1>7. ~HoldsTask(k)
  BY <1>6, Zenon DEF HoldsTask
<1> HIDE DEF fr2
<1>10. Aside(worker, w, k, queue, freed, fr2) /\ Owns(task, k, queue, done, fr2)
  <2>1. \A v \in Workers : HoldsTask(worker[v]) => worker[v].task \notin Range(queue)
    BY Zenon DEF IInv, Sound, Owners
  <2>2. Aside(worker, w, k, queue, freed, fr2)
    BY <1>2, <1>3, <1>7, <2>1, Zenon DEF Aside
  <2> QED BY <1>7, <2>2, Zenon DEF Owns
<1>11. Sound(task, worker, queue, done, freed) /\ exc = "none"
  BY Zenon DEF IInv
<1>12. Sound(task, [worker EXCEPT ![w] = k], queue, done, fr2)
  <2>1. fr2 \subseteq done /\ queue \in Seq(DOMAIN task) /\ NoDuplicates(queue) /\ Queued(task, queue)
        /\ worker[w].pc # "function"
    BY <1>1, <1>2, <1>3, Zenon
  <2> QED BY <1>10, <1>11, <2>1, WorkerMoves, Zenon
<1> QED BY <1>1, <1>6, <1>11, <1>12, Zenon DEF IInv

\* The callback records the task as finished.
LEMMA InsertFinishedSound == ASSUME IInv, NEW w \in Workers, InsertFinished(w) PROVE IInv'
<1> DEFINE t == Mine(w)
<1>1. /\ worker[w].pc = "insert" /\ UNCHANGED <<queue, task, freed, exc>> /\ done' = done \cup {t}
      /\ Go(w, "delete") /\ "delete" \in Pcs
  BY Zenon DEF InsertFinished, At, Pcs
<1>2. worker \in [Workers -> WorkerRecs]
  BY Holder, Zenon
<1>6. PICK k \in WorkerRecs : worker' = [worker EXCEPT ![w] = k] /\ k.pc = "delete" /\ k.task = worker[w].task
  BY <1>1, <1>2, WorkerWent
<1>7. worker[w].task = t /\ k.task = t
  BY <1>6, Zenon DEF Mine
<1>11. Sound(task, worker, queue, done, freed) /\ exc = "none"
  BY Zenon DEF IInv
<1>12. Sound(task, [worker EXCEPT ![w] = k], queue, done \cup {t}, freed)
  <2>1. worker[w].pc = "insert" /\ k.pc = "delete"
    BY <1>1, <1>6, Zenon
  <2> HIDE DEF t
  <2> QED BY <1>7, <1>11, <2>1, LabelRecorded, Zenon
<1> QED BY <1>1, <1>6, <1>11, <1>12, Zenon DEF IInv

\* Task::run initializes a new task, or goes on with a suspended one.
LEMMA RunTaskSound == ASSUME IInv, NEW w \in Workers, RunTask(w) PROVE IInv'
<1> DEFINE t == Mine(w)
<1>1. worker[w].pc = "run" /\ HoldsTask(worker[w])
  BY Zenon DEF RunTask, At, HoldsTask
<1>2. /\ worker \in [Workers -> WorkerRecs] /\ task \in [DOMAIN task -> TaskRecs] /\ t \in DOMAIN task
      /\ task[t] \in TaskRecs /\ Fits(worker[w], task[t], done, freed) /\ TaskFits(task[t], t, done)
  BY <1>1, Holder, Zenon
<1>3. Ready(task[t]) /\ task[t].deps \subseteq done
  BY <1>1, <1>2, Zenon DEF Fits
<1>4. task[t].state \in {"uninitialized", "suspended"} /\ ~task[t].entered /\ ~task[t].ended
      /\ task[t].stage \in {"begin", "sum"}
  BY <1>3, Zenon DEF Ready, New, Awake
<1> DEFINE x == IF task[t].state = "uninitialized" THEN "initialized" ELSE task[t].state
<1>5. /\ task' = [task EXCEPT ![t].state = x] /\ Go(w, "resume") /\ "resume" \in Pcs
      /\ UNCHANGED <<queue, done, freed, exc>>
  BY <1>4, Zenon DEF RunTask, Task, Pcs
<1>6. x \in States /\ x \in {"initialized", "suspended"}
  BY <1>4, Zenon DEF States
<1> HIDE DEF x
<1>7. PICK k \in WorkerRecs : worker' = [worker EXCEPT ![w] = k] /\ k.pc = "resume" /\ k.task = worker[w].task
  BY <1>2, <1>5, WorkerWent
<1>8. PICK r \in TaskRecs :
        /\ task' = [task EXCEPT ![t] = r]
        /\ r.into = task[t].into /\ r.deps = task[t].deps /\ r.state = x /\ r.entered = task[t].entered
        /\ r.ended = task[t].ended /\ r.stage = task[t].stage /\ r.children = task[t].children
  <2>1. task[t] \in TaskRecs /\ x \in States
    BY <1>2, <1>5, <1>6, Zenon
  <2>2. task' = [task EXCEPT ![t] = WithState(task[t], x)]
    BY <1>5, Zenon DEF WithState
  <2> QED BY <2>1, <2>2, StateSet, Zenon
<1>9. HoldsTask(k) /\ Fits(k, r, done, freed) /\ k.task = t
  BY <1>3, <1>4, <1>6, <1>7, <1>8, Zenon DEF HoldsTask, Fits, Mine
<1>10. ~InTheMiddle(r) /\ SameFamily(task[t], r)
  BY <1>4, <1>8, Zenon DEF InTheMiddle, SameFamily
<1>11. TaskFits(r, t, done)
  BY <1>2, <1>4, <1>8, Zenon DEF TaskFits
<1> QED BY <1>1, <1>5, <1>7, <1>8, <1>9, <1>10, <1>11, OwnStepSound, Zenon

\* The coroutine is resumed.
LEMMA ResumeSound == ASSUME IInv, NEW w \in Workers, Resume(w) PROVE IInv'
<1> DEFINE t == Mine(w)
<1>1. worker[w].pc = "resume" /\ HoldsTask(worker[w])
  BY Zenon DEF Resume, At, HoldsTask
<1>2. /\ worker \in [Workers -> WorkerRecs] /\ task \in [DOMAIN task -> TaskRecs] /\ t \in DOMAIN task
      /\ task[t] \in TaskRecs /\ Fits(worker[w], task[t], done, freed) /\ TaskFits(task[t], t, done)
  BY <1>1, Holder, Zenon
<1>4. /\ task[t].state \in {"initialized", "suspended"} /\ ~task[t].entered /\ ~task[t].ended
      /\ task[t].stage \in {"begin", "sum"} /\ task[t].deps \subseteq done
  BY <1>1, <1>2, Zenon DEF Fits
<1>5. /\ task' = [task EXCEPT ![t].state = "running", ![t].entered = TRUE] /\ Go(w, "function") /\ "function" \in Pcs
      /\ UNCHANGED <<queue, done, freed, exc>>
  BY <1>4, Zenon DEF Resume, Task, Pcs
<1>7. PICK k \in WorkerRecs : worker' = [worker EXCEPT ![w] = k] /\ k.pc = "function" /\ k.task = worker[w].task
  BY <1>2, <1>5, WorkerWent
<1>8. PICK r \in TaskRecs :
        /\ task' = [task EXCEPT ![t] = r]
        /\ r.into = task[t].into /\ r.deps = task[t].deps /\ r.state = "running" /\ r.entered
        /\ r.ended = task[t].ended /\ r.stage = task[t].stage /\ r.children = task[t].children
  BY <1>2, <1>5, RunningSet, Zenon
<1>9. HoldsTask(k) /\ Fits(k, r, done, freed) /\ k.task = t
  BY <1>4, <1>7, <1>8, Zenon DEF HoldsTask, Fits, Mine
<1>10. ~InTheMiddle(r) /\ SameFamily(task[t], r)
  BY <1>4, <1>8, Zenon DEF InTheMiddle, SameFamily
<1>11. TaskFits(r, t, done)
  BY <1>2, <1>4, <1>8, Zenon DEF TaskFits
<1> QED BY <1>1, <1>5, <1>7, <1>8, <1>9, <1>10, <1>11, OwnStepSound, Zenon

\* After the coroutine has come back, Task::run looks whether it has ended.
LEMMA CheckFinalizationSound == ASSUME IInv, NEW w \in Workers, CheckFinalization(w) PROVE IInv'
<1> DEFINE t == Mine(w)
           x == IF task[t].ended THEN "finished" ELSE task[t].state
           k == [worker[w] EXCEPT !.seen = x, !.pc = "callback"]
<1>1. worker[w].pc = "after" /\ HoldsTask(worker[w]) /\ task' = [task EXCEPT ![t].state = x]
      /\ UNCHANGED <<queue, done, freed>>
  BY Zenon DEF CheckFinalization, At, HoldsTask, Task
<1>2. /\ worker \in [Workers -> WorkerRecs] /\ task \in [DOMAIN task -> TaskRecs] /\ t \in DOMAIN task
      /\ worker[w] \in WorkerRecs
      /\ task[t] \in TaskRecs /\ Fits(worker[w], task[t], done, freed) /\ TaskFits(task[t], t, done)
  BY <1>1, Holder, Zenon
<1>3. (task[t].ended \/ Awake(task[t])) /\ worker[w].task \notin done
  BY <1>1, <1>2, Zenon DEF Fits
<1>4. x \in {"suspended", "finished"} /\ x \in States
  BY <1>3, Zenon DEF Awake, States
<1>5. exc' = exc /\ worker' = [worker EXCEPT ![w] = k]
  BY <1>4, Zenon DEF CheckFinalization, Task
<1>6. (x = "finished" /\ task[t].ended) \/ (x = "suspended" /\ Awake(task[t]))
  BY <1>3, Zenon DEF Awake
<1> HIDE DEF x
<1>7. k \in WorkerRecs /\ k.pc = "callback" /\ k.task = worker[w].task /\ k.seen = x
  BY <1>2, <1>4, Zenon DEF WorkerRecs
<1> HIDE DEF k
<1>8. PICK r \in TaskRecs :
        /\ task' = [task EXCEPT ![t] = r]
        /\ r.into = task[t].into /\ r.deps = task[t].deps /\ r.state = x /\ r.entered = task[t].entered
        /\ r.ended = task[t].ended /\ r.stage = task[t].stage /\ r.children = task[t].children
  <2>1. task[t] \in TaskRecs /\ x \in States
    BY <1>1, <1>2, <1>4, Zenon
  <2>2. task' = [task EXCEPT ![t] = WithState(task[t], x)]
    BY <1>1, Zenon DEF WithState
  <2> QED BY <2>1, <2>2, StateSet, Zenon
<1>9. HoldsTask(k) /\ k.task = t
  BY <1>7, Zenon DEF HoldsTask, Mine
<1>a. Fits(k, r, done, freed)
  BY <1>3, <1>6, <1>7, <1>8, Zenon DEF Fits, Awake
<1>10. ~InTheMiddle(r)
  BY <1>2, <1>6, <1>8, Zenon DEF InTheMiddle, TaskFits, Awake
<1>b. SameFamily(task[t], r)
  BY <1>8, Zenon DEF SameFamily
<1>11. TaskFits(r, t, done)
  <2>1. t \notin done
    BY <1>3, Zenon DEF Mine
  <2> QED BY <1>2, <1>8, <2>1, Zenon DEF TaskFits, InTheMiddle
<1> QED BY <1>1, <1>5, <1>7, <1>8, <1>9, <1>a, <1>10, <1>b, <1>11, OwnStepSound, Zenon

\* In its function a task is entered and has not ended.
LEMMA FunctionTask ==
  ASSUME IInv, NEW w \in Workers, NEW s, InFunction(w, s)
  PROVE  /\ worker[w].pc = "function" /\ HoldsTask(worker[w]) /\ task[Mine(w)].stage = s
         /\ worker \in [Workers -> WorkerRecs] /\ task \in [DOMAIN task -> TaskRecs] /\ Mine(w) \in DOMAIN task
         /\ worker[w] \in WorkerRecs
         /\ task[Mine(w)] \in TaskRecs /\ TaskFits(task[Mine(w)], Mine(w), done) /\ HasParent(task, Mine(w))
         /\ task[Mine(w)].entered /\ ~task[Mine(w)].ended
         /\ s = "yield" => task[Mine(w)].state = "suspended"
         /\ s # "yield" => task[Mine(w)].state = "running" /\ task[Mine(w)].deps \subseteq done
         /\ Mine(w) \notin done /\ worker[w].task = Mine(w)
<1>1. worker[w].pc = "function" /\ HoldsTask(worker[w]) /\ task[Mine(w)].stage = s
  BY Zenon DEF InFunction, At, HoldsTask, Task
<1>2. /\ worker \in [Workers -> WorkerRecs] /\ task \in [DOMAIN task -> TaskRecs] /\ Mine(w) \in DOMAIN task
      /\ worker[w] \in WorkerRecs /\ HasParent(task, Mine(w))
      /\ task[Mine(w)] \in TaskRecs /\ Fits(worker[w], task[Mine(w)], done, freed) /\ TaskFits(task[Mine(w)], Mine(w), done)
  BY <1>1, Holder, Zenon
<1>3. /\ task[Mine(w)].entered /\ ~task[Mine(w)].ended
      /\ s = "yield" => task[Mine(w)].state = "suspended"
      /\ s # "yield" => task[Mine(w)].state = "running" /\ task[Mine(w)].deps \subseteq done
  BY <1>1, <1>2, Zenon DEF Fits
<1>4. Mine(w) \notin done
  BY <1>2, <1>3, Zenon DEF TaskFits
<1> QED BY <1>1, <1>2, <1>3, <1>4, Zenon DEF Mine

\* A function counts its next child.
LEMMA CountTaskSound == ASSUME IInv, NEW w \in Workers, CountTask(w) PROVE IInv'
<1> DEFINE t == Mine(w)
<1>1. PICK s, s2 : /\ InFunction(w, s) /\ Stage(w, s2)
                   /\ (s = "count1" /\ s2 = "push1") \/ (s = "count2" /\ s2 = "push2")
  BY Zenon DEF CountTask
<1>2. /\ worker[w].pc = "function" /\ HoldsTask(worker[w]) /\ task[t].stage = s
      /\ worker \in [Workers -> WorkerRecs] /\ task \in [DOMAIN task -> TaskRecs] /\ t \in DOMAIN task
      /\ worker[w] \in WorkerRecs
      /\ task[t] \in TaskRecs /\ TaskFits(task[t], t, done) /\ task[t].entered /\ ~task[t].ended
      /\ task[t].state = "running" /\ task[t].deps \subseteq done /\ worker[w].task = t
  BY <1>1, FunctionTask, Zenon
<1>3. task' = [task EXCEPT ![t].stage = s2] /\ s2 \in Stages /\ UNCHANGED <<queue, done, freed, exc, worker>>
  BY <1>1, Zenon DEF Stage, Stages, CountTask
<1>7. worker' = [worker EXCEPT ![w] = worker[w]]
  BY <1>2, <1>3, Zenon
<1>8. PICK r \in TaskRecs :
        /\ task' = [task EXCEPT ![t] = r]
        /\ r.into = task[t].into /\ r.deps = task[t].deps /\ r.state = task[t].state /\ r.entered = task[t].entered
        /\ r.ended = task[t].ended /\ r.stage = s2 /\ r.children = task[t].children
  <2>1. task[t] \in TaskRecs /\ s2 \in Stages
    BY <1>2, <1>3, Zenon
  <2>2. task' = [task EXCEPT ![t] = AtStage(task[t], s2)]
    BY <1>3, Zenon DEF AtStage
  <2> QED BY <2>1, <2>2, StageSet, Zenon
<1>9. Fits(worker[w], r, done, freed)
  BY <1>1, <1>2, <1>8, Zenon DEF Fits
<1>10. SameFamily(task[t], r)
  BY <1>1, <1>2, <1>8, Zenon DEF SameFamily, Waits
<1>11. TaskFits(r, t, done)
  BY <1>2, <1>8, Zenon DEF TaskFits
<1> QED BY <1>2, <1>3, <1>7, <1>8, <1>9, <1>10, <1>11, OwnStepSound, Zenon

\* A function makes its task depend on the children and suspends it.
LEMMA SuspendTaskSound == ASSUME IInv, NEW w \in Workers, SuspendTask(w) PROVE IInv'
<1> DEFINE t == Mine(w)
<1>1. InFunction(w, "depend")
  BY Zenon DEF SuspendTask
<1>2. /\ worker[w].pc = "function" /\ HoldsTask(worker[w]) /\ task[t].stage = "depend"
      /\ worker \in [Workers -> WorkerRecs] /\ task \in [DOMAIN task -> TaskRecs] /\ t \in DOMAIN task
      /\ worker[w] \in WorkerRecs
      /\ task[t] \in TaskRecs /\ TaskFits(task[t], t, done) /\ task[t].entered /\ ~task[t].ended
      /\ task[t].state = "running" /\ worker[w].task = t
  BY <1>1, FunctionTask
<1>3. /\ task' = [task EXCEPT ![t].deps = @ \cup Range(task[t].children), ![t].state = "suspended", ![t].stage = "yield"]
      /\ UNCHANGED <<queue, done, freed, exc, worker>>
  BY <1>2, Zenon DEF SuspendTask, Task
<1>7. worker' = [worker EXCEPT ![w] = worker[w]]
  BY <1>2, <1>3, Zenon
<1>8. PICK r \in TaskRecs :
        /\ task' = [task EXCEPT ![t] = r]
        /\ r.into = task[t].into /\ r.deps = task[t].deps \cup Range(task[t].children) /\ r.state = "suspended"
        /\ r.entered = task[t].entered
        /\ r.ended = task[t].ended /\ r.stage = "yield" /\ r.children = task[t].children
  <2> DEFINE d == task[t].deps \cup Range(task[t].children)
  <2>1. task[t] \in TaskRecs /\ d \in SUBSET Nat
    BY <1>2, DepsGrow, Zenon
  <2>2. task' = [task EXCEPT ![t] = WithDeps(task[t], d)]
    BY <1>2, <1>3, Zenon DEF WithDeps
  <2>3. LET r == WithDeps(task[t], d) IN
        /\ r \in TaskRecs
        /\ r.into = task[t].into /\ r.deps = d /\ r.state = "suspended" /\ r.entered = task[t].entered
        /\ r.ended = task[t].ended /\ r.stage = "yield" /\ r.children = task[t].children
    <3> HIDE DEF d
    <3> QED BY <2>1, SuspendedSet, Zenon
  <2> QED BY <2>2, <2>3, Zenon
<1>9. Fits(worker[w], r, done, freed)
  BY <1>2, <1>8, Zenon DEF Fits
<1>10. SameFamily(task[t], r)
  BY <1>2, <1>8, Zenon DEF SameFamily, Waits
<1>11. TaskFits(r, t, done)
  BY <1>2, <1>8, Zenon DEF TaskFits
<1> QED BY <1>2, <1>3, <1>7, <1>8, <1>9, <1>10, <1>11, OwnStepSound, Zenon

\* The coroutine yields.
LEMMA YieldSound == ASSUME IInv, NEW w \in Workers, Yield(w) PROVE IInv'
<1> DEFINE t == Mine(w)
<1>1. InFunction(w, "yield")
  BY Zenon DEF Yield
<1>2. /\ worker[w].pc = "function" /\ HoldsTask(worker[w]) /\ task[t].stage = "yield"
      /\ worker \in [Workers -> WorkerRecs] /\ task \in [DOMAIN task -> TaskRecs] /\ t \in DOMAIN task
      /\ task[t] \in TaskRecs /\ TaskFits(task[t], t, done) /\ ~task[t].ended
      /\ task[t].state = "suspended" /\ worker[w].task = t /\ t \notin done
  BY <1>1, FunctionTask, Zenon
<1>3. /\ task' = [task EXCEPT ![t].entered = FALSE, ![t].stage = "sum"]
      /\ UNCHANGED <<queue, done, freed, exc>> /\ Go(w, "after") /\ "after" \in Pcs
  BY Zenon DEF Yield, Pcs
<1>7. PICK k \in WorkerRecs : worker' = [worker EXCEPT ![w] = k] /\ k.pc = "after" /\ k.task = worker[w].task
  BY <1>2, <1>3, WorkerWent
<1>8. PICK r \in TaskRecs :
        /\ task' = [task EXCEPT ![t] = r]
        /\ r.into = task[t].into /\ r.deps = task[t].deps /\ r.state = task[t].state /\ ~r.entered
        /\ r.ended = task[t].ended /\ r.stage = "sum" /\ r.children = task[t].children
  BY <1>2, <1>3, YieldSet, Zenon
<1>9. HoldsTask(k) /\ k.task = t /\ Fits(k, r, done, freed)
  BY <1>2, <1>7, <1>8, Zenon DEF Fits, HoldsTask, Awake
<1>10. SameFamily(task[t], r) /\ ~InTheMiddle(r)
  BY <1>2, <1>8, Zenon DEF SameFamily, Waits, InTheMiddle
<1>11. TaskFits(r, t, done)
  BY <1>2, <1>8, Zenon DEF TaskFits
<1> QED BY <1>2, <1>3, <1>7, <1>8, <1>9, <1>10, <1>11, OwnStepSound, Zenon

\* The function returns, and its result goes to the parent's stack.
LEMMA ReturnSound ==
  ASSUME IInv, NEW w \in Workers, NEW s \in {"begin", "sum"}, InFunction(w, s), NEW value \in Nat, Return(w, value)
  PROVE  IInv'
<1> DEFINE t == Mine(w)
           p == task[t].into[1]
           j == task[t].into[2]
           ended == [task EXCEPT ![t].ended = TRUE, ![t].entered = FALSE]
<1>2. /\ worker[w].pc = "function" /\ HoldsTask(worker[w]) /\ task[t].stage = s
      /\ worker \in [Workers -> WorkerRecs] /\ task \in [DOMAIN task -> TaskRecs] /\ t \in DOMAIN task
      /\ task[t] \in TaskRecs /\ TaskFits(task[t], t, done) /\ HasParent(task, t) /\ ~task[t].ended
      /\ task[t].state = "running" /\ task[t].deps \subseteq done /\ worker[w].task = t /\ t \notin done
  BY FunctionTask, Zenon
<1>3. /\ p = NoTask => task' = ended
      /\ p # NoTask => task' = [ended EXCEPT ![p].results[j] = value]
      /\ UNCHANGED <<queue, done, freed, exc>> /\ Go(w, "after") /\ "after" \in Pcs
  BY Zenon DEF Return, Pcs
<1>7. PICK k \in WorkerRecs : worker' = [worker EXCEPT ![w] = k] /\ k.pc = "after" /\ k.task = worker[w].task
  BY <1>2, <1>3, WorkerWent
<1>8. PICK r \in TaskRecs :
        /\ ended = [task EXCEPT ![t] = r]
        /\ r.into = task[t].into /\ r.deps = task[t].deps /\ r.state = task[t].state /\ ~r.entered
        /\ r.ended /\ r.stage = task[t].stage /\ r.children = task[t].children
  BY <1>2, EndedSet, Zenon
<1> HIDE DEF ended
<1>9. HoldsTask(k) /\ k.task = t /\ Fits(k, r, done, freed)
  BY <1>2, <1>7, <1>8, Zenon DEF Fits, HoldsTask
<1>10. SameFamily(task[t], r) /\ ~InTheMiddle(r)
  BY <1>2, <1>8, Zenon DEF SameFamily, InTheMiddle
<1>11. TaskFits(r, t, done)
  BY <1>2, <1>8, <1>10, Zenon DEF TaskFits
<1>12. Sound(task, worker, queue, done, freed) /\ exc = "none"
  BY Zenon DEF IInv
<1>13. Sound(ended, [worker EXCEPT ![w] = k], queue, done, freed)
  <2>1. worker[w].task = t /\ HoldsTask(worker[w]) /\ (InTheMiddle(r) => k.pc = "function")
    BY <1>2, <1>10, Zenon
  <2>2. Sound([task EXCEPT ![t] = r], [worker EXCEPT ![w] = k], queue, done, freed)
    <3> HIDE DEF t
    <3> QED BY <1>9, <1>10, <1>11, <1>12, <2>1, OwnChange, Zenon
  <2> QED BY <1>8, <2>2, Zenon
<1>14. CASE p = NoTask
  BY <1>3, <1>7, <1>12, <1>13, <1>14, Zenon DEF IInv
<1>15. CASE p # NoTask
  <2>1. p \in DOMAIN task /\ j \in {1, 2}
    BY <1>2, <1>15, Zenon DEF HasParent, TaskRecs
  <2>2. ended \in [DOMAIN task -> TaskRecs] /\ DOMAIN ended = DOMAIN task
    BY <1>2, <1>8, Zenon
  <2> HIDE DEF p, j
  <2>3. PICK y \in TaskRecs : WithResult(ended, p, j, value) = [ended EXCEPT ![p] = y] /\ SameControl(ended[p], y)
    BY <2>1, <2>2, ResultSet
  <2>5. task' = WithResult(ended, p, j, value)
    BY <1>3, <1>15, Zenon DEF WithResult, p, j
  <2>4. Sound([ended EXCEPT ![p] = y], [worker EXCEPT ![w] = k], queue, done, freed)
    <3>1. p \in DOMAIN ended /\ SameControl(ended[p], y)
      BY <2>1, <2>2, <2>3, Zenon
    <3> QED BY <1>13, <3>1, ResultWritten, Zenon
  <2> QED BY <1>3, <1>7, <1>12, <1>15, <2>3, <2>4, <2>5, Zenon DEF IInv
<1> QED BY <1>14, <1>15, Zenon

\* The function returns, with or without children.
LEMMA ReturnsSound == ASSUME IInv, NEW w \in Workers, ReturnAtOnce(w) \/ ReturnSum(w) PROVE IInv'
<1>1. CASE ReturnAtOnce(w)
  <2>1. InFunction(w, "begin") /\ Return(w, Task(w).arg)
    BY <1>1, Zenon DEF ReturnAtOnce
  <2>2. task[Mine(w)] \in TaskRecs
    BY <2>1, FunctionTask, Zenon
  <2>3. Task(w).arg \in Nat
    BY <2>2, Zenon DEF Task, TaskRecs
  <2> QED BY <2>1, <2>3, ReturnSound, Zenon
<1>2. CASE ReturnSum(w)
  <2>1. InFunction(w, "sum") /\ Return(w, Task(w).results[1] + Task(w).results[2])
    BY <1>2, Zenon DEF ReturnSum
  <2>2. task[Mine(w)] \in TaskRecs
    BY <2>1, FunctionTask, Zenon
  <2>3. Task(w).results[1] \in Nat /\ Task(w).results[2] \in Nat
    BY <2>2 DEF Task, TaskRecs
  <2>4. Task(w).results[1] + Task(w).results[2] \in Nat
    BY <2>3
  <2> QED BY <2>1, <2>4, ReturnSound, Zenon
<1> QED BY <1>1, <1>2, Zenon

\* A function puts its next child into the queue.
LEMMA PushTaskSound == ASSUME IInv, NEW w \in Workers, PushTask(w) PROVE IInv'
<1> DEFINE t == Mine(w)
<1>0. \E j \in {1, 2}, s \in {"push1", "push2"}, s2 \in {"count2", "depend"} :
        /\ InFunction(w, s) /\ Stage(w, s2) /\ queue' = Append(queue, task[t].children[j])
        /\ (s = "push1" /\ j = 1 /\ s2 = "count2") \/ (s = "push2" /\ j = 2 /\ s2 = "depend")
  <2>1. CASE InFunction(w, "push1") /\ QueuePush(Task(w).children[1]) /\ Stage(w, "count2")
    <3>1. queue' = Append(queue, task[t].children[1])
      BY <2>1, Zenon DEF QueuePush, Task
    <3> HIDE DEF t
    <3> QED BY <2>1, <3>1, Zenon
  <2>2. CASE InFunction(w, "push2") /\ QueuePush(Task(w).children[2]) /\ Stage(w, "depend")
    <3>1. queue' = Append(queue, task[t].children[2])
      BY <2>2, Zenon DEF QueuePush, Task
    <3> HIDE DEF t
    <3> QED BY <2>2, <3>1, Zenon
  <2> QED BY <2>1, <2>2, Zenon DEF PushTask
<1>1. PICK j \in {1, 2}, s \in {"push1", "push2"}, s2 \in {"count2", "depend"} :
        /\ InFunction(w, s) /\ Stage(w, s2) /\ queue' = Append(queue, task[t].children[j])
        /\ (s = "push1" /\ j = 1 /\ s2 = "count2") \/ (s = "push2" /\ j = 2 /\ s2 = "depend")
  BY <1>0, Zenon
<1>2. /\ worker[w].pc = "function" /\ task[t].stage = s
      /\ task \in [DOMAIN task -> TaskRecs] /\ t \in DOMAIN task /\ task[t] \in TaskRecs /\ worker[w].task = t
  BY <1>1, FunctionTask, Zenon
<1>3. task' = [task EXCEPT ![t].stage = s2] /\ s2 \in Stages /\ UNCHANGED <<done, freed, exc, worker>>
  BY <1>1, Zenon DEF Stage, Stages, PushTask
<1>8. PICK r \in TaskRecs :
        /\ task' = [task EXCEPT ![t] = r]
        /\ r.into = task[t].into /\ r.deps = task[t].deps /\ r.state = task[t].state /\ r.entered = task[t].entered
        /\ r.ended = task[t].ended /\ r.stage = s2 /\ r.children = task[t].children
  <2>1. task[t] \in TaskRecs /\ s2 \in Stages
    BY <1>2, <1>3, Zenon
  <2>2. task' = [task EXCEPT ![t] = AtStage(task[t], s2)]
    BY <1>3, Zenon DEF AtStage
  <2> QED BY <2>1, <2>2, StageSet, Zenon
<1>9. PastPush(task[t], r, j)
  BY <1>1, <1>2, <1>8, Zenon DEF PastPush
<1>12. Sound(task, worker, queue, done, freed) /\ exc = "none"
  BY Zenon DEF IInv
<1>13. Sound([task EXCEPT ![t] = r], worker, Append(queue, task[t].children[j]), done, freed)
  <2>1. worker[w].pc = "function" /\ worker[w].task = t /\ j \in {1, 2} /\ r \in TaskRecs
    BY <1>2, Zenon
  <2> HIDE DEF t
  <2> QED BY <1>9, <1>12, <2>1, ChildPushed, Zenon
<1> QED BY <1>1, <1>3, <1>8, <1>12, <1>13, Zenon DEF IInv

\* The tasks once the function of t has constructed two more, from label a on.
WithTwo(s, a) == [s EXCEPT !.stage = "count1", !.children = <<a, a + 1>>]
Created(tk, t, a) ==
  [l \in DOMAIN tk \cup {a, a + 1} |->
     CASE l = t -> WithTwo(tk[t], a)
       [] l = a -> NewTask(tk[t].arg - 1, <<t, 1>>, {})
       [] l = a + 1 -> NewTask(tk[t].arg - 2, <<t, 2>>, {})
       [] OTHER -> tk[l]]

\* A task that has created two children knows their labels.
LEMMA WithTwoIsParent ==
  ASSUME NEW s \in TaskRecs, NEW a \in Nat
  PROVE  WithTwo(s, a) \in TaskRecs /\ IsParent(s, WithTwo(s, a), a, a + 1)
<1> DEFINE c == <<a, a + 1>>
<1>1. c \in Seq(Nat) /\ c[1] = a /\ c[2] = a + 1 /\ DOMAIN c = 1 .. 2
  OBVIOUS
<1>2. a \in Range(c) /\ a + 1 \in Range(c)
  <2>1. 1 \in DOMAIN c /\ 2 \in DOMAIN c
    BY <1>1
  <2> HIDE DEF c
  <2> QED BY <1>1, <2>1, Zenon DEF Range
<1>3. WithTwo(s, a) = [s EXCEPT !.stage = "count1", !.children = c]
  BY Zenon DEF WithTwo
<1> HIDE DEF c
<1>4. WithTwo(s, a) \in TaskRecs
  BY <1>1, <1>3, Zenon DEF TaskRecs, Stages
<1>5. WithTwo(s, a).children = c
  BY <1>3, Zenon DEF TaskRecs
<1>6. /\ WithTwo(s, a).stage = "count1" /\ WithTwo(s, a).into = s.into /\ WithTwo(s, a).deps = s.deps
      /\ WithTwo(s, a).state = s.state /\ WithTwo(s, a).entered = s.entered /\ WithTwo(s, a).ended = s.ended
  BY <1>3, Zenon DEF TaskRecs
<1> QED BY <1>1, <1>2, <1>4, <1>5, <1>6, Zenon DEF IsParent

\* A constructed task is new, and knows where its result goes.
LEMMA NewTaskIsNew ==
  ASSUME NEW x \in Nat, NEW p \in Int, NEW j \in {1, 2}, NEW deps \in SUBSET Nat
  PROVE  /\ NewTask(x, <<p, j>>, deps) \in TaskRecs /\ IsChild(NewTask(x, <<p, j>>, deps), p, j)
         /\ NewTask(x, <<p, j>>, deps).deps = deps
<1>1. <<p, j>> \in Int \X {1, 2} /\ <<p, j>>[1] = p /\ <<p, j>>[2] = j
  BY Zenon
<1>2. <<0, 0>> \in [1 .. 2 -> Nat] /\ << >> \in Seq(Nat)
  OBVIOUS
<1> DEFINE into == <<p, j>>
           zeros == <<0, 0>>
           none == << >>
<1>3. NewTask(x, into, deps) = [arg |-> x, into |-> into, deps |-> deps, state |-> "uninitialized", entered |-> FALSE,
                                ended |-> FALSE, stage |-> "begin", children |-> none, results |-> zeros]
  BY Zenon DEF NewTask
<1>4. into \in Int \X {1, 2} /\ into[1] = p /\ into[2] = j /\ zeros \in [1 .. 2 -> Nat] /\ none \in Seq(Nat)
  BY <1>1, <1>2, Zenon
<1> HIDE DEF into, zeros, none
<1>5. NewTask(x, into, deps) \in TaskRecs
  BY <1>3, <1>4 DEF TaskRecs, States, Stages
<1>6. IsChild(NewTask(x, into, deps), p, j) /\ NewTask(x, into, deps).deps = deps
  BY <1>3, <1>4 DEF IsChild, New
<1> QED BY <1>5, <1>6, Zenon DEF into

\* Creating two children adds them, and changes nobody but the parent.
LEMMA CreatedTasks ==
  ASSUME NEW tk, tk \in [DOMAIN tk -> TaskRecs], NEW a \in Nat, DOMAIN tk = 0 .. a - 1, NEW t \in DOMAIN tk, tk[t].arg > 1
  PROVE  /\ Created(tk, t, a) \in [DOMAIN tk \cup {a, a + 1} -> TaskRecs]
         /\ IsParent(tk[t], Created(tk, t, a)[t], a, a + 1)
         /\ IsChild(Created(tk, t, a)[a], t, 1) /\ IsChild(Created(tk, t, a)[a + 1], t, 2)
         /\ \A u \in DOMAIN tk : u # t => Created(tk, t, a)[u] = tk[u]
<1>1. tk[t] \in TaskRecs /\ t \in Int /\ t # a /\ t # a + 1 /\ a # a + 1 /\ a \notin DOMAIN tk /\ a + 1 \notin DOMAIN tk
  OBVIOUS
<1>2. tk[t].arg \in Nat
  BY <1>1, Zenon DEF TaskRecs
<1>3. tk[t].arg - 1 \in Nat /\ tk[t].arg - 2 \in Nat
  BY <1>2
<1> DEFINE p == WithTwo(tk[t], a)
           x == NewTask(tk[t].arg - 1, <<t, 1>>, {})
           y == NewTask(tk[t].arg - 2, <<t, 2>>, {})
<1>4. p \in TaskRecs /\ IsParent(tk[t], p, a, a + 1)
  BY <1>1, WithTwoIsParent, Zenon
<1>5. x \in TaskRecs /\ IsChild(x, t, 1) /\ y \in TaskRecs /\ IsChild(y, t, 2)
  BY <1>1, <1>3, NewTaskIsNew, Zenon
<1>6. Created(tk, t, a) = [l \in DOMAIN tk \cup {a, a + 1} |-> CASE l = t -> p [] l = a -> x [] l = a + 1 -> y [] OTHER -> tk[l]]
  BY Zenon DEF Created
<1> HIDE DEF p, x, y
<1>7. \A l \in DOMAIN tk \cup {a, a + 1} :
        /\ l = t => Created(tk, t, a)[l] = p
        /\ l = a => Created(tk, t, a)[l] = x
        /\ l = a + 1 => Created(tk, t, a)[l] = y
        /\ l # t /\ l # a /\ l # a + 1 => Created(tk, t, a)[l] = tk[l]
  BY <1>1, <1>6, Zenon
<1>8. DOMAIN Created(tk, t, a) = DOMAIN tk \cup {a, a + 1} /\ Created(tk, t, a) = [l \in DOMAIN tk \cup {a, a + 1} |-> Created(tk, t, a)[l]]
  BY <1>6, Zenon
<1>9. \A l \in DOMAIN tk \cup {a, a + 1} : Created(tk, t, a)[l] \in TaskRecs
  <2> TAKE l \in DOMAIN tk \cup {a, a + 1}
  <2> QED BY <1>4, <1>5, <1>7, Zenon
<1>10. Created(tk, t, a) \in [DOMAIN tk \cup {a, a + 1} -> TaskRecs]
  BY <1>8, <1>9, Zenon
<1>11. Created(tk, t, a)[t] = p /\ Created(tk, t, a)[a] = x /\ Created(tk, t, a)[a + 1] = y
  BY <1>1, <1>7, Zenon
<1>12. \A u \in DOMAIN tk : u # t => Created(tk, t, a)[u] = tk[u]
  BY <1>1, <1>7, Zenon
<1> QED BY <1>4, <1>5, <1>10, <1>11, <1>12, Zenon

\* What a main program has set up: m new tasks, each once in the queue.
Begins(tk, q, m) ==
  /\ tk \in [0 .. m - 1 -> TaskRecs] /\ \A t \in 0 .. m - 1 : New(tk[t]) /\ tk[t].into[1] = NoTask
  /\ q \in Seq(0 .. m - 1) /\ NoDuplicates(q) /\ Len(q) = m

\* A task that main constructs has no parent.
LEMMA MainTask ==
  ASSUME NEW x \in Nat, NEW deps \in SUBSET Nat
  PROVE  NewTask(x, Main, deps) \in TaskRecs /\ New(NewTask(x, Main, deps)) /\ NewTask(x, Main, deps).into[1] = NoTask
<1>1. Main = <<NoTask, 1>> /\ NoTask \in Int
  BY DEF Main, NoTask
<1>2. NewTask(x, Main, deps) \in TaskRecs /\ IsChild(NewTask(x, Main, deps), NoTask, 1)
  <2> HIDE DEF NoTask
  <2> QED BY <1>1, NewTaskIsNew, Zenon
<1> QED BY <1>2, Zenon DEF IsChild

\* Labels of the abc programs, by kind and round.
LEMMA DivMod ==
  ASSUME NEW n \in Nat, n > 0, NEW k \in Nat, k < 3 * n
  PROVE  k = n * (k \div n) + (k % n) /\ k % n \in 0 .. n - 1 /\ k \div n \in 0 .. 2
<1>1. k \div n \in Nat
  OBVIOUS
<1>2. k = n * (k \div n) + (k % n)
  OBVIOUS
<1>3. k % n \in 0 .. n - 1
  OBVIOUS
<1> DEFINE d == k \div n
           r == k % n
<1>4. d \in Nat /\ k = n * d + r /\ r \in 0 .. n - 1
  BY <1>1, <1>2, <1>3, Zenon
<1> HIDE DEF d, r
<1>5. ASSUME d >= 3 PROVE FALSE
  <2>1. n * d >= n * 3
    BY <1>4, <1>5
  <2> QED BY <1>4, <2>1
<1>6. d \in 0 .. 2
  BY <1>4, <1>5
<1> QED BY <1>4, <1>6, Zenon DEF d, r

\* The tasks of the abc programs are a legal start.
LEMMA AbcBegins == ASSUME NEW n \in Nat PROVE Begins(AbcTasks(n).tasks, AbcTasks(n).order, 3 * n)
<1> DEFINE m == 3 * n
           e(i) == 3 * ((i - 1) % n) + 2 - (i - 1) \div n
           deps(t) == IF t = 0 THEN {} ELSE {t - 1}
           tk == [t \in 0 .. m - 1 |-> NewTask(0, Main, deps(t))]
           q == [i \in 1 .. m |-> e(i)]
<1>1. AbcTasks(n).tasks = tk /\ AbcTasks(n).order = q /\ m \in Nat
  BY DEF AbcTasks
<1>2. \A t \in 0 .. m - 1 : deps(t) \in SUBSET Nat
  OBVIOUS
<1> HIDE DEF deps
<1>3. \A t \in 0 .. m - 1 : NewTask(0, Main, deps(t)) \in TaskRecs /\ New(NewTask(0, Main, deps(t))) /\ NewTask(0, Main, deps(t)).into[1] = NoTask
  BY <1>2, MainTask, Zenon
<1>4. tk \in [0 .. m - 1 -> TaskRecs] /\ \A t \in 0 .. m - 1 : New(tk[t]) /\ tk[t].into[1] = NoTask
  BY <1>3, Zenon
<1>5. \A i \in 1 .. m : \E d \in 0 .. 2, r \in 0 .. n - 1 : i - 1 = n * d + r /\ e(i) = (3 * r + 2) - d
  <2> TAKE i \in 1 .. m
  <2>1. n > 0 /\ i - 1 \in Nat /\ i - 1 < 3 * n
    <3>1. i <= 3 * n /\ i >= 1 /\ i \in Int
      OBVIOUS
    <3> QED BY <3>1
  <2> DEFINE d == (i - 1) \div n
             r == (i - 1) % n
  <2>2. i - 1 = n * d + r /\ r \in 0 .. n - 1 /\ d \in 0 .. 2
    BY <2>1, DivMod, Zenon
  <2>3. e(i) = 3 * r + 2 - d
    BY Zenon
  <2> HIDE DEF d, r, e
  <2>4. e(i) = (3 * r + 2) - d
    BY <2>2, <2>3
  <2> QED BY <2>2, <2>4, Zenon
<1> HIDE DEF e
<1>6. \A i \in 1 .. m : e(i) \in 0 .. m - 1
  <2> TAKE i \in 1 .. m
  <2>1. PICK d \in 0 .. 2, r \in 0 .. n - 1 : i - 1 = n * d + r /\ e(i) = (3 * r + 2) - d
    BY <1>5, Zenon
  <2> QED BY <2>1
<1>7. \A i, j \in 1 .. m : e(i) = e(j) => i = j
  <2> TAKE i, j \in 1 .. m
  <2>1. PICK d \in 0 .. 2, r \in 0 .. n - 1 : i - 1 = n * d + r /\ e(i) = (3 * r + 2) - d
    BY <1>5, Zenon
  <2>2. PICK d2 \in 0 .. 2, r2 \in 0 .. n - 1 : j - 1 = n * d2 + r2 /\ e(j) = (3 * r2 + 2) - d2
    BY <1>5, Zenon
  <2> HAVE e(i) = e(j)
  <2>0. (3 * r + 2) - d = (3 * r2 + 2) - d2
    BY <2>1, <2>2, Zenon
  <2>3. d = d2 /\ r = r2
    BY <2>0
  <2>4. i - 1 = j - 1
    BY <2>1, <2>2, <2>3, Zenon
  <2> QED BY <2>4
<1>8. q \in Seq(0 .. m - 1) /\ Len(q) = m /\ DOMAIN q = 1 .. m
  <2>1. q \in [1 .. m -> 0 .. m - 1]
    BY <1>6, Zenon
  <2> HIDE DEF q, m
  <2> QED BY <1>1, <2>1
<1>9. NoDuplicates(q)
  BY <1>7, <1>8, Zenon DEF NoDuplicates
<1> HIDE DEF tk, q
<1> QED BY <1>1, <1>4, <1>8, <1>9, Zenon DEF Begins

\* So are the independent tasks of the work example.
LEMMA WorkBegins == ASSUME NEW n \in Nat PROVE Begins(ResourceList(n).tasks, ResourceList(n).order, n)
<1> DEFINE tk == [t \in 0 .. n - 1 |-> NewTask(0, Main, {})]
           q == [i \in 1 .. n |-> i - 1]
<1>1. ResourceList(n).tasks = tk /\ ResourceList(n).order = q
  BY Zenon DEF ResourceList
<1>2. NewTask(0, Main, {}) \in TaskRecs /\ New(NewTask(0, Main, {})) /\ NewTask(0, Main, {}).into[1] = NoTask
  BY MainTask, Zenon
<1>3. tk \in [0 .. n - 1 -> TaskRecs] /\ \A t \in 0 .. n - 1 : New(tk[t]) /\ tk[t].into[1] = NoTask
  BY <1>2, Zenon
<1>4. q \in Seq(0 .. n - 1) /\ Len(q) = n /\ DOMAIN q = 1 .. n
  OBVIOUS
<1>5. NoDuplicates(q)
  BY <1>4 DEF NoDuplicates
<1> HIDE DEF tk, q
<1> QED BY <1>1, <1>3, <1>4, <1>5, Zenon DEF Begins

\* So is the first fibonacci task.
LEMMA FibonacciBegins == ASSUME NEW x \in Nat PROVE Begins(FibonacciDriver(x).tasks, FibonacciDriver(x).order, 1)
<1> DEFINE tk == [t \in {0} |-> NewTask(x, Main, {})]
           q == <<0>>
<1>1. FibonacciDriver(x).tasks = tk /\ FibonacciDriver(x).order = q
  BY Zenon DEF FibonacciDriver
<1>2. NewTask(x, Main, {}) \in TaskRecs /\ New(NewTask(x, Main, {})) /\ NewTask(x, Main, {}).into[1] = NoTask
  BY MainTask, Zenon
<1>3. 0 .. 1 - 1 = {0}
  OBVIOUS
<1>4. tk \in [0 .. 1 - 1 -> TaskRecs] /\ \A t \in 0 .. 1 - 1 : New(tk[t]) /\ tk[t].into[1] = NoTask
  BY <1>2, <1>3, Zenon
<1>5. q \in Seq(0 .. 1 - 1) /\ Len(q) = 1 /\ NoDuplicates(q)
  BY <1>3 DEF NoDuplicates
<1> HIDE DEF tk, q
<1> QED BY <1>1, <1>4, <1>5, Zenon DEF Begins

\* So is whatever program was launched.
LEMMA LaunchedBegins == ASSUME program \in Programs PROVE \E m \in Nat : Begins(Launched.tasks, Launched.order, m)
<1>1. program.kind \in {"abc", "work", "fibonacci"} /\ program.size \in Nat
  BY Zenon
<1> DEFINE n == program.size
<1>2. CASE program.kind = "abc"
  <2>1. Launched.tasks = AbcTasks(n).tasks /\ Launched.order = AbcTasks(n).order
    BY <1>2, Zenon DEF Launched, AbcMain, Launch
  <2> QED BY <1>1, <2>1, AbcBegins
<1>3. CASE program.kind = "work"
  <2>1. Launched.tasks = ResourceList(n).tasks /\ Launched.order = ResourceList(n).order
    BY <1>3, Zenon DEF Launched, ResourceListMain, Launch
  <2> QED BY <1>1, <2>1, WorkBegins, Zenon
<1>4. CASE program.kind = "fibonacci"
  <2>1. Launched.tasks = FibonacciDriver(n).tasks /\ Launched.order = FibonacciDriver(n).order
    BY <1>4, Zenon DEF Launched, FibonacciMain, Launch
  <2> QED BY <1>1, <2>1, FibonacciBegins, Zenon
<1> QED BY <1>1, <1>2, <1>3, <1>4, Zenon

\* A legal start, with all workers idle, satisfies the invariant.
LEMMA BeginsSound ==
  ASSUME NEW m \in Nat, NEW tk, NEW q, Begins(tk, q, m), NEW wk, wk = [w \in Workers |-> IdleWorker]
  PROVE  Sound(tk, wk, q, {}, {})
<1>1. DOMAIN tk = 0 .. m - 1 /\ DOMAIN tk \in LabelSets
  BY Zenon DEF Begins, LabelSets
<1>2. \A w \in Workers : wk[w] \in WorkerRecs /\ wk[w].pc = "pull" /\ ~HoldsTask(wk[w])
  BY DEF IdleWorker, WorkerRecs, HoldsTask, NoTask
<1>3. Typed(tk, wk, q, {}, {})
  <2>1. wk \in [Workers -> WorkerRecs]
    BY <1>2, Zenon
  <2> QED BY <1>1, <2>1, Zenon DEF Typed, Begins
<1>4. Owners(tk, wk, q, {}, {}) /\ Apart(wk) /\ NoDuplicates(q)
  BY <1>2, Zenon DEF Owners, Apart, Begins
<1>5. \A t \in DOMAIN tk : New(tk[t]) /\ tk[t].into[1] = NoTask /\ NoTask \notin DOMAIN tk
  BY <1>1 DEF Begins, NoTask
<1>6. \A t \in DOMAIN tk : ~Pending(tk, t)
  BY <1>5, Zenon DEF Pending
<1>7. Queued(tk, q)
  <2>1. q \in Seq(DOMAIN tk)
    BY <1>1, Zenon DEF Begins
  <2>2. \A t \in Range(q) : t \in DOMAIN tk
    BY <2>1, QueuedLabel, Zenon
  <2> QED BY <1>5, <1>6, <2>2, Zenon DEF Queued, Ready
<1>8. Tasks(tk, wk, {})
  <2> SUFFICES ASSUME NEW t \in DOMAIN tk
               PROVE  TaskFits(tk[t], t, {}) /\ (Pending(tk, t) => New(tk[t])) /\ HasParent(tk, t) /\ HasChildren(tk, t)
                      /\ (InTheMiddle(tk[t]) => Runner(wk, t))
    BY Zenon DEF Tasks
  <2>1. TaskFits(tk[t], t, {}) /\ ~InTheMiddle(tk[t]) /\ HasChildren(tk, t)
    BY <1>5, Zenon DEF TaskFits, New, InTheMiddle, HasChildren
  <2>2. HasParent(tk, t)
    BY <1>5, Zenon DEF HasParent
  <2> QED BY <1>6, <2>1, <2>2, Zenon
<1> QED BY <1>3, <1>4, <1>7, <1>8, Zenon DEF Sound

\* The initial state satisfies the invariant.
LEMMA InitSound == Init => IInv
<1> SUFFICES ASSUME Init PROVE IInv
  BY Zenon
<1>1. PICK m \in Nat : Begins(Launched.tasks, Launched.order, m)
  BY LaunchedBegins, Zenon DEF Init
<1>2. /\ task = Launched.tasks /\ queue = Launched.order /\ worker = [w \in Workers |-> IdleWorker]
      /\ done = {} /\ freed = {} /\ exc = "none"
  BY Zenon DEF Init
<1>3. Begins(task, queue, m)
  BY <1>1, <1>2, Zenon
<1>4. Sound(task, worker, queue, {}, {})
  BY <1>2, <1>3, BeginsSound, Zenon
<1> QED BY <1>2, <1>4, Zenon DEF IInv

-----------------------------------------------------------------------------
(* The counter                                                              *)

\* A task that has been created, but not yet added to _taskCount: its parent, at
\* stage s, has still to count child k.
Uncounts(s, k) == s = "count1" \/ (k = 2 /\ s \in {"push1", "count2"})
Uncounted(tk, t) == tk[t].into[1] \in DOMAIN tk /\ Uncounts(tk[tk[t].into[1]].stage, tk[t].into[2])
Doing(wk, pc, t) == \E w \in Workers : wk[w].pc = pc /\ wk[w].task = t

\* The tasks that _taskCount stands for.
Open(tk, wk, dn) == {t \in DOMAIN tk : ~Uncounted(tk, t) /\ t \notin dn /\ ~Doing(wk, "insert", t)}

\* A worker leaves its loop only when the counter is zero.
Leaves(wk, c) == \A w \in Workers : wk[w].pc \in {"terminate", "exited"} => c = 0

Counted(tk, wk, dn, fr, c) ==
  /\ c = Cardinality(Open(tk, wk, dn)) /\ Leaves(wk, c)
  /\ \A t \in dn : t \in fr \/ Doing(wk, "delete", t)

Tally ==
  /\ Counted(task, worker, done, freed, count)
  /\ main = "returned" => \A w \in Workers : worker[w].pc = "exited"

\* The stages s and s2 leave the same children to be counted.
AlikeStage(s, s2) == \A k \in {1, 2} : Uncounts(s2, k) <=> Uncounts(s, k)

\* No task appears, and no task's count changes.
Quiet(tk, tk2) ==
  /\ DOMAIN tk2 = DOMAIN tk
  /\ \A u \in DOMAIN tk : tk2[u].into = tk[u].into /\ AlikeStage(tk[u].stage, tk2[u].stage)

\* A worker's move that concerns neither the label nor the deletion of a task.
Passes(j, k, c) ==
  /\ j.pc \notin {"insert", "delete"} /\ k.pc \notin {"insert", "delete"}
  /\ k.pc \in {"terminate", "exited"} => j.pc = "terminate" \/ c = 0

\* A step of a worker that opens and closes no task keeps the tally.
LEMMA CountedMoves ==
  ASSUME NEW tk, NEW tk2, NEW wk \in [Workers -> WorkerRecs], NEW dn, NEW fr, NEW c,
         tk \in [DOMAIN tk -> TaskRecs], Counted(tk, wk, dn, fr, c),
         NEW w \in Workers, NEW k, Passes(wk[w], k, c), Quiet(tk, tk2)
  PROVE  Counted(tk2, [wk EXCEPT ![w] = k], dn, fr, c)
<1> DEFINE wk2 == [wk EXCEPT ![w] = k]
<1>1. wk2[w] = k /\ \A v \in Workers : v # w => wk2[v] = wk[v]
  BY Zenon
<1> HIDE DEF wk2
<1>2. \A t : (Doing(wk2, "insert", t) <=> Doing(wk, "insert", t)) /\ (Doing(wk2, "delete", t) <=> Doing(wk, "delete", t))
  BY <1>1, Zenon DEF Doing, Passes
<1>3. \A t \in DOMAIN tk : Uncounted(tk2, t) <=> Uncounted(tk, t)
  <2> TAKE t \in DOMAIN tk
  <2>1. tk2[t].into = tk[t].into /\ DOMAIN tk2 = DOMAIN tk
    BY Zenon DEF Quiet
  <2>2. tk[t].into[2] \in {1, 2}
    BY Zenon DEF TaskRecs
  <2>3. ASSUME NEW p \in DOMAIN tk, NEW j \in {1, 2} PROVE Uncounts(tk2[p].stage, j) <=> Uncounts(tk[p].stage, j)
    BY Zenon DEF Quiet, AlikeStage
  <2> QED BY <2>1, <2>2, <2>3, Zenon DEF Uncounted
<1>4. Open(tk2, wk2, dn) = Open(tk, wk, dn)
  BY <1>2, <1>3, Zenon DEF Open, Quiet
<1>5. Leaves(wk2, c)
  BY <1>1, Zenon DEF Leaves, Passes, Counted
<1>6. \A t \in dn : t \in fr \/ Doing(wk2, "delete", t)
  BY <1>2, Zenon DEF Counted
<1> QED BY <1>4, <1>5, <1>6, Zenon DEF Counted, wk2

\* Tasks that do not change are quiet.
LEMMA QuietSame == ASSUME NEW tk PROVE Quiet(tk, tk)
  BY Zenon DEF Quiet, AlikeStage

\* So is one that stays with its children counted as they were.
LEMMA QuietSet ==
  ASSUME NEW D, NEW tk \in [D -> TaskRecs], NEW t \in D, NEW r, r.into = tk[t].into, AlikeStage(tk[t].stage, r.stage)
  PROVE  Quiet(tk, [tk EXCEPT ![t] = r])
<1>1. \A u : AlikeStage(tk[u].stage, tk[u].stage)
  BY Zenon DEF AlikeStage
<1> QED BY <1>1, Zenon DEF Quiet

\* Two quiet changes are one.
LEMMA QuietTwice == ASSUME NEW f, NEW g, NEW h, Quiet(f, g), Quiet(g, h) PROVE Quiet(f, h)
  BY Zenon DEF Quiet, AlikeStage

\* Stages between which no child is counted.
LEMMA Alike ==
  /\ \A s : AlikeStage(s, s)
  /\ AlikeStage("push1", "count2") /\ AlikeStage("push2", "depend")
  /\ AlikeStage("depend", "yield") /\ AlikeStage("yield", "sum")
  BY Zenon DEF AlikeStage, Uncounts

CountedNow == Counted(task, worker, done, freed, count)

\* A quiet step of a worker keeps the tally.
LEMMA QuietCounted ==
  ASSUME IInv, CountedNow, NEW w \in Workers, NEW k, worker' = [worker EXCEPT ![w] = k],
         Passes(worker[w], k, count), Quiet(task, task'), UNCHANGED <<count, done, freed>>
  PROVE  CountedNow'
<1>1. worker \in [Workers -> WorkerRecs] /\ task \in [DOMAIN task -> TaskRecs]
  BY Holder, Zenon
<1>2. Counted(task, worker, done, freed, count)
  BY Zenon DEF CountedNow
<1>3. Counted(task', [worker EXCEPT ![w] = k], done, freed, count)
  BY <1>1, <1>2, CountedMoves, Zenon
<1> QED BY <1>3, Zenon DEF CountedNow

\* The steps of checkWaitingTasks, awakenTask and the end of Task::run.
LEMMA LoopCounted ==
  ASSUME IInv, CountedNow, NEW w \in Workers,
         \/ CheckTaskCount(w) \/ PopTask(w) \/ CheckTaskReady(w) \/ Requeue(w)
         \/ OnTaskSuspend(w) \/ LeaveRun(w) \/ LoopReturns(w)
  PROVE  CountedNow'
<1>1. worker \in [Workers -> WorkerRecs]
  BY Holder, Zenon
<1>2. UNCHANGED <<task, count, done, freed>>
  BY Zenon DEF CheckTaskCount, PopTask, CheckTaskReady, Requeue, OnTaskSuspend, LeaveRun, LoopReturns
<1>3. Quiet(task, task')
  BY <1>2, QuietSame, Zenon
<1>4. ASSUME NEW pc \in Pcs \ {"insert", "delete"}, Go(w, pc), worker[w].pc \notin {"insert", "delete"},
             pc \in {"terminate", "exited"} => worker[w].pc = "terminate" \/ count = 0
      PROVE  CountedNow'
  <2>1. PICK k \in WorkerRecs : worker' = [worker EXCEPT ![w] = k] /\ k.pc = pc
    BY <1>1, <1>4, WorkerWent
  <2>2. Passes(worker[w], k, count)
    BY <1>4, <2>1, Zenon DEF Passes
  <2> QED BY <1>2, <1>3, <2>1, <2>2, QuietCounted, Zenon
<1>5. CASE CheckTaskCount(w)
  <2>1. CASE count = 0
    <3>1. Go(w, "terminate") /\ worker[w].pc = "pull"
      BY <1>5, <2>1, Zenon DEF CheckTaskCount, At
    <3> QED BY <1>4, <2>1, <3>1, Zenon DEF Pcs
  <2>2. CASE count # 0
    <3>1. Go(w, "pop") /\ worker[w].pc = "pull"
      BY <1>5, <2>2, Zenon DEF CheckTaskCount, At
    <3> QED BY <1>4, <3>1, Zenon DEF Pcs
  <2> QED BY <2>1, <2>2, Zenon
<1>6. CASE PopTask(w)
  <2>1. CASE queue = <<>>
    <3>1. Go(w, "pull") /\ worker[w].pc = "pop"
      BY <1>6, <2>1, Zenon DEF PopTask, At
    <3> QED BY <1>4, <3>1, Zenon DEF Pcs
  <2>2. CASE queue # <<>>
    <3> DEFINE k == [pc |-> "check", task |-> Head(queue), seen |-> "none"]
    <3>1. worker' = [worker EXCEPT ![w] = k] /\ worker[w].pc = "pop" /\ k.pc = "check"
      BY <1>6, <2>2, Zenon DEF PopTask, At
    <3> HIDE DEF k
    <3>2. Passes(worker[w], k, count)
      BY <3>1, Zenon DEF Passes
    <3> QED BY <1>2, <1>3, <3>1, <3>2, QuietCounted, Zenon
  <2> QED BY <2>1, <2>2, Zenon
<1>7. CASE CheckTaskReady(w)
  <2>1. PICK pc \in {"run", "requeue"} : Go(w, pc)
    BY <1>7, Zenon DEF CheckTaskReady
  <2>2. worker[w].pc = "check"
    BY <1>7, Zenon DEF CheckTaskReady, At
  <2> QED BY <1>4, <2>1, <2>2, Zenon DEF Pcs
<1>8. CASE Requeue(w)
  <2>1. Go(w, "pull") /\ worker[w].pc = "requeue"
    BY <1>8, Zenon DEF Requeue, At
  <2> QED BY <1>4, <2>1, Zenon DEF Pcs
<1>9. CASE OnTaskSuspend(w)
  <2>1. Go(w, "leave") /\ worker[w].pc = "callback"
    BY <1>9, Zenon DEF OnTaskSuspend, At
  <2> QED BY <1>4, <2>1, Zenon DEF Pcs
<1>10. CASE LeaveRun(w)
  <2>1. worker' = [worker EXCEPT ![w] = IdleWorker] /\ worker[w].pc = "leave" /\ IdleWorker.pc = "pull"
    BY <1>10, Zenon DEF LeaveRun, At, IdleWorker
  <2>2. Passes(worker[w], IdleWorker, count)
    BY <2>1, Zenon DEF Passes
  <2> QED BY <1>2, <1>3, <2>1, <2>2, QuietCounted, Zenon
<1>11. CASE LoopReturns(w)
  <2>1. Go(w, "exited") /\ worker[w].pc = "terminate"
    BY <1>11, Zenon DEF LoopReturns, At
  <2> QED BY <1>4, <2>1, Zenon DEF Pcs
<1> QED BY <1>5, <1>6, <1>7, <1>8, <1>9, <1>10, <1>11, Zenon

\* A change of a state is quiet.
LEMMA QuietState ==
  ASSUME NEW D, NEW tk \in [D -> TaskRecs], NEW t \in D, NEW x
  PROVE  Quiet(tk, [tk EXCEPT ![t].state = x])
<1> DEFINE r == [tk[t] EXCEPT !.state = x]
<1>1. [tk EXCEPT ![t].state = x] = [tk EXCEPT ![t] = r] /\ r.into = tk[t].into /\ r.stage = tk[t].stage
  BY Zenon DEF TaskRecs
<1> HIDE DEF r
<1>2. AlikeStage(tk[t].stage, r.stage)
  BY <1>1, Alike, Zenon
<1> QED BY <1>1, <1>2, QuietSet, Zenon

\* So is entering the coroutine.
LEMMA QuietRunning ==
  ASSUME NEW D, NEW tk \in [D -> TaskRecs], NEW t \in D
  PROVE  Quiet(tk, [tk EXCEPT ![t].state = "running", ![t].entered = TRUE])
<1> DEFINE r == [tk[t] EXCEPT !.state = "running", !.entered = TRUE]
<1>1. /\ [tk EXCEPT ![t].state = "running", ![t].entered = TRUE] = [tk EXCEPT ![t] = r]
      /\ r.into = tk[t].into /\ r.stage = tk[t].stage
  BY Zenon DEF TaskRecs
<1> HIDE DEF r
<1>2. AlikeStage(tk[t].stage, r.stage)
  BY <1>1, Alike, Zenon
<1> QED BY <1>1, <1>2, QuietSet, Zenon

\* The steps of Task::run before and after the function.
LEMMA RunCounted ==
  ASSUME IInv, IInv', CountedNow, NEW w \in Workers, RunTask(w) \/ Resume(w) \/ CheckFinalization(w)
  PROVE  CountedNow'
<1> DEFINE t == Mine(w)
<1>1. HoldsTask(worker[w]) /\ worker[w].pc \in {"run", "resume", "after"}
  BY Zenon DEF RunTask, Resume, CheckFinalization, At, HoldsTask
<1>2. /\ worker \in [Workers -> WorkerRecs] /\ task \in [DOMAIN task -> TaskRecs] /\ t \in DOMAIN task
      /\ worker[w] \in WorkerRecs
  BY <1>1, Holder, Zenon
<1>3. exc' # "RUNTIME"
  BY Zenon DEF IInv
<1>4. CASE RunTask(w)
  <2>1. PICK x : task' = [task EXCEPT ![t].state = x] /\ Go(w, "resume") /\ UNCHANGED <<count, done, freed>>
    BY <1>3, <1>4, Zenon DEF RunTask, Throw
  <2>2. Quiet(task, task')
    BY <1>2, <2>1, QuietState, Zenon
  <2>3. PICK k \in WorkerRecs : worker' = [worker EXCEPT ![w] = k] /\ k.pc = "resume"
    BY <1>2, <2>1, WorkerWent DEF Pcs
  <2>4. Passes(worker[w], k, count)
    BY <1>1, <2>3, Zenon DEF Passes
  <2> QED BY <2>1, <2>2, <2>3, <2>4, QuietCounted, Zenon
<1>5. CASE Resume(w)
  <2>1. /\ task' = [task EXCEPT ![t].state = "running", ![t].entered = TRUE] /\ Go(w, "function")
        /\ UNCHANGED <<count, done, freed>>
    BY <1>3, <1>5, Zenon DEF Resume, Throw
  <2>4. Quiet(task, task')
    BY <1>2, <2>1, QuietRunning, Zenon
  <2>5. PICK k \in WorkerRecs : worker' = [worker EXCEPT ![w] = k] /\ k.pc = "function"
    BY <1>2, <2>1, WorkerWent DEF Pcs
  <2>6. Passes(worker[w], k, count)
    BY <1>1, <2>5, Zenon DEF Passes
  <2> QED BY <2>1, <2>4, <2>5, <2>6, QuietCounted, Zenon
<1>6. CASE CheckFinalization(w)
  <2> DEFINE x == IF task[t].ended THEN "finished" ELSE task[t].state
             k == [worker[w] EXCEPT !.seen = x, !.pc = "callback"]
  <2>1. /\ task' = [task EXCEPT ![t].state = x] /\ worker' = [worker EXCEPT ![w] = k] /\ UNCHANGED <<count, done, freed>>
    BY <1>3, <1>6, Zenon DEF CheckFinalization, Task
  <2> HIDE DEF x
  <2>2. Quiet(task, task')
    BY <1>2, <2>1, QuietState, Zenon
  <2>3. k.pc = "callback"
    BY <1>2, Zenon DEF WorkerRecs
  <2> HIDE DEF k
  <2>4. Passes(worker[w], k, count)
    BY <1>1, <2>3, Zenon DEF Passes
  <2> QED BY <2>1, <2>2, <2>4, QuietCounted, Zenon
<1> QED BY <1>4, <1>5, <1>6, Zenon

\* A task that its worker holds, and that has not been recorded, is counted.
LEMMA HeldIsOpen ==
  ASSUME NEW tk, NEW wk, NEW q, NEW dn, NEW fr, Sound(tk, wk, q, dn, fr),
         NEW w \in Workers, HoldsTask(wk[w]), wk[w].pc # "insert", wk[w].task \notin dn
  PROVE  wk[w].task \in Open(tk, wk, dn)
<1> DEFINE t == wk[w].task
<1>1. t \in DOMAIN tk /\ ~Pending(tk, t)
  BY Zenon DEF Sound, Owners
<1>2. ~Uncounted(tk, t)
  BY <1>1, Zenon DEF Pending, Uncounted, Waits, Uncounts
<1>3. ~Doing(wk, "insert", t)
  BY Zenon DEF Sound, Apart, Doing, HoldsTask
<1> QED BY <1>1, <1>2, <1>3, Zenon DEF Open

\* Recording a task that is no longer counted leaves the tally alone.
LEMMA RecordCounted ==
  ASSUME NEW tk, NEW wk \in [Workers -> WorkerRecs], NEW dn, NEW fr, NEW c, Counted(tk, wk, dn, fr, c),
         NEW w \in Workers, wk[w].pc = "insert", NEW k, k.pc = "delete", k.task = wk[w].task
  PROVE  Counted(tk, [wk EXCEPT ![w] = k], dn \cup {wk[w].task}, fr, c)
<1> DEFINE t == wk[w].task
           wk2 == [wk EXCEPT ![w] = k]
           dn2 == dn \cup {t}
<1>1. wk2[w] = k /\ \A v \in Workers : v # w => wk2[v] = wk[v]
  BY Zenon
<1> HIDE DEF wk2
<1>2. \A u : u \notin dn2 /\ ~Doing(wk2, "insert", u) <=> u \notin dn /\ ~Doing(wk, "insert", u)
  BY <1>1, Zenon DEF Doing
<1>3. Open(tk, wk2, dn2) = Open(tk, wk, dn)
  <2> HIDE DEF dn2
  <2> QED BY <1>2, Zenon DEF Open
<1>4. Leaves(wk2, c)
  BY <1>1, Zenon DEF Leaves, Counted
<1>5. \A u \in dn2 : u \in fr \/ Doing(wk2, "delete", u)
  BY <1>1 DEF Counted, Doing
<1> QED BY <1>3, <1>4, <1>5, Zenon DEF Counted, wk2

\* So does deleting it.
LEMMA DeleteCounted ==
  ASSUME NEW tk, NEW wk \in [Workers -> WorkerRecs], NEW dn, NEW fr, NEW c, Counted(tk, wk, dn, fr, c),
         NEW w \in Workers, wk[w].pc = "delete", NEW k, k.pc = "leave"
  PROVE  Counted(tk, [wk EXCEPT ![w] = k], dn, fr \cup {wk[w].task}, c)
<1> DEFINE t == wk[w].task
           wk2 == [wk EXCEPT ![w] = k]
<1>1. wk2[w] = k /\ \A v \in Workers : v # w => wk2[v] = wk[v]
  BY Zenon
<1> HIDE DEF wk2
<1>2. \A u : Doing(wk2, "insert", u) <=> Doing(wk, "insert", u)
  BY <1>1, Zenon DEF Doing
<1>3. Open(tk, wk2, dn) = Open(tk, wk, dn)
  BY <1>2, Zenon DEF Open
<1>4. Leaves(wk2, c)
  BY <1>1, Zenon DEF Leaves, Counted
<1>5. \A u \in dn : u \in fr \cup {t} \/ Doing(wk2, "delete", u)
  BY <1>1 DEF Counted, Doing
<1> QED BY <1>3, <1>4, <1>5, Zenon DEF Counted, wk2

\* Runtime::addTask has counted child j.
CountsChild(x, y, j) == (x = "count1" /\ j = 1 /\ y = "push1") \/ (x = "count2" /\ j = 2 /\ y = "push2")
PastCount(s, r, j) == CountsChild(s.stage, r.stage, j) /\ r.into = s.into

\* Counting child j is what the two counting stages do to the uncounted children.
LEMMA CountStages ==
  ASSUME NEW x, NEW y, NEW j, CountsChild(x, y, j)
  PROVE  /\ x \in {"count1", "count2"} /\ Uncounts(x, j) /\ Waits(x, j)
         /\ \A i \in {1, 2} : Uncounts(y, i) <=> Uncounts(x, i) /\ i # j
<1>1. \A i \in {1, 2} : Uncounts("push1", i) <=> Uncounts("count1", i) /\ i # 1
  BY DEF Uncounts
<1>2. \A i \in {1, 2} : Uncounts("push2", i) <=> Uncounts("count2", i) /\ i # 2
  BY Zenon DEF Uncounts
<1>3. Uncounts("count1", 1) /\ Uncounts("count2", 2) /\ Waits("count1", 1) /\ Waits("count2", 2)
  BY Zenon DEF Uncounts, Waits
<1>4. CASE x = "count1" /\ j = 1 /\ y = "push1"
  BY <1>1, <1>3, <1>4, Zenon
<1>5. CASE x = "count2" /\ j = 2 /\ y = "push2"
  BY <1>2, <1>3, <1>5, Zenon
<1> QED BY <1>4, <1>5, Zenon DEF CountsChild

\* The two new tasks are not counted yet.
LEMMA NewUncounted ==
  ASSUME NEW tk, NEW wk, NEW q, NEW dn, NEW fr, NEW c, Sound(tk, wk, q, dn, fr), Counted(tk, wk, dn, fr, c),
         NEW t \in DOMAIN tk, tk[t].stage = "begin",
         NEW a, NEW b, Fresh(tk, a, b),
         NEW tk2 \in [DOMAIN tk \cup {a, b} -> TaskRecs],
         IsParent(tk[t], tk2[t], a, b), IsChild(tk2[a], t, 1), IsChild(tk2[b], t, 2), KeepsOthers(tk, tk2, t)
  PROVE  Counted(tk2, wk, dn, fr, c)
<1>0. Typed(tk, wk, q, dn, fr) /\ Tasks(tk, wk, dn)
  BY Zenon DEF Sound
<1>1. NoTask \notin DOMAIN tk \cup {a, b} /\ a \notin DOMAIN tk /\ b \notin DOMAIN tk
  BY DEF NoTask, Fresh
<1>a. DOMAIN tk2 = DOMAIN tk \cup {a, b}
  BY Zenon
<1>2. Uncounted(tk2, a) /\ Uncounted(tk2, b)
  BY Zenon DEF Uncounted, Uncounts, IsChild, IsParent
<1>3. \A u \in DOMAIN tk : Uncounted(tk2, u) <=> Uncounted(tk, u)
  <2> TAKE u \in DOMAIN tk
  <2> DEFINE p == tk[u].into[1]
  <2>1. p # NoTask => p \in DOMAIN tk /\ tk[p].stage # "begin"
    BY <1>0, Zenon DEF Tasks, HasParent
  <2>2. tk2[u].into = tk[u].into
    BY Zenon DEF KeepsOthers, IsParent
  <2>3. CASE p = NoTask
    BY <1>1, <1>a, <2>2, <2>3, Zenon DEF Uncounted
  <2>4. CASE p # NoTask
    <3>1. p \in DOMAIN tk /\ p # t
      BY <2>1, <2>4, Zenon
    <3>2. tk2[p] = tk[p] /\ p \in DOMAIN tk2
      BY <1>a, <3>1, Zenon DEF KeepsOthers
    <3> QED BY <2>2, <3>1, <3>2, Zenon DEF Uncounted
  <2> QED BY <2>3, <2>4, Zenon
<1>4. Open(tk2, wk, dn) = Open(tk, wk, dn)
  BY <1>a, <1>2, <1>3, Zenon DEF Open
<1> QED BY <1>4, Zenon DEF Counted

\* The other steps of the function.
LEMMA StaysCounted ==
  ASSUME IInv, CountedNow, NEW w \in Workers, NEW s, InFunction(w, s), worker' = worker, Quiet(task, task'),
         UNCHANGED <<count, done, freed>>
  PROVE  CountedNow'
<1>1. worker[w].pc = "function" /\ worker \in [Workers -> WorkerRecs]
  BY FunctionTask, Zenon
<1>2. worker' = [worker EXCEPT ![w] = worker[w]]
  BY <1>1, Zenon
<1>3. Passes(worker[w], worker[w], count)
  BY <1>1, Zenon DEF Passes
<1> QED BY <1>2, <1>3, QuietCounted, Zenon

\* A child is queued.
LEMMA PushTaskCounted == ASSUME IInv, CountedNow, NEW w \in Workers, PushTask(w) PROVE CountedNow'
<1> DEFINE t == Mine(w)
<1>1. PICK s \in {"push1", "push2"}, s2 \in {"count2", "depend"} :
        InFunction(w, s) /\ Stage(w, s2) /\ AlikeStage(s, s2)
  BY Alike, Zenon DEF PushTask
<1>2. task[t].stage = s /\ task \in [DOMAIN task -> TaskRecs] /\ t \in DOMAIN task /\ task[t] \in TaskRecs
  BY <1>1, FunctionTask, Zenon
<1>3. task' = [task EXCEPT ![t].stage = s2] /\ s2 \in Stages /\ UNCHANGED <<count, done, freed, worker>>
  BY <1>1, Zenon DEF Stage, Stages, PushTask
<1>4. task' = [task EXCEPT ![t] = AtStage(task[t], s2)]
  BY <1>3, Zenon DEF AtStage
<1>5. AtStage(task[t], s2).into = task[t].into /\ AtStage(task[t], s2).stage = s2
  BY <1>2, <1>3, StageSet, Zenon
<1>6. Quiet(task, task')
  <2>1. AlikeStage(task[t].stage, AtStage(task[t], s2).stage)
    BY <1>1, <1>2, <1>5, Zenon
  <2> HIDE DEF t
  <2> QED BY <1>2, <1>4, <1>5, <2>1, QuietSet, Zenon
<1> QED BY <1>1, <1>3, <1>6, StaysCounted, Zenon

\* A task suspends itself.
LEMMA SuspendTaskCounted == ASSUME IInv, IInv', CountedNow, NEW w \in Workers, SuspendTask(w) PROVE CountedNow'
<1> DEFINE t == Mine(w)
           d == task[t].deps \cup Range(task[t].children)
<1>1. InFunction(w, "depend") /\ exc' # "RUNTIME"
  BY Zenon DEF SuspendTask, IInv
<1>2. task[t].stage = "depend" /\ task \in [DOMAIN task -> TaskRecs] /\ t \in DOMAIN task /\ task[t] \in TaskRecs
  BY <1>1, FunctionTask, Zenon
<1>3. /\ task' = [task EXCEPT ![t].deps = d, ![t].state = "suspended", ![t].stage = "yield"]
      /\ UNCHANGED <<count, done, freed, worker>>
  BY <1>1, Zenon DEF SuspendTask, Task, Throw
<1>4. d \in SUBSET Nat
  BY <1>2, DepsGrow, Zenon
<1> HIDE DEF d
<1>5. task' = [task EXCEPT ![t] = WithDeps(task[t], d)]
  BY <1>2, <1>3, Zenon DEF WithDeps
<1>6. WithDeps(task[t], d).into = task[t].into /\ WithDeps(task[t], d).stage = "yield"
  BY <1>2, <1>4, SuspendedSet, Zenon
<1>7. Quiet(task, task')
  <2>1. AlikeStage(task[t].stage, WithDeps(task[t], d).stage)
    BY <1>2, <1>6, Alike, Zenon
  <2> HIDE DEF t
  <2> QED BY <1>2, <1>5, <1>6, <2>1, QuietSet, Zenon
<1> QED BY <1>1, <1>3, <1>7, StaysCounted, Zenon

\* Yielding is quiet.
LEMMA QuietYield ==
  ASSUME NEW D, NEW tk \in [D -> TaskRecs], NEW t \in D, tk[t].stage = "yield"
  PROVE  Quiet(tk, [tk EXCEPT ![t].entered = FALSE, ![t].stage = "sum"])
<1>1. PICK r \in TaskRecs :
        /\ [tk EXCEPT ![t].entered = FALSE, ![t].stage = "sum"] = [tk EXCEPT ![t] = r]
        /\ r.arg = tk[t].arg /\ r.into = tk[t].into /\ r.deps = tk[t].deps /\ r.state = tk[t].state /\ ~r.entered
        /\ r.ended = tk[t].ended /\ r.stage = "sum" /\ r.children = tk[t].children
  BY YieldSet, Zenon
<1>2. r.into = tk[t].into /\ AlikeStage(tk[t].stage, r.stage)
  BY <1>1, Alike, Zenon
<1>3. Quiet(tk, [tk EXCEPT ![t] = r])
  BY <1>2, QuietSet, Zenon
<1> QED BY <1>1, <1>3, Zenon

\* So is the end of a function,
LEMMA QuietEnded ==
  ASSUME NEW D, NEW tk \in [D -> TaskRecs], NEW t \in D
  PROVE  LET ended == [tk EXCEPT ![t].ended = TRUE, ![t].entered = FALSE] IN
         ended \in [D -> TaskRecs] /\ Quiet(tk, ended)
<1>1. PICK r \in TaskRecs :
        /\ [tk EXCEPT ![t].ended = TRUE, ![t].entered = FALSE] = [tk EXCEPT ![t] = r]
        /\ r.arg = tk[t].arg /\ r.into = tk[t].into /\ r.deps = tk[t].deps /\ r.state = tk[t].state /\ ~r.entered
        /\ r.ended /\ r.stage = tk[t].stage /\ r.children = tk[t].children
  BY EndedSet, Zenon
<1>2. r.into = tk[t].into /\ AlikeStage(tk[t].stage, r.stage)
  BY <1>1, Alike, Zenon
<1>3. Quiet(tk, [tk EXCEPT ![t] = r])
  BY <1>2, QuietSet, Zenon
<1>4. [tk EXCEPT ![t] = r] \in [D -> TaskRecs]
  BY Zenon
<1> QED BY <1>1, <1>3, <1>4, Zenon

\* and writing its result.
LEMMA QuietResult ==
  ASSUME NEW D, NEW f \in [D -> TaskRecs], NEW p \in D, NEW j \in {1, 2}, NEW x \in Nat
  PROVE  Quiet(f, WithResult(f, p, j, x))
<1>1. PICK r \in TaskRecs : WithResult(f, p, j, x) = [f EXCEPT ![p] = r] /\ SameControl(f[p], r)
  BY ResultSet
<1>2. r.into = f[p].into /\ AlikeStage(f[p].stage, r.stage)
  BY <1>1, Alike, Zenon DEF SameControl
<1>3. Quiet(f, [f EXCEPT ![p] = r])
  BY <1>2, QuietSet, Zenon
<1> QED BY <1>1, <1>3, Zenon

\* The coroutine gives the worker back to Task::run.
LEMMA AfterCounted ==
  ASSUME IInv, CountedNow, NEW w \in Workers, NEW s, InFunction(w, s), Go(w, "after"), Quiet(task, task'),
         UNCHANGED <<count, done, freed>>
  PROVE  CountedNow'
<1>1. worker[w].pc = "function" /\ worker \in [Workers -> WorkerRecs] /\ "after" \in Pcs
  BY FunctionTask, Zenon DEF Pcs
<1>2. PICK k \in WorkerRecs : worker' = [worker EXCEPT ![w] = k] /\ k.pc = "after"
  BY <1>1, WorkerWent
<1>3. Passes(worker[w], k, count)
  BY <1>1, <1>2, Zenon DEF Passes
<1> QED BY <1>2, <1>3, QuietCounted, Zenon

\* The coroutine yields.
LEMMA YieldCounted == ASSUME IInv, CountedNow, NEW w \in Workers, Yield(w) PROVE CountedNow'
<1>1. /\ InFunction(w, "yield") /\ Go(w, "after") /\ UNCHANGED <<count, done, freed>>
      /\ task' = [task EXCEPT ![Mine(w)].entered = FALSE, ![Mine(w)].stage = "sum"]
  BY Zenon DEF Yield
<1>2. task[Mine(w)].stage = "yield" /\ task \in [DOMAIN task -> TaskRecs] /\ Mine(w) \in DOMAIN task
  BY <1>1, FunctionTask, Zenon
<1>3. Quiet(task, task')
  BY <1>1, <1>2, QuietYield, Zenon
<1> QED BY <1>1, <1>3, AfterCounted, Zenon

\* A function returns a value,
LEMMA ReturnCounted ==
  ASSUME IInv, CountedNow, NEW w \in Workers, NEW s \in {"begin", "sum"}, InFunction(w, s), NEW value \in Nat, Return(w, value)
  PROVE  CountedNow'
<1> DEFINE t == Mine(w)
           p == task[t].into[1]
           j == task[t].into[2]
           ended == [task EXCEPT ![t].ended = TRUE, ![t].entered = FALSE]
<1>1. /\ p = NoTask => task' = ended
      /\ p # NoTask => task' = WithResult(ended, p, j, value)
      /\ UNCHANGED <<count, done, freed>> /\ Go(w, "after")
  BY Zenon DEF Return, WithResult
<1>2. task[t] \in TaskRecs /\ task \in [DOMAIN task -> TaskRecs] /\ t \in DOMAIN task /\ HasParent(task, t)
  BY FunctionTask, Zenon
<1>3. ended \in [DOMAIN task -> TaskRecs] /\ Quiet(task, ended)
  BY <1>2, QuietEnded, Zenon
<1> HIDE DEF ended
<1>4. CASE p = NoTask
  <2>1. Quiet(task, task')
    BY <1>1, <1>3, <1>4, Zenon
  <2> QED BY <1>1, <2>1, AfterCounted, Zenon
<1>5. CASE p # NoTask
  <2>1. p \in DOMAIN task /\ j \in {1, 2}
    BY <1>2, <1>5, Zenon DEF HasParent, TaskRecs
  <2> HIDE DEF p, j
  <2>2. Quiet(ended, WithResult(ended, p, j, value))
    BY <1>3, <2>1, QuietResult, Zenon
  <2>3. Quiet(task, task')
    BY <1>1, <1>3, <1>5, <2>2, QuietTwice, Zenon
  <2> QED BY <1>1, <2>3, AfterCounted, Zenon
<1> QED BY <1>4, <1>5, Zenon

\* whether or not it had children.
LEMMA ReturnsCounted == ASSUME IInv, CountedNow, NEW w \in Workers, ReturnAtOnce(w) \/ ReturnSum(w) PROVE CountedNow'
<1>1. CASE ReturnAtOnce(w)
  <2>1. InFunction(w, "begin") /\ Return(w, Task(w).arg)
    BY <1>1, Zenon DEF ReturnAtOnce
  <2>2. task[Mine(w)] \in TaskRecs
    BY <2>1, FunctionTask, Zenon
  <2>3. Task(w).arg \in Nat
    BY <2>2, Zenon DEF Task, TaskRecs
  <2> QED BY <2>1, <2>3, ReturnCounted, Zenon
<1>2. CASE ReturnSum(w)
  <2>1. InFunction(w, "sum") /\ Return(w, Task(w).results[1] + Task(w).results[2])
    BY <1>2, Zenon DEF ReturnSum
  <2>2. task[Mine(w)] \in TaskRecs
    BY <2>1, FunctionTask, Zenon
  <2>3. Task(w).results[1] \in Nat /\ Task(w).results[2] \in Nat
    BY <2>2 DEF Task, TaskRecs
  <2>4. Task(w).results[1] + Task(w).results[2] \in Nat
    BY <2>3
  <2> QED BY <2>1, <2>4, ReturnCounted, Zenon
<1> QED BY <1>1, <1>2, Zenon

\* A worker that has left its loop takes no step, and no worker's step ends run.
LEMMA StepsBeforeReturn == ASSUME NEW w \in Workers, Step(w) PROVE worker[w].pc # "exited" /\ main' = main
<1> USE DEF At, InFunction, Throw, Return
<1>1. CASE CheckTaskCount(w) \/ PopTask(w) \/ CheckTaskReady(w) \/ Requeue(w)
  BY <1>1, Zenon DEF CheckTaskCount, PopTask, CheckTaskReady, Requeue
<1>2. CASE RunTask(w) \/ Resume(w)
  BY <1>2, Zenon DEF RunTask, Resume
<1>3. CASE CheckFinalization(w)
  BY <1>3, Zenon DEF CheckFinalization
<1>4. CASE OnTaskSuspend(w) \/ OnTaskFinish(w) \/ InsertFinished(w) \/ DeleteTask(w) \/ LeaveRun(w) \/ LoopReturns(w)
  BY <1>4, Zenon DEF OnTaskSuspend, OnTaskFinish, InsertFinished, DeleteTask, LeaveRun, LoopReturns
<1>5. CASE ReturnAtOnce(w) \/ ReturnSum(w)
  BY <1>5, Zenon DEF ReturnAtOnce, ReturnSum
<1>6. CASE CreateTasks(w)
  BY <1>6, Zenon DEF CreateTasks
<1>7. CASE CountTask(w) \/ PushTask(w) \/ Yield(w)
  BY <1>7, Zenon DEF CountTask, PushTask, Yield
<1>8. CASE SuspendTask(w)
  BY <1>8, Zenon DEF SuspendTask
<1> QED BY <1>1, <1>2, <1>3, <1>4, <1>5, <1>6, <1>7, <1>8, Zenon DEF Step

-----------------------------------------------------------------------------
(* What needs the cardinality of finite sets                                *)

INSTANCE FiniteSetTheorems

\* There are as many tasks as labels were drawn.
LEMMA LabelsCounted ==
  ASSUME NEW tk, NEW wk, NEW q, NEW dn, NEW fr, Typed(tk, wk, q, dn, fr)
  PROVE  Cardinality(DOMAIN tk) \in Nat /\ DOMAIN tk = 0 .. Cardinality(DOMAIN tk) - 1
<1>1. PICK m \in Nat : DOMAIN tk = 0 .. m - 1
  BY Zenon DEF Typed, LabelSets
<1>2. Cardinality(0 .. m - 1) = m
  BY FS_Interval
<1> QED BY <1>1, <1>2, Zenon

\* A function constructs its two children.
LEMMA CreateTasksSound == ASSUME IInv, NEW w \in Workers, CreateTasks(w) PROVE IInv'
<1> DEFINE t == Mine(w)
           a == Cardinality(DOMAIN task)
<1>1. InFunction(w, "begin") /\ task[t].arg > 1 /\ UNCHANGED <<queue, done, freed, worker, exc>>
  BY Zenon DEF CreateTasks, Task
<1>2. task' = Created(task, t, a)
  BY Zenon DEF CreateTasks, Created, WithTwo
<1>3. /\ worker[w].pc = "function" /\ task[t].stage = "begin"
      /\ task \in [DOMAIN task -> TaskRecs] /\ t \in DOMAIN task /\ worker[w].task = t
  BY <1>1, FunctionTask, Zenon
<1>4. Sound(task, worker, queue, done, freed) /\ exc = "none"
  BY Zenon DEF IInv
<1>5. a \in Nat /\ DOMAIN task = 0 .. a - 1 /\ Fresh(task, a, a + 1)
  BY <1>4, LabelsCounted, Zenon DEF Sound, Fresh
<1> HIDE DEF t, a
<1>6. /\ Created(task, t, a) \in [DOMAIN task \cup {a, a + 1} -> TaskRecs]
      /\ IsParent(task[t], Created(task, t, a)[t], a, a + 1)
      /\ IsChild(Created(task, t, a)[a], t, 1) /\ IsChild(Created(task, t, a)[a + 1], t, 2)
      /\ \A u \in DOMAIN task : u # t => Created(task, t, a)[u] = task[u]
  BY <1>1, <1>3, <1>5, CreatedTasks, Zenon
<1>8. KeepsOthers(task, Created(task, t, a), t)
  BY <1>6, Zenon DEF KeepsOthers
<1>7. Sound(Created(task, t, a), worker, queue, done, freed)
  BY <1>3, <1>4, <1>5, <1>6, <1>8, TasksCreated, Zenon
<1> QED BY <1>1, <1>2, <1>4, <1>7, Zenon DEF IInv

\* Every step of a worker keeps it,
LEMMA StepSound == ASSUME IInv, NEW w \in Workers, Step(w) PROVE IInv'
<1>1. CASE CheckTaskCount(w)
  BY <1>1, CheckTaskCountSound, Zenon
<1>2. CASE PopTask(w)
  BY <1>2, PopTaskSound, Zenon
<1>3. CASE CheckTaskReady(w)
  BY <1>3, CheckTaskReadySound, Zenon
<1>4. CASE Requeue(w) \/ OnTaskSuspend(w)
  BY <1>4, PutBackSound, Zenon
<1>5. CASE RunTask(w)
  BY <1>5, RunTaskSound, Zenon
<1>6. CASE Resume(w)
  BY <1>6, ResumeSound, Zenon
<1>7. CASE CheckFinalization(w)
  BY <1>7, CheckFinalizationSound, Zenon
<1>8. CASE OnTaskFinish(w)
  BY <1>8, OnTaskFinishSound, Zenon
<1>9. CASE InsertFinished(w)
  BY <1>9, InsertFinishedSound, Zenon
<1>10. CASE DeleteTask(w)
  BY <1>10, DeleteTaskSound, Zenon
<1>11. CASE LeaveRun(w) \/ LoopReturns(w)
  BY <1>11, LeaveSound, Zenon
<1>12. CASE ReturnAtOnce(w) \/ ReturnSum(w)
  BY <1>12, ReturnsSound, Zenon
<1>13. CASE CreateTasks(w)
  BY <1>13, CreateTasksSound, Zenon
<1>14. CASE CountTask(w)
  BY <1>14, CountTaskSound, Zenon
<1>15. CASE PushTask(w)
  BY <1>15, PushTaskSound, Zenon
<1>16. CASE SuspendTask(w)
  BY <1>16, SuspendTaskSound, Zenon
<1>17. CASE Yield(w)
  BY <1>17, YieldSound, Zenon
<1> QED BY <1>1, <1>2, <1>3, <1>4, <1>5, <1>6, <1>7, <1>8, <1>9, <1>10, <1>11, <1>12, <1>13, <1>14, <1>15, <1>16, <1>17, Zenon DEF Step

\* and every step of the system.
LEMMA NextSound == IInv /\ [Next]_vars => IInv'
<1> SUFFICES ASSUME IInv, [Next]_vars PROVE IInv'
  BY Zenon
<1>1. CASE \E w \in Workers : Step(w)
  BY <1>1, StepSound, Zenon
<1>2. CASE RunReturns
  BY <1>2, Zenon DEF RunReturns, IInv
<1>3. CASE UNCHANGED vars
  BY <1>3, Zenon DEF vars, IInv
<1> QED BY <1>1, <1>2, <1>3, Zenon DEF Next, Exited

\* So the invariant always holds.
LEMMA AlwaysSound == Spec => []IInv
  BY InitSound, NextSound, PTL DEF Spec

\* OneWorkerPerTask (see Tasking): Task::run of frontends/tasking/task.hpp never
\* throws, and no task is run by two workers, or run and queued, at a time.
THEOREM TaskHasOneWorker == Spec => []OneWorkerPerTask
<1>1. ASSUME IInv PROVE OneWorkerPerTask
  <2>1. Sound(task, worker, queue, done, freed) /\ exc = "none"
    BY <1>1, Zenon DEF IInv
  <2>2. Owners(task, worker, queue, done, freed) /\ Apart(worker) /\ NoDuplicates(queue)
    BY <2>1, Zenon DEF Sound
  <2>3. \A w \in Workers : Holds(w) => worker[w].task \notin Range(queue)
    BY <2>2, Zenon DEF Owners, Holds, HoldsTask
  <2>4. \A v, w \in Workers : v # w /\ Holds(v) /\ Holds(w) => worker[v].task # worker[w].task
    BY <2>2, Zenon DEF Apart, Holds, HoldsTask
  <2>5. \A i, j \in DOMAIN queue : i # j => queue[i] # queue[j]
    BY <2>2, Zenon DEF NoDuplicates
  <2> QED BY <2>1, <2>3, <2>4, <2>5, Zenon DEF OneWorkerPerTask
<1> QED BY <1>1, AlwaysSound, PTL

\* DependenciesFirst (see Tasking): no function returns before all the tasks its
\* task depends on are in _finishedTaskHashSet.
THEOREM DependenciesFinishFirst == Spec => []DependenciesFirst
<1>1. ASSUME IInv PROVE DependenciesFirst
  BY <1>1, Zenon DEF IInv, Sound, Tasks, TaskFits, DependenciesFirst, Labels
<1> QED BY <1>1, AlwaysSound, PTL

\* DeletedTasksUnused (see Tasking): a task that onTaskFinish has deleted is held
\* by no worker, is not queued, and gets no result written to its stack.
THEOREM DeletedTaskIsUnused == Spec => []DeletedTasksUnused
<1>1. ASSUME IInv PROVE DeletedTasksUnused
  <2>1. Sound(task, worker, queue, done, freed)
    BY <1>1, Zenon DEF IInv
  <2>2. /\ Owners(task, worker, queue, done, freed) /\ Queued(task, queue) /\ Tasks(task, worker, done)
        /\ Typed(task, worker, queue, done, freed)
    BY <2>1, Zenon DEF Sound
  <2>3. freed \subseteq done /\ done \subseteq DOMAIN task /\ queue \in Seq(DOMAIN task)
    BY <2>2, Zenon DEF Typed
  <2>4. \A t \in freed : t \in DOMAIN task /\ task[t].ended /\ task[t].state = "finished"
    BY <2>2, <2>3, Zenon DEF Tasks, TaskFits
  <2>5. ASSUME NEW w \in Workers, Holds(w) PROVE worker[w].task \notin freed
    <3>1. HoldsTask(worker[w]) /\ worker[w] \in WorkerRecs
      BY <2>2, <2>5, Zenon DEF Holds, HoldsTask, Typed
    <3>2. Fits(worker[w], task[worker[w].task], done, freed)
      BY <2>2, <3>1, Zenon DEF Owners
    <3> QED BY <2>3, <2>4, <3>1, <3>2, Zenon DEF Fits, HoldsTask, WorkerRecs, Ready, New, Awake
  <2>6. Range(queue) \cap freed = {}
    BY <2>2, <2>4, Zenon DEF Queued, Ready, New, Awake
  <2>7. ASSUME NEW t \in DOMAIN task, ~task[t].ended, task[t].into[1] \in freed PROVE FALSE
    <3> DEFINE p == task[t].into[1]
    <3>1. p \in DOMAIN task /\ task[p].ended /\ p # NoTask
      <4>1. p \in DOMAIN task /\ task[p].ended
        BY <2>4, <2>7, Zenon
      <4>2. PICK n \in Nat : DOMAIN task = 0 .. n - 1
        BY <2>2, Zenon DEF Typed, LabelSets
      <4> HIDE DEF p
      <4> QED BY <4>1, <4>2 DEF NoTask
    <3>2. TaskFits(task[p], p, done) /\ HasParent(task, t) /\ TaskFits(task[t], t, done)
      BY <2>2, <2>7, <3>1, Zenon DEF Tasks
    <3>3. task[p].stage # "begin" /\ (task[p].stage \in {"yield", "sum"} => t \in task[p].deps)
      BY <3>1, <3>2, Zenon DEF HasParent
    <3>4. task[p].deps \subseteq done /\ ~InTheMiddle(task[p])
      BY <3>1, <3>2, Zenon DEF TaskFits
    <3>5. t \in done
      BY <3>3, <3>4, Zenon DEF InTheMiddle
    <3> QED BY <2>7, <3>2, <3>5, Zenon DEF TaskFits
  <2> QED BY <2>5, <2>6, <2>7, Zenon DEF DeletedTasksUnused, Labels
<1> QED BY <1>1, AlwaysSound, PTL

\* There are finitely many open tasks.
LEMMA OpenIsFinite ==
  ASSUME NEW tk, NEW wk, NEW q, NEW dn, NEW fr, Typed(tk, wk, q, dn, fr)
  PROVE  /\ IsFiniteSet(Open(tk, wk, dn)) /\ Cardinality(Open(tk, wk, dn)) \in Nat
         /\ Cardinality(Open(tk, wk, dn)) = 0 <=> Open(tk, wk, dn) = {}
<1>1. PICK m \in Nat : DOMAIN tk = 0 .. m - 1
  BY Zenon DEF Typed, LabelSets
<1>2. IsFiniteSet(DOMAIN tk)
  BY <1>1, FS_Interval
<1>3. Open(tk, wk, dn) \in SUBSET DOMAIN tk
  BY Zenon DEF Open
<1>4. IsFiniteSet(Open(tk, wk, dn))
  BY <1>2, <1>3, FS_Subset, Zenon
<1> QED BY <1>4, FS_EmptySet, FS_CardinalityType, Zenon

\* While a task is counted, the counter is positive and no worker leaves.
LEMMA OpenHoldsWorkers ==
  ASSUME NEW tk, NEW wk, NEW q, NEW dn, NEW fr, NEW c, Sound(tk, wk, q, dn, fr), Counted(tk, wk, dn, fr, c),
         NEW t \in Open(tk, wk, dn)
  PROVE  c \in Nat /\ c > 0 /\ \A x : Leaves(wk, x)
<1>1. Cardinality(Open(tk, wk, dn)) \in Nat /\ Cardinality(Open(tk, wk, dn)) # 0
  BY OpenIsFinite, Zenon DEF Sound
<1> QED BY <1>1 DEF Counted, Leaves

\* onTaskFinish decrements the counter of a task that was open.
LEMMA FinishCounted ==
  ASSUME NEW tk, NEW wk, NEW q, NEW dn, NEW fr, NEW c, Sound(tk, wk, q, dn, fr), Counted(tk, wk, dn, fr, c),
         NEW w \in Workers, wk[w].pc = "callback", wk[w].seen = "finished",
         NEW k, k.pc = "insert", k.task = wk[w].task
  PROVE  Counted(tk, [wk EXCEPT ![w] = k], dn, fr, c - 1)
<1> DEFINE t == wk[w].task
           wk2 == [wk EXCEPT ![w] = k]
<1>1. wk2[w] = k /\ \A v \in Workers : v # w => wk2[v] = wk[v]
  BY Zenon DEF Sound, Typed
<1> HIDE DEF wk2
<1>2. HoldsTask(wk[w]) /\ t \notin dn /\ wk[w].pc # "insert"
  BY Zenon DEF Sound, Owners, Fits, HoldsTask
<1>3. t \in Open(tk, wk, dn)
  BY <1>2, HeldIsOpen, Zenon
<1>4. c \in Nat /\ c > 0 /\ Leaves(wk, c - 1)
  BY <1>3, OpenHoldsWorkers, Zenon
<1>5. Open(tk, wk2, dn) = Open(tk, wk, dn) \ {t}
  <2>1. \A u : Doing(wk2, "insert", u) <=> Doing(wk, "insert", u) \/ u = t
    BY <1>1, Zenon DEF Doing
  <2> HIDE DEF t
  <2> QED BY <2>1, Zenon DEF Open
<1>6. IsFiniteSet(Open(tk, wk, dn)) /\ c = Cardinality(Open(tk, wk, dn))
  BY OpenIsFinite, Zenon DEF Sound, Counted
<1>7. Cardinality(Open(tk, wk2, dn)) = c - 1
  <2> HIDE DEF t
  <2> QED BY <1>3, <1>5, <1>6, FS_RemoveElement, Zenon
<1>8. Leaves(wk2, c - 1)
  BY <1>1, <1>4, Zenon DEF Leaves
<1>9. \A u \in dn : u \in fr \/ Doing(wk2, "delete", u)
  BY <1>1 DEF Counted, Doing
<1> QED BY <1>7, <1>8, <1>9, Zenon DEF Counted, wk2

\* Counting a child opens one task: it was constructed, but not yet counted.
LEMMA ChildCounted ==
  ASSUME NEW tk, NEW wk, NEW q, NEW dn, NEW fr, NEW c, Sound(tk, wk, q, dn, fr), Counted(tk, wk, dn, fr, c),
         NEW w \in Workers, NEW t, wk[w].pc = "function", wk[w].task = t,
         NEW j \in {1, 2}, NEW r, PastCount(tk[t], r, j)
  PROVE  Counted([tk EXCEPT ![t] = r], wk, dn, fr, c + 1)
<1> DEFINE tk2 == [tk EXCEPT ![t] = r]
           child == tk[t].children[j]
<1>0. Typed(tk, wk, q, dn, fr) /\ Owners(tk, wk, q, dn, fr) /\ Tasks(tk, wk, dn)
  BY Zenon DEF Sound
<1>1. HoldsTask(wk[w]) /\ t \in DOMAIN tk /\ ~tk[t].ended /\ NoTask \notin DOMAIN tk /\ t # NoTask
  <2>1. HoldsTask(wk[w])
    BY Zenon DEF HoldsTask
  <2>2. t \in DOMAIN tk /\ Fits(wk[w], tk[t], dn, fr)
    BY <1>0, <2>1, Zenon DEF Owners
  <2>3. NoTask \notin DOMAIN tk
    BY <1>0 DEF Typed, NoTask
  <2> QED BY <2>1, <2>2, <2>3, Zenon DEF Fits
<1>2. t \notin dn
  BY <1>0, <1>1, Zenon DEF Tasks, TaskFits
<1>3. c \in Nat /\ c > 0 /\ Leaves(wk, c + 1)
  <2>1. t \in Open(tk, wk, dn)
    BY <1>1, <1>2, HeldIsOpen, Zenon
  <2> QED BY <2>1, OpenHoldsWorkers, Zenon
<1>4. DOMAIN tk2 = DOMAIN tk /\ tk2[t] = r /\ \A u \in DOMAIN tk : u # t => tk2[u] = tk[u]
  BY <1>0, <1>1, Zenon DEF Typed
<1> HIDE DEF tk2
<1>5. child \in DOMAIN tk /\ tk[child].into[1] = t /\ tk[child].into[2] = j
  <2>1. tk[t].stage \in {"count1", "count2"}
    BY CountStages, Zenon DEF PastCount
  <2>2. HasChildren(tk, t)
    BY <1>0, <1>1, Zenon DEF Tasks
  <2> QED BY <2>1, <2>2, Zenon DEF HasChildren
<1> HIDE DEF child
<1>6. Uncounted(tk, child) /\ Pending(tk, child)
  BY <1>1, <1>5, CountStages, Zenon DEF Uncounted, Pending, PastCount
<1>7. child \notin dn /\ ~Doing(wk, "insert", child)
  <2>1. New(tk[child]) /\ TaskFits(tk[child], child, dn)
    BY <1>0, <1>5, <1>6, Zenon DEF Tasks
  <2>2. \A v \in Workers : HoldsTask(wk[v]) => wk[v].task # child
    BY <1>0, <1>6, Zenon DEF Owners
  <2> QED BY <2>1, <2>2, Zenon DEF New, TaskFits, Doing, HoldsTask
<1>8. \A u \in DOMAIN tk : Uncounted(tk2, u) <=> Uncounted(tk, u) /\ u # child
  <2> TAKE u \in DOMAIN tk
  <2>1. tk2[u].into = tk[u].into /\ tk[u].into[2] \in {1, 2}
    BY <1>0, <1>4, Zenon DEF PastCount, Typed, TaskRecs
  <2>2. CASE tk[u].into[1] # t
    BY <1>4, <1>5, <2>1, <2>2, Zenon DEF Uncounted
  <2>3. CASE tk[u].into[1] = t
    <3>1. HasParent(tk, u)
      BY <1>0, Zenon DEF Tasks
    <3>2. tk[t].children[tk[u].into[2]] = u
      BY <1>1, <2>3, <3>1, Zenon DEF HasParent
    <3>3. u = child <=> tk[u].into[2] = j
      BY <1>5, <3>2, Zenon DEF child
    <3>4. Uncounted(tk2, u) <=> Uncounts(r.stage, tk[u].into[2])
      BY <1>1, <1>4, <2>1, <2>3, Zenon DEF Uncounted
    <3>5. Uncounted(tk, u) <=> Uncounts(tk[t].stage, tk[u].into[2])
      BY <1>1, <2>3, Zenon DEF Uncounted
    <3>6. ASSUME NEW i \in {1, 2} PROVE Uncounts(r.stage, i) <=> Uncounts(tk[t].stage, i) /\ i # j
      BY CountStages, Zenon DEF PastCount
    <3> QED BY <2>1, <3>3, <3>4, <3>5, <3>6, Zenon
  <2> QED BY <2>2, <2>3, Zenon
<1>9. Open(tk2, wk, dn) = Open(tk, wk, dn) \cup {child} /\ child \notin Open(tk, wk, dn)
  BY <1>4, <1>5, <1>6, <1>7, <1>8, Zenon DEF Open
<1>10. IsFiniteSet(Open(tk, wk, dn)) /\ c = Cardinality(Open(tk, wk, dn))
  BY <1>0, OpenIsFinite, Zenon DEF Counted
<1>11. Cardinality(Open(tk2, wk, dn)) = c + 1
  BY <1>9, <1>10, FS_AddElement, Zenon
<1> QED BY <1>3, <1>11, Zenon DEF Counted, tk2

\* The steps of onTaskFinish.
LEMMA OnFinishCounted ==
  ASSUME IInv, CountedNow, NEW w \in Workers, OnTaskFinish(w) \/ InsertFinished(w) \/ DeleteTask(w)
  PROVE  CountedNow'
<1>1. worker \in [Workers -> WorkerRecs] /\ Sound(task, worker, queue, done, freed)
  BY Holder, Zenon DEF IInv
<1>2. Counted(task, worker, done, freed, count)
  BY Zenon DEF CountedNow
<1>3. CASE OnTaskFinish(w)
  <2>1. /\ worker[w].pc = "callback" /\ worker[w].seen = "finished" /\ Go(w, "insert") /\ count' = count - 1
        /\ UNCHANGED <<task, done, freed>> /\ "insert" \in Pcs
    BY <1>3, Zenon DEF OnTaskFinish, At, Pcs
  <2>2. PICK k \in WorkerRecs : worker' = [worker EXCEPT ![w] = k] /\ k.pc = "insert" /\ k.task = worker[w].task
    BY <1>1, <2>1, WorkerWent
  <2>3. Counted(task, [worker EXCEPT ![w] = k], done, freed, count - 1)
    <3>1. worker[w].pc = "callback" /\ worker[w].seen = "finished"
      BY <2>1, Zenon
    <3> QED BY <1>1, <1>2, <2>2, <3>1, FinishCounted, Zenon
  <2> QED BY <2>1, <2>2, <2>3, Zenon DEF CountedNow
<1>4. CASE InsertFinished(w)
  <2>1. /\ worker[w].pc = "insert" /\ Go(w, "delete") /\ done' = done \cup {worker[w].task}
        /\ UNCHANGED <<task, count, freed>> /\ "delete" \in Pcs
    BY <1>4, Zenon DEF InsertFinished, At, Mine, Pcs
  <2>2. PICK k \in WorkerRecs : worker' = [worker EXCEPT ![w] = k] /\ k.pc = "delete" /\ k.task = worker[w].task
    BY <1>1, <2>1, WorkerWent
  <2>3. Counted(task, [worker EXCEPT ![w] = k], done \cup {worker[w].task}, freed, count)
    BY <1>1, <1>2, <2>1, <2>2, RecordCounted, Zenon
  <2> QED BY <2>1, <2>2, <2>3, Zenon DEF CountedNow
<1>5. CASE DeleteTask(w)
  <2>1. /\ worker[w].pc = "delete" /\ Go(w, "leave") /\ freed' = freed \cup {worker[w].task}
        /\ UNCHANGED <<task, count, done>> /\ "leave" \in Pcs
    BY <1>5, Zenon DEF DeleteTask, At, Mine, Pcs
  <2>2. PICK k \in WorkerRecs : worker' = [worker EXCEPT ![w] = k] /\ k.pc = "leave"
    BY <1>1, <2>1, WorkerWent
  <2>3. Counted(task, [worker EXCEPT ![w] = k], done, freed \cup {worker[w].task}, count)
    BY <1>1, <1>2, <2>1, <2>2, DeleteCounted, Zenon
  <2> QED BY <2>1, <2>2, <2>3, Zenon DEF CountedNow
<1> QED BY <1>3, <1>4, <1>5, Zenon

\* The tally, action by action: a child is counted.
LEMMA CountTaskCounted == ASSUME IInv, CountedNow, NEW w \in Workers, CountTask(w) PROVE CountedNow'
<1> DEFINE t == Mine(w)
<1>1. PICK s \in {"count1", "count2"}, s2 \in {"push1", "push2"}, j \in {1, 2} :
        InFunction(w, s) /\ Stage(w, s2) /\ CountsChild(s, s2, j)
  BY Zenon DEF CountTask, CountsChild
<1>2. /\ worker[w].pc = "function" /\ task[t].stage = s
      /\ task \in [DOMAIN task -> TaskRecs] /\ t \in DOMAIN task /\ task[t] \in TaskRecs /\ worker[w].task = t
  BY <1>1, FunctionTask, Zenon
<1>3. /\ task' = [task EXCEPT ![t].stage = s2] /\ s2 \in Stages /\ UNCHANGED <<done, freed, worker>>
      /\ count' = count + 1
  BY <1>1, Zenon DEF Stage, Stages, CountTask
<1>4. task' = [task EXCEPT ![t] = AtStage(task[t], s2)]
  BY <1>3, Zenon DEF AtStage
<1>5. AtStage(task[t], s2).into = task[t].into /\ AtStage(task[t], s2).stage = s2
  BY <1>2, <1>3, StageSet, Zenon
<1>6. PastCount(task[t], AtStage(task[t], s2), j)
  <2> HIDE DEF t
  <2> QED BY <1>1, <1>2, <1>5, Zenon DEF PastCount
<1>7. Sound(task, worker, queue, done, freed) /\ Counted(task, worker, done, freed, count)
  BY Zenon DEF IInv, CountedNow
<1>8. Counted([task EXCEPT ![t] = AtStage(task[t], s2)], worker, done, freed, count + 1)
  <2>1. worker[w].pc = "function" /\ worker[w].task = t /\ j \in {1, 2}
    BY <1>2, Zenon
  <2> HIDE DEF t
  <2> QED BY <1>6, <1>7, <2>1, ChildCounted, Zenon
<1> QED BY <1>3, <1>4, <1>8, Zenon DEF CountedNow

\* Children are constructed, and not yet counted.
LEMMA CreateTasksCounted == ASSUME IInv, CountedNow, NEW w \in Workers, CreateTasks(w) PROVE CountedNow'
<1> DEFINE t == Mine(w)
           a == Cardinality(DOMAIN task)
<1>1. InFunction(w, "begin") /\ task[t].arg > 1 /\ UNCHANGED <<count, done, freed, worker>>
  BY Zenon DEF CreateTasks, Task
<1>2. task' = Created(task, t, a)
  BY Zenon DEF CreateTasks, Created, WithTwo
<1>3. task[t].stage = "begin" /\ task \in [DOMAIN task -> TaskRecs] /\ t \in DOMAIN task
  BY <1>1, FunctionTask, Zenon
<1>4. Sound(task, worker, queue, done, freed) /\ Counted(task, worker, done, freed, count)
  BY Zenon DEF IInv, CountedNow
<1>5. a \in Nat /\ DOMAIN task = 0 .. a - 1 /\ Fresh(task, a, a + 1)
  BY <1>4, LabelsCounted, Zenon DEF Sound, Fresh
<1> HIDE DEF t, a
<1>6. /\ Created(task, t, a) \in [DOMAIN task \cup {a, a + 1} -> TaskRecs]
      /\ IsParent(task[t], Created(task, t, a)[t], a, a + 1)
      /\ IsChild(Created(task, t, a)[a], t, 1) /\ IsChild(Created(task, t, a)[a + 1], t, 2)
      /\ \A u \in DOMAIN task : u # t => Created(task, t, a)[u] = task[u]
  BY <1>1, <1>3, <1>5, CreatedTasks, Zenon
<1>7. KeepsOthers(task, Created(task, t, a), t)
  BY <1>6, Zenon DEF KeepsOthers
<1>8. Counted(Created(task, t, a), worker, done, freed, count)
  BY <1>3, <1>4, <1>5, <1>6, <1>7, NewUncounted, Zenon
<1> QED BY <1>1, <1>2, <1>8, Zenon DEF CountedNow

\* So every step of a worker keeps the tally,
LEMMA StepCounted == ASSUME IInv, CountedNow, NEW w \in Workers, Step(w) PROVE CountedNow'
<1>0. IInv'
  BY StepSound, Zenon
<1>1. CASE \/ CheckTaskCount(w) \/ PopTask(w) \/ CheckTaskReady(w) \/ Requeue(w)
           \/ OnTaskSuspend(w) \/ LeaveRun(w) \/ LoopReturns(w)
  BY <1>1, LoopCounted, Zenon
<1>2. CASE RunTask(w) \/ Resume(w) \/ CheckFinalization(w)
  BY <1>0, <1>2, RunCounted, Zenon
<1>3. CASE OnTaskFinish(w) \/ InsertFinished(w) \/ DeleteTask(w)
  BY <1>3, OnFinishCounted, Zenon
<1>4. CASE ReturnAtOnce(w) \/ ReturnSum(w)
  BY <1>4, ReturnsCounted, Zenon
<1>5. CASE CreateTasks(w)
  BY <1>5, CreateTasksCounted, Zenon
<1>6. CASE CountTask(w)
  BY <1>6, CountTaskCounted, Zenon
<1>7. CASE PushTask(w)
  BY <1>7, PushTaskCounted, Zenon
<1>8. CASE SuspendTask(w)
  BY <1>0, <1>8, SuspendTaskCounted, Zenon
<1>9. CASE Yield(w)
  BY <1>9, YieldCounted, Zenon
<1> QED BY <1>1, <1>2, <1>3, <1>4, <1>5, <1>6, <1>7, <1>8, <1>9, Zenon DEF Step

\* and every step of the system.
LEMMA NextTally == IInv /\ Tally /\ [Next]_vars => Tally'
<1> SUFFICES ASSUME IInv, Tally, [Next]_vars PROVE Tally'
  BY Zenon
<1>0. CountedNow /\ (main = "returned" => \A w \in Workers : worker[w].pc = "exited")
  BY Zenon DEF Tally, CountedNow
<1>1. CASE \E w \in Workers : Step(w)
  <2>1. PICK w \in Workers : Step(w)
    BY <1>1, Zenon
  <2>2. CountedNow'
    BY <1>0, <2>1, StepCounted, Zenon
  <2>3. main' # "returned"
    BY <1>0, <2>1, StepsBeforeReturn, Zenon
  <2> QED BY <2>2, <2>3, Zenon DEF Tally, CountedNow
<1>2. CASE RunReturns
  <2>1. UNCHANGED <<task, worker, done, freed, count>> /\ \A w \in Workers : worker[w].pc = "exited"
    BY <1>2, Zenon DEF RunReturns
  <2>2. CountedNow'
    BY <1>0, <2>1, Zenon DEF CountedNow
  <2> QED BY <2>1, <2>2, Zenon DEF Tally, CountedNow
<1>3. CASE UNCHANGED vars
  BY <1>3, Zenon DEF vars, Tally
<1> QED BY <1>1, <1>2, <1>3, Zenon DEF Next, Exited

\* The counter starts with the number of launched tasks.
LEMMA InitTally == Init => Tally
<1> SUFFICES ASSUME Init PROVE Tally
  BY Zenon
<1>1. PICK m \in Nat : Begins(Launched.tasks, Launched.order, m)
  BY LaunchedBegins, Zenon DEF Init
<1>2. /\ task = Launched.tasks /\ worker = [w \in Workers |-> IdleWorker] /\ count = Len(Launched.order)
      /\ done = {} /\ freed = {} /\ main = "awaiting"
  BY Zenon DEF Init
<1>3. /\ count = m /\ task \in [0 .. m - 1 -> TaskRecs] /\ DOMAIN task = 0 .. m - 1
      /\ \A t \in 0 .. m - 1 : task[t].into[1] = NoTask
  BY <1>1, <1>2, Zenon DEF Begins
<1>4. \A t \in DOMAIN task : ~Uncounted(task, t)
  BY <1>3 DEF Uncounted, NoTask
<1>5. \A w \in Workers : worker[w].pc = "pull"
  BY <1>2, Zenon DEF IdleWorker
<1>6. \A t : ~Doing(worker, "insert", t)
  BY <1>5, Zenon DEF Doing
<1>7. Open(task, worker, {}) = 0 .. m - 1
  BY <1>3, <1>4, <1>6, Zenon DEF Open
<1>8. Cardinality(0 .. m - 1) = m
  BY FS_Interval
<1>9. Leaves(worker, count)
  BY <1>5, Zenon DEF Leaves
<1>10. Counted(task, worker, {}, {}, count)
  BY <1>3, <1>7, <1>8, <1>9, Zenon DEF Counted
<1> QED BY <1>2, <1>10, Zenon DEF Tally

\* AllTasksFinish (see Tasking): Runtime::run returns only when every task that
\* was ever created has finished, is recorded and is deleted, although workers
\* leave on a counter that is raised and lowered without a lock.
THEOREM RunFinishesAllTasks == Spec => []AllTasksFinish
<1>1. ASSUME IInv, Tally PROVE AllTasksFinish
  <2> SUFFICES ASSUME main = "returned"
               PROVE  /\ done = DOMAIN task /\ freed = DOMAIN task /\ count = 0
                      /\ \A t \in DOMAIN task : task[t].state = "finished"
    BY Zenon DEF AllTasksFinish, Labels
  <2>1. \A w \in Workers : worker[w].pc = "exited"
    BY <1>1, Zenon DEF Tally
  <2>2. /\ Typed(task, worker, queue, done, freed) /\ Tasks(task, worker, done)
        /\ Counted(task, worker, done, freed, count)
    BY <1>1, Zenon DEF IInv, Sound, Tally
  <2>3. count = 0
    BY <2>1, <2>2, Zenon DEF Counted, Leaves
  <2>4. Open(task, worker, done) = {}
    BY <2>2, <2>3, OpenIsFinite, Zenon DEF Counted
  <2>5. \A t : ~Runner(worker, t) /\ ~Doing(worker, "insert", t) /\ ~Doing(worker, "delete", t)
    BY <2>1, Zenon DEF Runner, Doing
  <2>6. \A t \in DOMAIN task : ~InTheMiddle(task[t])
    BY <2>2, <2>5, Zenon DEF Tasks
  <2>7. \A t \in DOMAIN task : ~Uncounted(task, t)
    BY <2>6, Zenon DEF Uncounted, Uncounts, InTheMiddle
  <2>8. DOMAIN task \subseteq done
    BY <2>4, <2>5, <2>7, Zenon DEF Open
  <2>9. done \subseteq freed
    BY <2>2, <2>5, Zenon DEF Counted
  <2>10. done \subseteq DOMAIN task /\ freed \subseteq done
    BY <2>2, Zenon DEF Typed
  <2>11. \A t \in DOMAIN task : task[t].state = "finished"
    BY <2>2, <2>8, Zenon DEF Tasks, TaskFits
  <2> QED BY <2>3, <2>8, <2>9, <2>10, <2>11, Zenon
<1>2. Spec => []Tally
  BY InitTally, NextTally, AlwaysSound, PTL DEF Spec
<1> QED BY <1>1, <1>2, AlwaysSound, PTL
=============================================================================
