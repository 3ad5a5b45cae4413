------------------------------ MODULE PgThread ------------------------------
(***************************************************************************)
(* One packetgraph thread (src/src/thread.c): the loop pg_thread_main that *)
(* runs on an lcore, the command queue of struct pg_thread_client that it  *)
(* shares with the callers of the pg_thread_* functions, and those         *)
(* functions.                                                              *)
(*                                                                         *)
(* The queue is protected by is_queue_locked, a test-and-set flag.  A      *)
(* caller appends an operation; pg_thread_main walks the queue from its    *)
(* last slot down; a caller that wants an answer spins until its slot      *)
(* holds PG_THREAD_ANSWER, sets the slot to PG_THREAD_NONE and drops the   *)
(* trailing PG_THREAD_NONE slots.  Between two walks the thread polls its  *)
(* graphs.                                                                 *)
(*                                                                         *)
(* Callers follow the contract of include/packetgraph/thread.h: they name  *)
(* graph ids that pg_thread_add_graph gave them and that they have not     *)
(* popped, a graph is in one thread at a time, and a thread is destroyed   *)
(* when no other call on it is in progress.                                *)
(***************************************************************************)
EXTENDS Integers, Sequences

CONSTANTS
  Clients,    \* the processes that call the pg_thread_* functions
  Graphs,     \* the graphs (struct pg_graph pointers) there are
  MaxOp,      \* PG_THREAD_MAX_OP, 128
  BlockSize,  \* PG_STACK_BLOCK_SIZE, 126: the size of graphs[] and started[]
  ErrLimit,   \* the limit of the stacks errors and errors_gid, 128
  Server,     \* pg_thread_main, as the holder of the lock
  Free,       \* no holder of the lock
  NoGraph     \* the NULL graph

ASSUME ThreadAssumption ==
  /\ MaxOp \in Nat /\ MaxOp > 1
  /\ BlockSize \in Nat /\ BlockSize > 0
  /\ ErrLimit \in Nat /\ ErrLimit > 1
  /\ Server \notin Clients /\ Free \notin Clients /\ Server # Free
  /\ NoGraph \notin Graphs

VARIABLES
  lock,        \* is_queue_locked: who holds it
  queue,       \* client->queue; a NONE slot's arguments are never read
  queue_size,  \* client->queue_size
  main,        \* where pg_thread_main is; "none" when thread_ids[tid] is NULL
  queue_pos,   \* the slot pg_thread_main looks at
  state,       \* enum pg_thread_state of the thread
  graphs, started, last_graph,   \* locals of pg_thread_main
  free_graph, errors, errors_gid,  \* its stacks, the last element on top
  phase,       \* where each caller is in its call
  call,        \* the operation of the call
  slot,        \* queue_id: the slot the operation is in
  held         \* the graph ids each caller was given, and for which graph

serverVars == <<main, queue_pos, state, graphs, started, last_graph,
                free_graph, errors, errors_gid>>
clientVars == <<phase, call, slot, held>>
vars == <<lock, queue, queue_size, serverVars, clientVars>>

Ids    == 0 .. BlockSize - 1
Slots  == 0 .. MaxOp - 1
States == {"STOPPED", "BROKEN", "RUNNING"}

\* Operations whose caller waits for an answer, and those it does not wait for.
SyncOps  == {"STATE", "ADD_GRAPH", "RM_GRAPH", "POP_ERROR", "STOP"}
AsyncOps == {"RUN", "FORCE_START"}
Ops      == SyncOps \cup AsyncOps \cup {"NONE", "ANSWER", "QUIT"}

\* struct thread_op: the members of the unions arg and arg2 by what they hold.
ThreadOp == [op: Ops, id: Ids \cup {-1}, graph: Graphs \cup {NoGraph},
             left: 0 .. ErrLimit, state: States]

Op(op, id, graph) == [op |-> op, id |-> id, graph |-> graph,
                      left |-> 0, state |-> "STOPPED"]
None == Op("NONE", -1, NoGraph)

TypeOK ==
  /\ lock \in Clients \cup {Server, Free}
  /\ queue \in [Slots -> ThreadOp]
  /\ queue_size \in 0 .. MaxOp - 1
  /\ main \in {"none", "top", "ops", "poll", "exited"}
  /\ queue_pos \in Slots \cup {-1}
  /\ state \in States
  /\ graphs \in [Ids -> Graphs \cup {NoGraph}]
  /\ started \in [Ids -> States]
  /\ last_graph \in 0 .. BlockSize
  /\ free_graph \in Seq(Ids)
  /\ errors \in Seq(Graphs \cup {NoGraph})
  /\ errors_gid \in Seq(Ids)
  /\ phase \in [Clients -> {"idle", "enqueue", "append", "wait", "read", "join"}]
  /\ call \in [Clients -> ThreadOp]
  /\ slot \in [Clients -> Slots]
  /\ held \in [Clients -> [Ids -> Graphs \cup {NoGraph}]]

Init ==
  /\ lock = Free
  /\ queue = [i \in Slots |-> None]
  /\ queue_size = 0
  /\ main = "none"
  /\ queue_pos = -1
  /\ state = "STOPPED"
  /\ graphs = [i \in Ids |-> NoGraph]
  /\ started = [i \in Ids |-> "STOPPED"]
  /\ last_graph = 0
  /\ free_graph = <<>> /\ errors = <<>> /\ errors_gid = <<>>
  /\ phase = [c \in Clients |-> "idle"]
  /\ call = [c \in Clients |-> None]
  /\ slot = [c \in Clients |-> 0]
  /\ held = [c \in Clients |-> [i \in Ids |-> NoGraph]]

-----------------------------------------------------------------------------
(* Stacks (src/src/utils/stack.h).                                         *)

\* stack_push on a stack with a limit: refused, without a word, once one more
\* element would make the length reach the limit.
PushLimited(s, v) == IF Len(s) + 1 >= ErrLimit THEN s ELSE Append(s, v)
Top(s) == s[Len(s)]
Pop(s) == IF s = <<>> THEN s ELSE SubSeq(s, 1, Len(s) - 1)

-----------------------------------------------------------------------------
(* The calls.                                                              *)

\* pg_thread_init: a zeroed queue and a pg_thread_main that starts afresh.
ThreadInit ==
  /\ main = "none"
  /\ lock' = Free
  /\ queue' = [i \in Slots |-> None]
  /\ queue_size' = 0
  /\ main' = "top"
  /\ UNCHANGED <<queue_pos, state, graphs, started, last_graph, free_graph,
                 errors, errors_gid, clientVars>>

\* A call enters enqueue_ and spins on the lock.
Call(c, op) ==
  /\ main # "none"
  /\ phase[c] = "idle"
  /\ \A d \in Clients : phase[d] # "join" /\ call[d].op # "QUIT"
  /\ phase' = [phase EXCEPT ![c] = "enqueue"]
  /\ call' = [call EXCEPT ![c] = op]
  /\ UNCHANGED <<lock, queue, queue_size, serverVars, slot, held>>

\* A graph that some caller has put in the thread, or is about to.
InThread(g) == \E d \in Clients : \/ call[d].graph = g
                                  \/ \E i \in Ids : held[d][i] = g

pg_thread_state(c)     == Call(c, Op("STATE", -1, NoGraph))
pg_thread_run(c)       == Call(c, Op("RUN", -1, NoGraph))
pg_thread_stop(c)      == Call(c, Op("STOP", -1, NoGraph))
pg_thread_pop_error(c) == Call(c, Op("POP_ERROR", -1, NoGraph))

pg_thread_add_graph(c) ==
  \E g \in Graphs : ~InThread(g) /\ Call(c, Op("ADD_GRAPH", -1, g))

pg_thread_pop_graph(c) ==
  \E i \in Ids : held[c][i] # NoGraph /\ Call(c, Op("RM_GRAPH", i, NoGraph))

pg_thread_force_start_graph(c) ==
  \E i \in Ids : held[c][i] # NoGraph /\ Call(c, Op("FORCE_START", i, NoGraph))

pg_thread_destroy(c) ==
  /\ \A d \in Clients : phase[d] = "idle"
  /\ Call(c, Op("QUIT", -1, NoGraph))

\* Mutant: enqueue_ goes on when the test-and-set fails.
EnqueueLockUntested(c) ==
  /\ phase[c] = "enqueue"
  /\ lock' = c
  /\ phase' = [phase EXCEPT ![c] = "append"]
  /\ UNCHANGED <<queue, queue_size, serverVars, call, slot, held>>

\* enqueue_ takes the lock.
EnqueueLock(c) ==
  /\ phase[c] = "enqueue"
  /\ lock = Free
  /\ lock' = c
  /\ phase' = [phase EXCEPT ![c] = "append"]
  /\ UNCHANGED <<queue, queue_size, serverVars, call, slot, held>>

\* Mutant: the operation gets a slot beyond the last one wait_enqueue_ allows.
EnqueueAppendUnlimited(c) ==
  /\ phase[c] = "append"
  /\ queue' = [queue EXCEPT ![queue_size] = call[c]]
  /\ queue_size' = queue_size + 1
  /\ lock' = Free
  /\ slot' = [slot EXCEPT ![c] = queue_size]
  /\ phase' = [phase EXCEPT ![c] = "wait"]
  /\ UNCHANGED <<serverVars, held, call>>

\* enqueue_ with the lock: the operation goes to the first unused slot.
EnqueueAppend(c) ==
  /\ phase[c] = "append"
  /\ queue_size + 1 # MaxOp
  /\ queue' = [queue EXCEPT ![queue_size] = call[c]]
  /\ queue_size' = queue_size + 1
  /\ lock' = Free
  /\ IF call[c].op \in SyncOps
     THEN /\ slot' = [slot EXCEPT ![c] = queue_size]
          /\ phase' = [phase EXCEPT ![c] = "wait"]
          /\ UNCHANGED call
     ELSE /\ phase' = [phase EXCEPT ![c] = IF call[c].op = "QUIT"
                                           THEN "join" ELSE "idle"]
          /\ call' = [call EXCEPT ![c] = None]
          /\ UNCHANGED slot
  /\ UNCHANGED <<serverVars, held>>

\* enqueue_ finds no room.  wait_enqueue_ tries again; pg_thread_destroy,
\* which calls enqueue and ignores what it returns, waits for the lcore.
EnqueueFull(c) ==
  /\ phase[c] = "append"
  /\ queue_size + 1 = MaxOp
  /\ lock' = Free
  /\ IF call[c].op = "QUIT"
     THEN /\ phase' = [phase EXCEPT ![c] = "join"]
          /\ call' = [call EXCEPT ![c] = None]
     ELSE /\ phase' = [phase EXCEPT ![c] = "enqueue"]
          /\ UNCHANGED call
  /\ UNCHANGED <<queue, queue_size, serverVars, slot, held>>

\* try_get_answer takes the lock.
AnswerLock(c) ==
  /\ phase[c] = "wait"
  /\ lock = Free
  /\ lock' = c
  /\ phase' = [phase EXCEPT ![c] = "read"]
  /\ UNCHANGED <<queue, queue_size, serverVars, call, slot, held>>

\* try_get_answer finds no answer yet, and wait_answer tries again.
AnswerNotYet(c) ==
  /\ phase[c] = "read"
  /\ queue[slot[c]].op # "ANSWER"
  /\ lock' = Free
  /\ phase' = [phase EXCEPT ![c] = "wait"]
  /\ UNCHANGED <<queue, queue_size, serverVars, call, slot, held>>

\* Mutant: shrink_queue also drops slots whose answer was not read yet.
ShrinksAnswers(q, n) ==
  /\ \A i \in n .. queue_size - 1 : q[i].op \in {"NONE", "ANSWER"}
  /\ n > 0 => q[n - 1].op \notin {"NONE", "ANSWER"}

\* shrink_queue on the queue q: n is the size it leaves.
Shrinks(q, n) ==
  /\ \A i \in n .. queue_size - 1 : q[i].op = "NONE"
  /\ n > 0 => q[n - 1].op # "NONE"

\* The caller reads its answer under the lock, gives the slot back, shrinks
\* the queue and unlocks.  pg_thread_stop shrinks before it gives its slot
\* back, so that its slot stays in the queue.
AnswerTake(c) ==
  LET answer == queue[slot[c]]
      given  == [queue EXCEPT ![slot[c]] = None]
  IN
  /\ phase[c] = "read"
  /\ answer.op = "ANSWER"
  /\ queue' = given
  /\ \E n \in 0 .. queue_size :
        /\ Shrinks(IF call[c].op = "STOP" THEN queue ELSE given, n)
        /\ queue_size' = n
  /\ held' = [held EXCEPT ![c] =
       CASE call[c].op = "ADD_GRAPH" /\ answer.id # -1 ->
              [@ EXCEPT ![answer.id] = call[c].graph]
         [] call[c].op = "RM_GRAPH" -> [@ EXCEPT ![call[c].id] = NoGraph]
         [] OTHER -> @]
  /\ lock' = Free
  /\ phase' = [phase EXCEPT ![c] = "idle"]
  /\ call' = [call EXCEPT ![c] = None]
  /\ slot' = [slot EXCEPT ![c] = 0]
  /\ UNCHANGED serverVars

\* rte_eal_wait_lcore returns in pg_thread_destroy, which frees the queue.
DestroyReturn(c) ==
  /\ phase[c] = "join"
  /\ main = "exited"
  /\ main' = "none"
  /\ phase' = [phase EXCEPT ![c] = "idle"]
  /\ held' = [d \in Clients |-> [i \in Ids |-> NoGraph]]
  /\ queue' = [i \in Slots |-> None]
  /\ queue_size' = 0
  /\ UNCHANGED <<lock, queue_pos, state, graphs, started, last_graph,
                 free_graph, errors, errors_gid, call, slot>>

-----------------------------------------------------------------------------
(* pg_thread_main.                                                         *)

\* Mutant: the test for a stopped thread is missing.
AfterOpsAlwaysPolls(st) == "poll"

\* Below the operations: a stopped thread starts over, another one polls.
AfterOps(st) == IF st = "STOPPED" THEN "top" ELSE "poll"

\* try_lock succeeds and there are operations.
MainLock ==
  /\ main = "top"
  /\ lock = Free
  /\ queue_size > 0
  /\ lock' = Server
  /\ queue_pos' = queue_size - 1
  /\ main' = "ops"
  /\ UNCHANGED <<queue, queue_size, state, graphs, started, last_graph,
                 free_graph, errors, errors_gid, clientVars>>

\* try_lock succeeds on an empty queue: relock, and back to the top of the
\* loop with nothing polled.
MainEmpty ==
  /\ main = "top"
  /\ lock = Free
  /\ queue_size = 0
  /\ UNCHANGED vars

\* try_lock fails.
MainLockFails ==
  /\ main = "top"
  /\ lock # Free
  /\ main' = AfterOps(state)
  /\ UNCHANGED <<lock, queue, queue_size, queue_pos, state, graphs, started,
                 last_graph, free_graph, errors, errors_gid, clientVars>>

\* The operation in the slot pg_thread_main looks at.
cur == queue[queue_pos]
At(op) == main = "ops" /\ cur.op = op

\* The next slot down; slot 0 is looked at only when it is the only one.  The
\* next walk sets queue_pos anew, so that what is left in it does not matter.
Advance(st) ==
  /\ state' = st
  /\ IF queue_pos - 1 > 0
     THEN queue_pos' = queue_pos - 1 /\ UNCHANGED <<lock, main>>
     ELSE queue_pos' = -1 /\ lock' = Free /\ main' = AfterOps(st)

\* The slot pg_thread_main looks at gets the value v, the thread the state st,
\* and pg_thread_main moves on.
Set(v, st) ==
  /\ queue' = [queue EXCEPT ![queue_pos] = v]
  /\ Advance(st)
  /\ UNCHANGED <<queue_size, clientVars>>

\* Mutant: QUIT only leaves the switch.
HandleQuitBreak ==
  /\ At("QUIT")
  /\ Advance(state)
  /\ UNCHANGED <<queue, queue_size, graphs, started, last_graph,
                 free_graph, errors, errors_gid, clientVars>>

\* pg_thread_main returns: its stacks are freed and its locals are gone.
HandleQuit ==
  /\ At("QUIT")
  /\ lock' = Free
  /\ main' = "exited"
  /\ queue_pos' = -1
  /\ state' = "STOPPED"
  /\ graphs' = [i \in Ids |-> NoGraph]
  /\ started' = [i \in Ids |-> "STOPPED"]
  /\ last_graph' = 0
  /\ free_graph' = <<>> /\ errors' = <<>> /\ errors_gid' = <<>>
  /\ UNCHANGED <<queue, queue_size, clientVars>>

\* Mutant: only the errors are popped, not their graph ids.
HandlePopErrorOne ==
  /\ At("POP_ERROR")
  /\ errors' = Pop(errors)
  /\ Set([cur EXCEPT !.op = "ANSWER",
                     !.graph = IF errors = <<>> THEN NoGraph ELSE Top(errors),
                     !.id = IF errors_gid = <<>> THEN -1 ELSE Top(errors_gid)], state)
  /\ UNCHANGED <<graphs, started, last_graph, free_graph, errors_gid>>

HandlePopError ==
  /\ At("POP_ERROR")
  /\ errors' = Pop(errors)
  /\ errors_gid' = Pop(errors_gid)
  /\ Set([cur EXCEPT !.op = "ANSWER",
                     !.graph = IF errors = <<>> THEN NoGraph ELSE Top(errors),
                     !.id = IF errors_gid = <<>> THEN -1 ELSE Top(errors_gid),
                     !.left = Len(errors_gid')], state)
  /\ UNCHANGED <<graphs, started, last_graph, free_graph>>

HandleRmGraph ==
  /\ At("RM_GRAPH")
  /\ free_graph' = Append(free_graph, cur.id)
  /\ started' = [started EXCEPT ![cur.id] = "STOPPED"]
  /\ Set([cur EXCEPT !.op = "ANSWER", !.graph = graphs[cur.id]], state)
  /\ UNCHANGED <<graphs, last_graph, errors, errors_gid>>

\* Mutant: a recycled id keeps the graph it had.
AddGraphAsStale(ret) ==
  /\ graphs' = [graphs EXCEPT ![ret] = IF free_graph = <<>> THEN cur.graph ELSE @]
  /\ started' = [started EXCEPT ![ret] = "RUNNING"]
  /\ Set([cur EXCEPT !.op = "ANSWER", !.id = ret], state)
  /\ UNCHANGED <<errors, errors_gid>>

\* The graph gets the id ret.
AddGraphAs(ret) ==
  /\ graphs' = [graphs EXCEPT ![ret] = cur.graph]
  /\ started' = [started EXCEPT ![ret] = "RUNNING"]
  /\ Set([cur EXCEPT !.op = "ANSWER", !.id = ret], state)
  /\ UNCHANGED <<errors, errors_gid>>

\* Mutant: the id is read from the stack and stays on it.
HandleAddGraphPeek ==
  /\ At("ADD_GRAPH")
  /\ \/ /\ free_graph # <<>>
        /\ AddGraphAs(Top(free_graph))
        /\ UNCHANGED <<free_graph, last_graph>>
     \/ /\ free_graph = <<>>
        /\ last_graph # BlockSize
        /\ last_graph' = last_graph + 1
        /\ AddGraphAs(last_graph)
        /\ UNCHANGED free_graph

HandleAddGraph ==
  /\ At("ADD_GRAPH")
  /\ \/ /\ free_graph # <<>>
        /\ free_graph' = Pop(free_graph)
        /\ AddGraphAs(Top(free_graph))
        /\ UNCHANGED last_graph
     \/ /\ free_graph = <<>>
        /\ last_graph # BlockSize
        /\ last_graph' = last_graph + 1
        /\ AddGraphAs(last_graph)
        /\ UNCHANGED free_graph

\* No id is left: the answer is -1, and the continue that follows goes to the
\* top of the loop past the relock.
HandleAddGraphFull ==
  /\ At("ADD_GRAPH")
  /\ free_graph = <<>>
  /\ last_graph = BlockSize
  /\ queue' = [queue EXCEPT ![queue_pos] = [cur EXCEPT !.op = "ANSWER", !.id = -1]]
  /\ main' = "top"
  /\ UNCHANGED <<lock, queue_size, queue_pos, state, graphs, started, last_graph,
                 free_graph, errors, errors_gid, clientVars>>

HandleForceStart ==
  /\ At("FORCE_START")
  /\ started' = [started EXCEPT ![cur.id] = "RUNNING"]
  /\ Set(None, IF /\ \A i \in 0 .. last_graph - 1 : started'[i] # "BROKEN"
                  /\ errors = <<>>
               THEN "RUNNING" ELSE state)
  /\ UNCHANGED <<graphs, last_graph, free_graph, errors, errors_gid>>

\* Without a graph the operation stays in its slot for a later walk.
HandleRunNoGraph ==
  /\ At("RUN")
  /\ last_graph = 0
  /\ Advance(state)
  /\ UNCHANGED <<queue, queue_size, graphs, started, last_graph,
                 free_graph, errors, errors_gid, clientVars>>

\* Mutant: the broken graphs are left as they are.
HandleRunLeavesBroken ==
  /\ At("RUN")
  /\ last_graph # 0
  /\ Set(None, "RUNNING")
  /\ UNCHANGED <<graphs, started, last_graph, free_graph, errors, errors_gid>>

HandleRun ==
  /\ At("RUN")
  /\ last_graph # 0
  /\ started' = [i \in Ids |-> IF i < last_graph /\ started[i] = "BROKEN"
                               THEN "RUNNING" ELSE started[i]]
  /\ Set(None, "RUNNING")
  /\ UNCHANGED <<graphs, last_graph, free_graph, errors, errors_gid>>

\* Mutant: STOP is cleared like RUN, not answered.
HandleStopUnanswered ==
  /\ At("STOP")
  /\ Set(None, "STOPPED")
  /\ UNCHANGED <<graphs, started, last_graph, free_graph, errors, errors_gid>>

HandleStop ==
  /\ At("STOP")
  /\ Set([cur EXCEPT !.op = "ANSWER"], "STOPPED")
  /\ UNCHANGED <<graphs, started, last_graph, free_graph, errors, errors_gid>>

HandleState ==
  /\ At("STATE")
  /\ Set([cur EXCEPT !.op = "ANSWER", !.state = state], state)
  /\ UNCHANGED <<graphs, started, last_graph, free_graph, errors, errors_gid>>

HandleNone ==
  /\ At("NONE") \/ At("ANSWER")
  /\ Advance(state)
  /\ UNCHANGED <<queue, queue_size, graphs, started, last_graph,
                 free_graph, errors, errors_gid, clientVars>>

\* pg_graph_poll of graph i fails in one of the 32 rounds.
PollFails(i) ==
  /\ main = "poll"
  /\ i < last_graph
  /\ started[i] = "RUNNING"
  /\ state' = "BROKEN"
  /\ started' = [started EXCEPT ![i] = "BROKEN"]
  /\ errors' = PushLimited(errors, graphs[i])
  /\ errors_gid' = PushLimited(errors_gid, i)
  /\ UNCHANGED <<lock, queue, queue_size, main, queue_pos, graphs, last_graph,
                 free_graph, clientVars>>

\* The rounds are over.
PollDone ==
  /\ main = "poll"
  /\ main' = "top"
  /\ UNCHANGED <<lock, queue, queue_size, queue_pos, state, graphs, started,
                 last_graph, free_graph, errors, errors_gid, clientVars>>

MainNext ==
  \/ MainLock \/ MainEmpty \/ MainLockFails
  \/ HandleQuit \/ HandlePopError \/ HandleRmGraph
  \/ HandleAddGraph \/ HandleAddGraphFull
  \/ HandleForceStart \/ HandleRunNoGraph \/ HandleRun
  \/ HandleStop \/ HandleState \/ HandleNone
  \/ PollDone
  \/ \E i \in Ids : PollFails(i)

\* A caller that is inside a call.
InCall(c) ==
  \/ EnqueueLock(c) \/ EnqueueAppend(c) \/ EnqueueFull(c)
  \/ AnswerLock(c) \/ AnswerNotYet(c) \/ AnswerTake(c)
  \/ DestroyReturn(c)

NewCall(c) ==
  \/ pg_thread_state(c) \/ pg_thread_run(c) \/ pg_thread_stop(c)
  \/ pg_thread_pop_error(c) \/ pg_thread_add_graph(c) \/ pg_thread_pop_graph(c)
  \/ pg_thread_force_start_graph(c) \/ pg_thread_destroy(c)

Next ==
  \/ ThreadInit
  \/ MainNext
  \/ \E c \in Clients : NewCall(c) \/ InCall(c)

Spec == Init /\ [][Next]_vars

(***************************************************************************)
(* Fairness.  pg_thread_main never waits: it always takes its next step.   *)
(* A caller in a call does not stop.  Whoever tries the flag gets it if it *)
(* is free again and again: the callers' loops call sched_yield, and the   *)
(* holder keeps the flag for a few instructions only.  For pg_thread_main, *)
(* which tries it between two polls, strong fairness of MainLock is not    *)
(* enough: a caller could hold the flag at each of its tries.  No call has *)
(* to be made, and no poll has to fail.                                    *)
(***************************************************************************)
Fairness ==
  /\ WF_vars(MainNext)
  /\ []<>(lock = Free /\ queue_size > 0) => []<><<MainLock>>_vars
  /\ \A c \in Clients :
       /\ WF_vars(EnqueueAppend(c) \/ EnqueueFull(c))
       /\ WF_vars(AnswerNotYet(c) \/ AnswerTake(c))
       /\ WF_vars(DestroyReturn(c))
       /\ SF_vars(EnqueueLock(c))
       /\ SF_vars(AnswerLock(c))

FairSpec == Spec /\ Fairness

-----------------------------------------------------------------------------
(* Properties.                                                             *)

\* The caller has an operation in the queue and waits for its answer.
InFlight(c) == phase[c] \in {"wait", "read"}

\* The critical sections exclude each other: a caller is between its
\* test-and-set and its clear exactly when it holds the flag, and
\* pg_thread_main holds it through its walk of the queue.
LockExclusion ==
  /\ \A c \in Clients : phase[c] \in {"append", "read"} <=> lock = c
  /\ main = "ops" => lock = Server

\* However many callers share the queue, and whatever is appended, handled and
\* shrunk while one of them waits, its slot stays in the queue and is its own,
\* and holds its operation or the answer to it.  This is what the
\* g_assert(op != PG_THREAD_NONE) of try_get_answer relies on.
WaitersOwnSlots ==
  \A c \in Clients : InFlight(c) =>
    /\ slot[c] < queue_size
    /\ queue[slot[c]].op \in {call[c].op, "ANSWER"}
    /\ \A d \in Clients \ {c} : InFlight(d) => slot[d] # slot[c]

\* The graph ids caller c can name: those it was given, without the one that
\* RM_GRAPH has already taken back, with the one that ADD_GRAPH has just
\* answered.
Answered(c, op) == InFlight(c) /\ call[c].op = op /\ queue[slot[c]].op = "ANSWER"
Owned(c) ==
  {i \in Ids : \/ held[c][i] # NoGraph /\ ~(Answered(c, "RM_GRAPH") /\ call[c].id = i)
               \/ Answered(c, "ADD_GRAPH") /\ queue[slot[c]].id = i}

\* Graph ids are never shared: no id has two owners, no id on the stack
\* free_graph has an owner or is there twice, across every interleaving of
\* ADD_GRAPH and RM_GRAPH.
GraphIdsUnique ==
  /\ \A c, d \in Clients : c # d => Owned(c) \cap Owned(d) = {}
  /\ \A k \in 1 .. Len(free_graph) :
       /\ free_graph[k] < last_graph
       /\ \A c \in Clients : free_graph[k] \notin Owned(c)
       /\ \A l \in 1 .. Len(free_graph) : free_graph[k] = free_graph[l] => k = l

\* pg_thread_pop_graph gives back the graph that was added under the id.
PopReturnsAdded ==
  \A c \in Clients : Answered(c, "RM_GRAPH") =>
    queue[slot[c]].graph = held[c][call[c].id]

\* PG_THREAD_RUNNING means that everything is normal: no graph of the thread
\* is stopped by an error.
RunningMeansNormal ==
  state = "RUNNING" => \A i \in 0 .. last_graph - 1 : started[i] # "BROKEN"

\* The stacks errors and errors_gid stay in step, also at their limit, so that
\* pg_thread_pop_error never pairs an error with another graph's id.
ErrorsPaired ==
  /\ Len(errors) = Len(errors_gid)
  /\ Len(errors) < ErrLimit

\* A call that has its operation in the queue gets its answer.
SyncCallReturns ==
  \A c \in Clients : phase[c] = "wait" ~> phase[c] = "idle"

\* An operation QUIT that is in the queue ends the thread.
QuitEnds ==
  (\E i \in 0 .. queue_size - 1 : queue[i].op = "QUIT") ~> main = "none"

\* A call of pg_thread_add_graph returns, with an id or with -1.
AddGraphReturns ==
  \A c \in Clients :
    (phase[c] = "wait" /\ call[c].op = "ADD_GRAPH") ~> phase[c] = "idle"

\* A thread in state PG_THREAD_RUNNING polls its graphs, again and again.
RunningPolls == state = "RUNNING" ~> (main = "poll" \/ state # "RUNNING")
=============================================================================
