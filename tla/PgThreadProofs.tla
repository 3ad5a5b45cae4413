--------------------------- MODULE PgThreadProofs ---------------------------
(***************************************************************************)
(* Theorems about PgThread, for every number of callers, graphs, slots and *)
(* graph ids.                                                              *)
(***************************************************************************)
EXTENDS PgThread, PgThreadStop, TLAPS

-----------------------------------------------------------------------------
(* The inductive invariant.                                                *)

\* Where pg_thread_main looks, and the ids it uses as an index, are in range.
Indexes ==
  /\ main = "ops" => queue_pos \in 0 .. queue_size - 1
  /\ \A i \in Slots : queue[i].op \in {"RM_GRAPH", "FORCE_START"} => queue[i].id \in Ids
  /\ \A c \in Clients : call[c].op \in {"RM_GRAPH", "FORCE_START"} => call[c].id \in Ids

\* What a caller asks for at each place of its call.
Calls ==
  \A c \in Clients :
    /\ phase[c] \in {"idle", "join"} => call[c] = None
    /\ phase[c] \in {"enqueue", "append"} => call[c].op \in SyncOps \cup AsyncOps \cup {"QUIT"}
    /\ InFlight(c) => call[c].op \in SyncOps

\* pg_thread_destroy has the thread to itself, and the thread is gone only
\* after it: while it runs every other caller is outside.
Destroying(c) == phase[c] = "join" \/ call[c].op = "QUIT"
Destroy ==
  /\ \A c, d \in Clients : Destroying(c) /\ c # d => phase[d] = "idle"
  /\ main = "exited" => \E c \in Clients : phase[c] = "join"
  /\ main = "none" => \A c \in Clients : phase[c] = "idle"
  /\ \A i \in Slots : queue[i].op = "QUIT" => \E c \in Clients : phase[c] = "join"

IInv ==
  /\ TypeOK
  /\ Indexes
  /\ Calls
  /\ Destroy
  /\ LockExclusion
  /\ WaitersOwnSlots
  /\ ErrorsPaired

-----------------------------------------------------------------------------
(* The stacks.                                                             *)

\* The constants are what ThreadAssumption says, and the three-way tests on
\* who holds the lock are meaningful.
LEMMA Constants ==
  /\ MaxOp \in Nat /\ MaxOp > 1 /\ BlockSize \in Nat /\ BlockSize > 0
  /\ ErrLimit \in Nat /\ ErrLimit > 1
  /\ Server \notin Clients /\ Free \notin Clients /\ Server # Free
  BY ThreadAssumption

\* The length and the elements of a stack.
LEMMA LenProperties ==
  ASSUME NEW S, NEW s \in Seq(S)
  PROVE  /\ Len(s) \in Nat /\ DOMAIN s = 1 .. Len(s) /\ (s = <<>> <=> Len(s) = 0)
         /\ \A k \in 1 .. Len(s) : s[k] \in S
  OBVIOUS

\* stack_push without a limit.
LEMMA AppendProperties ==
  ASSUME NEW S, NEW s \in Seq(S), NEW v \in S
  PROVE  /\ Append(s, v) \in Seq(S) /\ Len(Append(s, v)) = Len(s) + 1
         /\ \A k \in 1 .. Len(s) : Append(s, v)[k] = s[k]
         /\ Append(s, v)[Len(s) + 1] = v
  OBVIOUS

\* stack_pop leaves a stack of the same type with one element less, if it had
\* one, and gives an element of the stack's type.
LEMMA PopProperties ==
  ASSUME NEW S, NEW s \in Seq(S)
  PROVE  /\ Pop(s) \in Seq(S)
         /\ Len(Pop(s)) = IF Len(s) = 0 THEN 0 ELSE Len(s) - 1
         /\ \A k \in 1 .. Len(Pop(s)) : Pop(s)[k] = s[k]
         /\ (s = <<>> <=> Len(s) = 0)
         /\ s # <<>> => Top(s) \in S
  <1>1. Len(s) \in Nat /\ (s = <<>> <=> Len(s) = 0)
    BY LenProperties
  <1>2. CASE s = <<>>
    BY <1>1, <1>2 DEF Pop
  <1>3. CASE s # <<>>
    <2>1. \A i \in 1 .. Len(s) - 1 : s[i] \in S
      BY <1>1, LenProperties
    <2>2. Top(s) \in S
      BY <1>1, <1>3, LenProperties DEF Top
    <2>3. Pop(s) = SubSeq(s, 1, Len(s) - 1)
      BY <1>3 DEF Pop
    <2>4. /\ SubSeq(s, 1, Len(s) - 1) \in Seq(S)
          /\ Len(SubSeq(s, 1, Len(s) - 1)) = Len(s) - 1
          /\ \A k \in 1 .. Len(s) - 1 : SubSeq(s, 1, Len(s) - 1)[k] = s[k]
      <3> DEFINE n == Len(s) - 1
      <3>1. n \in Nat /\ 1 \in Int /\ n \in Int
        BY <1>1, <1>3
      <3> HIDE DEF n
      <3>2. SubSeq(s, 1, n) \in Seq(S)
        <4>1. [k \in 1 .. n |-> s[k]] \in [1 .. n -> S]
          BY <2>1 DEF n
        <4>2. [k \in 1 .. n |-> s[k]] \in Seq(S)
          BY <3>1, <4>1
        <4>3. SubSeq(s, 1, n) = [k \in 1 .. n |-> s[k]]
          BY <3>1
        <4>4. QED
          BY <4>2, <4>3, Zenon
      <3>3. Len(SubSeq(s, 1, n)) = n
        BY <2>1, <3>1
      <3>4. \A k \in 1 .. n : SubSeq(s, 1, n)[k] = s[k]
        BY <2>1, <3>1
      <3>5. QED
        BY <3>2, <3>3, <3>4 DEF n
    <2>5. QED
      BY <1>1, <1>3, <2>2, <2>3, <2>4
  <1>4. QED
    BY <1>2, <1>3

\* stack_push with a limit keeps the type and keeps the length below the limit.
LEMMA PushProperties ==
  ASSUME NEW S, NEW s \in Seq(S), NEW v \in S
  PROVE  /\ PushLimited(s, v) \in Seq(S)
         /\ Len(PushLimited(s, v)) = IF Len(s) + 1 >= ErrLimit
                                     THEN Len(s) ELSE Len(s) + 1
  BY AppendProperties, LenProperties DEF PushLimited

-----------------------------------------------------------------------------
(* The invariant holds initially and every step preserves it.              *)

LEMMA InitIInv == Init => IInv
  <1> SUFFICES ASSUME Init PROVE IInv
    OBVIOUS
  <1> USE Constants, ThreadAssumption
  <1>0. None \in ThreadOp /\ 0 \in Slots
    BY DEF None, Op, ThreadOp, Ops, SyncOps, AsyncOps, States, Slots
  <1>1. TypeOK
    BY <1>0 DEF Init, TypeOK, States
  <1>2. Indexes
    BY DEF Init, Indexes, None, Op
  <1>3. Calls
    BY Zenon DEF Init, Calls, InFlight
  <1>4. Destroy
    BY DEF Init, Destroy, Destroying, None, Op
  <1>5. LockExclusion
    BY DEF Init, LockExclusion
  <1>6. WaitersOwnSlots
    BY DEF Init, WaitersOwnSlots, InFlight
  <1>7. ErrorsPaired
    BY DEF Init, ErrorsPaired
  <1>8. QED
    BY <1>1, <1>2, <1>3, <1>4, <1>5, <1>6, <1>7 DEF IInv

\* The steps of a call keep the types.
LEMMA ClientType ==
  ASSUME IInv, NEW c \in Clients, InCall(c) \/ NewCall(c)
  PROVE  TypeOK'
  <1> USE Constants, ThreadAssumption DEF IInv, vars, serverVars, clientVars
  <1>0. None \in ThreadOp /\ 0 \in Slots
    BY DEF None, Op, ThreadOp, Ops, SyncOps, AsyncOps, States, Slots
  <1>2. ASSUME NEW op \in ThreadOp, Call(c, op) PROVE TypeOK'
    BY <1>2 DEF Call, TypeOK
  <1>3. CASE NewCall(c)
    <2>1. \A g \in Graphs \cup {NoGraph}, i \in Ids \cup {-1}, o \in Ops : Op(o, i, g) \in ThreadOp
      BY DEF Op, ThreadOp, States
    <2>2. QED
      BY <1>2, <1>3, <2>1 DEF NewCall, pg_thread_state, pg_thread_run, pg_thread_stop,
         pg_thread_pop_error, pg_thread_add_graph, pg_thread_pop_graph,
         pg_thread_force_start_graph, pg_thread_destroy, Ops, SyncOps, AsyncOps
  <1>4. CASE EnqueueLock(c)
    BY <1>4 DEF EnqueueLock, TypeOK
  <1>5. CASE EnqueueAppend(c)
    <2>1. queue_size \in Slots /\ queue_size + 1 \in 0 .. MaxOp - 1
      BY <1>5 DEF EnqueueAppend, TypeOK, Slots
    <2>2. QED
      BY <1>0, <1>5, <2>1, ZenonT(60) DEF EnqueueAppend, TypeOK
  <1>6. CASE EnqueueFull(c)
    <2>1. CASE call[c].op = "QUIT"
      <3>1. /\ phase' \in [Clients -> {"idle", "enqueue", "append", "wait", "read", "join"}]
            /\ call' \in [Clients -> ThreadOp]
        <4>1. phase' = [phase EXCEPT ![c] = "join"] /\ call' = [call EXCEPT ![c] = None]
          BY <1>6, <2>1, Zenon DEF EnqueueFull
        <4>2. /\ phase \in [Clients -> {"idle", "enqueue", "append", "wait", "read", "join"}]
              /\ call \in [Clients -> ThreadOp]
          BY Zenon DEF TypeOK
        <4>3. QED
          BY <1>0, <4>1, <4>2
      <3>2. lock' = Free /\ UNCHANGED <<queue, queue_size, serverVars, slot, held>>
        BY <1>6 DEF EnqueueFull
      <3>3. QED
        BY <3>1, <3>2 DEF TypeOK, serverVars
    <2>2. CASE call[c].op # "QUIT"
      BY <1>6, <2>2, Zenon DEF EnqueueFull, TypeOK
    <2>3. QED
      BY <2>1, <2>2
  <1>7. CASE AnswerLock(c)
    BY <1>7 DEF AnswerLock, TypeOK
  <1>8. CASE AnswerNotYet(c)
    BY <1>8 DEF AnswerNotYet, TypeOK
  <1>9. CASE AnswerTake(c)
    <2>1. queue' \in [Slots -> ThreadOp] /\ queue_size' \in 0 .. MaxOp - 1
      BY <1>0, <1>9 DEF AnswerTake, TypeOK
    <2>2. held' \in [Clients -> [Ids -> Graphs \cup {NoGraph}]]
      <3>1. queue[slot[c]] \in ThreadOp /\ call[c] \in ThreadOp /\ held[c] \in [Ids -> Graphs \cup {NoGraph}]
        BY DEF TypeOK
      <3>2. QED
        BY <1>9, <3>1, Zenon DEF AnswerTake, TypeOK, ThreadOp
    <2>3. QED
      BY <1>0, <1>9, <2>1, <2>2 DEF AnswerTake, TypeOK
  <1>10. CASE DestroyReturn(c)
    BY <1>0, <1>10 DEF DestroyReturn, TypeOK
  <1>11. QED
    BY <1>3, <1>4, <1>5, <1>6, <1>7, <1>8, <1>9, <1>10 DEF InCall

\* What a step of pg_thread_main does to the queue it shares with the callers:
\* it answers an operation whose caller waits, clears one whose caller does
\* not, or leaves the queue alone.
Rewrites ==
  \E v \in ThreadOp :
    /\ queue' = [queue EXCEPT ![queue_pos] = v]
    /\ \/ v.op = "ANSWER" /\ cur.op \in SyncOps
       \/ v = None /\ cur.op \in AsyncOps

\* ... and to the lock and its own place in the loop.
Shared ==
  /\ UNCHANGED <<queue_size, clientVars>>
  /\ queue' = queue \/ (main = "ops" /\ Rewrites)
  /\ lock' = lock \/ (lock' \in {Server, Free} /\ lock \in {Server, Free})
  /\ main # "none" /\ main' # "none"
  /\ main' = "exited" => main = "ops" /\ cur.op = "QUIT"
  /\ main' = "ops" => lock' = Server /\ queue_pos' \in 0 .. queue_size - 1
  /\ queue_pos' \in Slots \cup {-1}
  /\ main' \in {"top", "ops", "poll", "exited"}

\* The trailing part of a handler, once the slot's new value is known.
LEMMA SetShared ==
  ASSUME IInv, main = "ops", NEW st \in States, NEW v \in ThreadOp, Set(v, st),
         \/ v.op = "ANSWER" /\ cur.op \in SyncOps
         \/ v = None /\ cur.op \in AsyncOps
  PROVE  Shared /\ state' \in States
  <1> USE Constants DEF IInv, TypeOK, Indexes, LockExclusion
  <1>1. Rewrites
    BY Zenon DEF Set, Rewrites
  <1>2. QED
    BY <1>1 DEF Set, Advance, AfterOps, Shared, Slots

\* The slot pg_thread_main looks at is a slot, and what it holds is typed.
LEMMA CurType ==
  ASSUME IInv, main = "ops"
  PROVE  /\ queue_pos \in Slots /\ lock = Server
         /\ cur \in ThreadOp
         /\ cur.op \in {"RM_GRAPH", "FORCE_START"} => cur.id \in Ids
  <1> USE Constants DEF IInv, TypeOK, Indexes, LockExclusion
  <1>1. queue_pos \in Slots
    BY DEF Slots
  <1>2. QED
    BY <1>1 DEF cur

LEMMA ServerStep ==
  ASSUME IInv, MainNext
  PROVE  Shared /\ TypeOK' /\ ErrorsPaired'
  <1> USE Constants DEF At
  <1> DEFINE Locals == <<graphs, started, last_graph, free_graph, errors, errors_gid>>
             LocalsOK == /\ graphs \in [Ids -> Graphs \cup {NoGraph}]
                         /\ started \in [Ids -> States]
                         /\ last_graph \in 0 .. BlockSize
                         /\ free_graph \in Seq(Ids)
                         /\ errors \in Seq(Graphs \cup {NoGraph})
                         /\ errors_gid \in Seq(Ids)
                         /\ Len(errors) = Len(errors_gid)
                         /\ Len(errors) < ErrLimit
                         /\ Len(errors) \in Nat
  <1>0. LocalsOK /\ state \in States
    BY LenProperties DEF IInv, TypeOK, ErrorsPaired
  <1>a. SUFFICES Shared /\ state' \in States /\ LocalsOK'
    <2> SUFFICES ASSUME Shared, state' \in States, LocalsOK'
                 PROVE  TypeOK' /\ ErrorsPaired'
      OBVIOUS
    <2>1. queue' \in [Slots -> ThreadOp]
      BY CurType, Zenon DEF Shared, Rewrites, IInv, TypeOK
    <2>2. lock' \in Clients \cup {Server, Free}
      BY DEF Shared, IInv, TypeOK
    <2>3. QED
      BY <2>1, <2>2 DEF Shared, clientVars, IInv, TypeOK, ErrorsPaired
  <1>1. CASE MainLock
    <2>1. queue_size - 1 \in Slots /\ queue_size - 1 \in 0 .. queue_size - 1
      BY <1>1 DEF MainLock, IInv, TypeOK, Slots
    <2>2. QED
      BY <1>0, <1>1, <2>1 DEF MainLock, Shared
  <1>2. CASE MainEmpty
    BY <1>0, <1>2 DEF MainEmpty, vars, serverVars, Shared, IInv, TypeOK
  <1>3. CASE MainLockFails \/ PollDone
    BY <1>0, <1>3 DEF MainLockFails, PollDone, AfterOps, Shared, IInv, TypeOK
  <1>4. CASE HandleQuit
    BY <1>0, <1>4, CurType DEF HandleQuit, Shared, IInv, TypeOK, States
  <1>5. CASE HandlePopError
    <2> DEFINE v == [cur EXCEPT !.op = "ANSWER",
                     !.graph = IF errors = <<>> THEN NoGraph ELSE Top(errors),
                     !.id = IF errors_gid = <<>> THEN -1 ELSE Top(errors_gid),
                     !.left = Len(errors_gid')]
    <2>1. LocalsOK'
      <3>1. /\ Pop(errors) \in Seq(Graphs \cup {NoGraph})
            /\ Len(Pop(errors)) = IF Len(errors) = 0 THEN 0 ELSE Len(errors) - 1
        BY <1>0, PopProperties, Zenon
      <3>2. /\ Pop(errors_gid) \in Seq(Ids)
            /\ Len(Pop(errors_gid)) = IF Len(errors_gid) = 0 THEN 0 ELSE Len(errors_gid) - 1
        BY <1>0, PopProperties
      <3>3. QED
        BY <1>0, <1>5, <3>1, <3>2 DEF HandlePopError
    <2>2. v \in ThreadOp /\ v.op = "ANSWER"
      <3>1. errors # <<>> => Top(errors) \in Graphs \cup {NoGraph}
        BY <1>0, PopProperties
      <3>2. errors_gid # <<>> => Top(errors_gid) \in Ids
        BY <1>0, PopProperties
      <3>3. Len(errors_gid') \in 0 .. ErrLimit
        BY <2>1
      <3>4. cur \in ThreadOp
        BY <1>5, CurType DEF HandlePopError
      <3>5. QED
        BY <3>1, <3>2, <3>3, <3>4, Zenon DEF ThreadOp, Ops
    <2>3. QED
      BY <1>0, <1>5, <2>1, <2>2, SetShared, Zenon DEF HandlePopError, SyncOps
  <1>6. CASE HandleRmGraph
    <2>1. cur \in ThreadOp /\ cur.id \in Ids
      BY <1>6, CurType DEF HandleRmGraph
    <2>2. LocalsOK'
      BY <1>0, <1>6, <2>1, AppendProperties DEF HandleRmGraph, States, Set
    <2>3. [cur EXCEPT !.op = "ANSWER", !.graph = graphs[cur.id]] \in ThreadOp
      BY <1>0, <2>1, Zenon DEF ThreadOp, Ops
    <2>4. QED
      BY <1>0, <1>6, <2>1, <2>2, <2>3, SetShared, Zenon DEF HandleRmGraph, SyncOps, ThreadOp
  <1>7. CASE HandleAddGraph
    <2>1. cur \in ThreadOp
      BY <1>7, CurType DEF HandleAddGraph
    <2>2. ASSUME NEW ret \in Ids, AddGraphAs(ret)
          PROVE  /\ Shared /\ state' \in States
                 /\ graphs' \in [Ids -> Graphs \cup {NoGraph}]
                 /\ started' \in [Ids -> States]
                 /\ UNCHANGED <<errors, errors_gid>>
      <3>1. [cur EXCEPT !.op = "ANSWER", !.id = ret] \in ThreadOp
        BY <2>1, Zenon DEF ThreadOp, Ops
      <3>2. cur.graph \in Graphs \cup {NoGraph}
        BY <2>1 DEF ThreadOp
      <3>3. QED
        BY <1>0, <1>7, <2>1, <2>2, <3>1, <3>2, SetShared, Zenon
        DEF HandleAddGraph, AddGraphAs, SyncOps, States, ThreadOp
    <2>3. CASE free_graph # <<>>
      BY <1>0, <1>7, <2>2, <2>3, PopProperties DEF HandleAddGraph
    <2>4. CASE free_graph = <<>>
      <3>1. last_graph \in Ids /\ last_graph + 1 \in 0 .. BlockSize
        BY <1>0, <1>7, <2>4 DEF HandleAddGraph, Ids
      <3>2. QED
        BY <1>0, <1>7, <2>2, <2>4, <3>1 DEF HandleAddGraph
    <2>5. QED
      BY <2>3, <2>4
  <1>8. CASE HandleAddGraphFull
    <2>1. cur \in ThreadOp /\ cur.op = "ADD_GRAPH" /\ main = "ops" /\ lock = Server
      BY <1>8, CurType DEF HandleAddGraphFull
    <2>2. [cur EXCEPT !.op = "ANSWER", !.id = -1] \in ThreadOp
      BY <2>1, Zenon DEF ThreadOp, Ops
    <2>3. Rewrites
      BY <1>8, <2>1, <2>2, Zenon DEF HandleAddGraphFull, Rewrites, SyncOps, ThreadOp
    <2>4. QED
      BY <1>0, <1>8, <2>1, <2>3 DEF HandleAddGraphFull, Shared, IInv, TypeOK
  <1>9. CASE HandleForceStart
    <2>1. cur \in ThreadOp /\ cur.id \in Ids
      BY <1>9, CurType DEF HandleForceStart
    <2>2. LocalsOK'
      BY <1>0, <1>9, <2>1 DEF HandleForceStart, States
    <2>3. None \in ThreadOp
      BY DEF None, Op, ThreadOp, Ops, States
    <2>4. QED
      BY <1>0, <1>9, <2>2, <2>3, SetShared DEF HandleForceStart, AsyncOps, States
  <1>10. CASE HandleRun
    <2>1. LocalsOK'
      BY <1>0, <1>10 DEF HandleRun, States
    <2>2. None \in ThreadOp
      BY DEF None, Op, ThreadOp, Ops, States
    <2>3. QED
      BY <1>0, <1>10, <2>1, <2>2, SetShared DEF HandleRun, AsyncOps, States
  <1>11. CASE HandleRunNoGraph \/ HandleNone
    <2>1. /\ main = "ops" /\ Advance(state)
          /\ UNCHANGED <<queue, queue_size, clientVars>> /\ UNCHANGED Locals
      BY <1>11 DEF HandleRunNoGraph, HandleNone
    <2>2. queue_pos \in Slots /\ lock = Server
      BY <2>1, CurType
    <2>3. state' \in States /\ LocalsOK'
      BY <1>0, <2>1 DEF Advance
    <2>4. Shared
      BY <1>0, <2>1, <2>2 DEF Advance, AfterOps, Shared, IInv, TypeOK, Indexes, Slots
    <2>5. QED
      BY <2>3, <2>4
  <1>12. CASE HandleStop
    <2>1. cur \in ThreadOp
      BY <1>12, CurType DEF HandleStop
    <2>2. [cur EXCEPT !.op = "ANSWER"] \in ThreadOp
      BY <2>1 DEF ThreadOp, Ops
    <2>3. QED
      BY <1>0, <1>12, <2>1, <2>2, SetShared DEF HandleStop, SyncOps, ThreadOp, States
  <1>13. CASE HandleState
    <2>1. cur \in ThreadOp
      BY <1>13, CurType DEF HandleState
    <2>2. [cur EXCEPT !.op = "ANSWER", !.state = state] \in ThreadOp
      BY <1>0, <2>1, Zenon DEF ThreadOp, Ops
    <2>3. QED
      BY <1>0, <1>13, <2>1, <2>2, SetShared, Zenon DEF HandleState, SyncOps, ThreadOp
  <1>14. ASSUME NEW i \in Ids, PollFails(i)
         PROVE  Shared /\ state' \in States /\ LocalsOK'
    <2>1. /\ errors' \in Seq(Graphs \cup {NoGraph})
          /\ Len(errors') = IF Len(errors) + 1 >= ErrLimit THEN Len(errors) ELSE Len(errors) + 1
      BY <1>0, <1>14, PushProperties, Zenon DEF PollFails
    <2>2. /\ errors_gid' \in Seq(Ids)
          /\ Len(errors_gid') = IF Len(errors_gid) + 1 >= ErrLimit
                                THEN Len(errors_gid) ELSE Len(errors_gid) + 1
      BY <1>0, <1>14, PushProperties, Zenon DEF PollFails
    <2>3. Shared /\ state' \in States
      BY <1>14 DEF PollFails, Shared, IInv, TypeOK, States
    <2>4. QED
      BY <1>0, <1>14, <2>1, <2>2, <2>3 DEF PollFails, States
  <1>15. QED
    BY <1>1, <1>2, <1>3, <1>4, <1>5, <1>6, <1>7, <1>8, <1>9, <1>10, <1>11,
       <1>12, <1>13, <1>14 DEF MainNext

\* A step of pg_thread_main preserves the invariant.
LEMMA ServerIInv == ASSUME IInv, MainNext PROVE IInv'
  <1> USE Constants
  <1>1. Shared /\ TypeOK' /\ ErrorsPaired'
    BY ServerStep
  <1>2. phase' = phase /\ call' = call /\ slot' = slot /\ queue_size' = queue_size
    BY <1>1 DEF Shared, clientVars
  <1>3. /\ queue \in [Slots -> ThreadOp]
        /\ slot \in [Clients -> Slots]
        /\ call \in [Clients -> ThreadOp]
        /\ phase \in [Clients -> {"idle", "enqueue", "append", "wait", "read", "join"}]
    BY DEF IInv, TypeOK
  \* The operation of a slot changes only to the answer of a call that waits,
  \* or to NONE when none does.
  <1>4. \A i \in Slots : \/ queue'[i] = queue[i]
                         \/ queue'[i].op = "ANSWER" /\ queue[i].op \in SyncOps
                         \/ queue'[i].op = "NONE" /\ queue[i].op \in AsyncOps
    <2>1. CASE queue' = queue
      BY <2>1
    <2>2. CASE main = "ops" /\ Rewrites
      <3>1. PICK v \in ThreadOp :
              /\ queue' = [queue EXCEPT ![queue_pos] = v]
              /\ \/ v.op = "ANSWER" /\ cur.op \in SyncOps
                 \/ v = None /\ cur.op \in AsyncOps
        BY <2>2, Zenon DEF Rewrites
      <3>2. None.op = "NONE"
        BY DEF None, Op
      <3>3. QED
        BY <1>3, <3>1, <3>2 DEF cur
    <2>3. QED
      BY <1>1, <2>1, <2>2 DEF Shared
  <1>5. Indexes'
    BY <1>1, <1>2, <1>4 DEF IInv, Indexes, Shared
  <1>6. Calls'
    BY <1>2 DEF IInv, Calls, InFlight
  <1>7. Destroy'
    <2>1. main = "ops" => queue_pos \in Slots
      BY CurType
    <2>2. main' = "exited" => \E c \in Clients : phase[c] = "join"
      BY <1>1, <2>1 DEF Shared, cur, IInv, Destroy
    <2>3. \A i \in Slots : queue'[i].op = "QUIT" => queue[i].op = "QUIT"
      BY <1>4
    <2>4. QED
      BY <1>1, <1>2, <2>2, <2>3 DEF IInv, Destroy, Destroying, Shared
  <1>8. LockExclusion'
    BY <1>1, <1>2 DEF IInv, LockExclusion, Shared
  <1>9. WaitersOwnSlots'
    <2> SUFFICES ASSUME NEW c \in Clients, InFlight(c)
                 PROVE  queue'[slot[c]].op \in {call[c].op, "ANSWER"}
      BY <1>2 DEF IInv, WaitersOwnSlots, InFlight
    <2>1. /\ slot[c] \in Slots
          /\ queue[slot[c]].op \in {call[c].op, "ANSWER"}
          /\ call[c].op \in SyncOps
      BY <1>3 DEF IInv, WaitersOwnSlots, Calls
    <2>2. queue[slot[c]].op \notin AsyncOps
      BY <2>1 DEF SyncOps, AsyncOps
    <2>3. QED
      BY <1>4, <2>1, <2>2
  <1>10. QED
    BY <1>1, <1>5, <1>6, <1>7, <1>8, <1>9 DEF IInv

\* A new call preserves the invariant.
LEMMA NewCallIInv == ASSUME IInv, NEW c \in Clients, NewCall(c) PROVE IInv'
  <1> USE Constants
  <1>1. PICK op \in ThreadOp :
          /\ Call(c, op)
          /\ op.op \in SyncOps \cup AsyncOps \cup {"QUIT"}
          /\ op.op \in {"RM_GRAPH", "FORCE_START"} => op.id \in Ids
          /\ op.op = "QUIT" => \A d \in Clients : phase[d] = "idle"
    <2>1. \A g \in Graphs \cup {NoGraph}, i \in Ids \cup {-1}, o \in Ops :
            Op(o, i, g) \in ThreadOp /\ Op(o, i, g).op = o /\ Op(o, i, g).id = i
      BY DEF Op, ThreadOp, States
    <2>2. QED
      BY <2>1 DEF NewCall, pg_thread_state, pg_thread_run, pg_thread_stop,
         pg_thread_pop_error, pg_thread_add_graph, pg_thread_pop_graph,
         pg_thread_force_start_graph, pg_thread_destroy, Ops, SyncOps, AsyncOps
  <1>2. TypeOK'
    BY ClientType
  <1>3. /\ UNCHANGED <<lock, queue, queue_size, main, queue_pos, errors, errors_gid, slot>>
        /\ phase' = [phase EXCEPT ![c] = "enqueue"]
        /\ call' = [call EXCEPT ![c] = op]
        /\ phase[c] = "idle"
        /\ \A d \in Clients : ~Destroying(d)
        /\ main # "none"
    BY <1>1 DEF Call, serverVars, Destroying
  <1>4. /\ phase \in [Clients -> {"idle", "enqueue", "append", "wait", "read", "join"}]
        /\ call \in [Clients -> ThreadOp]
    BY DEF IInv, TypeOK
  <1>5. Indexes'
    BY <1>1, <1>3, <1>4 DEF IInv, Indexes
  <1>6. Calls'
    BY <1>1, <1>3, <1>4 DEF IInv, Calls, InFlight
  <1>7. Destroy'
    <2>1. \A i \in Slots : queue[i].op # "QUIT"
      BY <1>3 DEF IInv, Destroy, Destroying
    <2>2. main # "exited"
      BY <1>3 DEF IInv, Destroy, Destroying
    <2>3. QED
      BY <1>1, <1>3, <1>4, <2>1, <2>2 DEF IInv, Destroy, Destroying
  <1>8. LockExclusion'
    BY <1>3, <1>4 DEF IInv, LockExclusion
  <1>9. WaitersOwnSlots'
    BY <1>3, <1>4 DEF IInv, WaitersOwnSlots, InFlight
  <1>10. ErrorsPaired'
    BY <1>3 DEF IInv, ErrorsPaired
  <1>11. QED
    BY <1>2, <1>5, <1>6, <1>7, <1>8, <1>9, <1>10 DEF IInv

\* The steps inside a call preserve the invariant.
LEMMA InCallIInv == ASSUME IInv, NEW c \in Clients, InCall(c) PROVE IInv'
  <1> USE Constants
  <1>0. /\ TypeOK'
        /\ phase \in [Clients -> {"idle", "enqueue", "append", "wait", "read", "join"}]
        /\ call \in [Clients -> ThreadOp]
        /\ slot \in [Clients -> Slots]
        /\ queue \in [Slots -> ThreadOp]
        /\ queue_size \in 0 .. MaxOp - 1
    BY ClientType DEF IInv, TypeOK
  <1>1. SUFFICES Indexes' /\ Calls' /\ Destroy' /\ LockExclusion' /\ WaitersOwnSlots'
    <2>1. ErrorsPaired'
      BY DEF IInv, ErrorsPaired, InCall, EnqueueLock, EnqueueAppend, EnqueueFull,
         AnswerLock, AnswerNotYet, AnswerTake, DestroyReturn, serverVars
    <2>2. QED
      BY <1>0, <2>1 DEF IInv
  <1>a. None.op = "NONE"
    BY DEF None, Op
  <1>2. CASE EnqueueLock(c) \/ AnswerLock(c) \/ AnswerNotYet(c)
    <2> USE <1>0, <1>2 DEF EnqueueLock, AnswerLock, AnswerNotYet, serverVars
    <2>1. Indexes'
      BY DEF IInv, Indexes
    <2>2. Calls'
      BY DEF IInv, Calls, InFlight
    <2>3. Destroy'
      BY DEF IInv, Destroy, Destroying
    <2>4. LockExclusion'
      BY DEF IInv, LockExclusion
    <2>5. WaitersOwnSlots'
      BY DEF IInv, WaitersOwnSlots, InFlight
    <2>6. QED
      BY <2>1, <2>2, <2>3, <2>4, <2>5
  <1>3. CASE EnqueueFull(c)
    <2> USE <1>0, <1>a, <1>3 DEF EnqueueFull, serverVars
    <2>1. Indexes'
      BY DEF IInv, Indexes
    <2>2. Calls'
      BY DEF IInv, Calls, InFlight
    <2>3. Destroy'
      BY DEF IInv, Destroy, Destroying
    <2>4. LockExclusion'
      BY DEF IInv, LockExclusion
    <2>5. WaitersOwnSlots'
      BY DEF IInv, WaitersOwnSlots, InFlight
    <2>6. QED
      BY <2>1, <2>2, <2>3, <2>4, <2>5
  <1>4. CASE EnqueueAppend(c)
    <2> USE <1>0, <1>a, <1>4 DEF EnqueueAppend, serverVars
    <2>0. lock = c /\ main # "ops" /\ queue_size \in Slots /\ main # "none"
      BY DEF IInv, LockExclusion, Destroy, Slots
    <2>1. Indexes'
      BY <2>0 DEF IInv, Indexes
    <2>2. Calls'
      BY DEF IInv, Calls, InFlight
    <2>3. Destroy'
      BY <2>0 DEF IInv, Destroy, Destroying, SyncOps
    <2>4. LockExclusion'
      BY <2>0 DEF IInv, LockExclusion
    <2>5. WaitersOwnSlots'
      <3>1. \A d \in Clients : InFlight(d) =>
              /\ d # c /\ slot[d] \in Slots /\ slot[d] < queue_size
              /\ queue[slot[d]].op \in {call[d].op, "ANSWER"}
              /\ slot'[d] = slot[d] /\ call'[d] = call[d]
              /\ queue'[slot[d]] = queue[slot[d]]
        BY <2>0 DEF IInv, WaitersOwnSlots, InFlight, Slots
      <3>2. InFlight(c)' => /\ slot'[c] = queue_size
                            /\ queue'[queue_size] = call'[c]
        BY <2>0 DEF InFlight
      <3>3. \A d \in Clients : InFlight(d)' => d = c \/ InFlight(d)
        BY DEF InFlight
      <3>4. queue_size < queue_size'
        BY <2>0 DEF Slots
      <3>5. \A d \in Clients : InFlight(d)' =>
              slot'[d] < queue_size' /\ queue'[slot'[d]].op \in {call'[d].op, "ANSWER"}
        BY <3>1, <3>2, <3>3, <3>4 DEF Slots
      <3>6. \A d, e \in Clients : InFlight(d)' /\ InFlight(e)' /\ d # e => slot'[d] # slot'[e]
        BY <3>1, <3>2, <3>3 DEF IInv, WaitersOwnSlots, Slots
      <3>7. QED
        BY <3>5, <3>6 DEF WaitersOwnSlots
    <2>6. QED
      BY <2>1, <2>2, <2>3, <2>4, <2>5
  <1>5. CASE AnswerTake(c)
    <2> USE <1>0, <1>a, <1>5 DEF AnswerTake, serverVars
    <2>0. lock = c /\ main # "ops" /\ main # "none" /\ slot[c] \in Slots
      BY DEF IInv, LockExclusion, Destroy
    <2>1. Indexes'
      BY <2>0 DEF IInv, Indexes
    <2>2. Calls'
      BY DEF IInv, Calls, InFlight
    <2>3. Destroy'
      BY <2>0 DEF IInv, Destroy, Destroying
    <2>4. LockExclusion'
      BY <2>0 DEF IInv, LockExclusion
    <2>5. WaitersOwnSlots'
      <3> SUFFICES ASSUME NEW d \in Clients, InFlight(d)'
                   PROVE  /\ slot'[d] < queue_size'
                          /\ queue'[slot'[d]].op \in {call'[d].op, "ANSWER"}
                          /\ \A e \in Clients \ {d} : InFlight(e)' => slot'[e] # slot'[d]
        BY DEF WaitersOwnSlots
      <3>1. /\ d # c /\ InFlight(d) /\ slot'[d] = slot[d] /\ call'[d] = call[d]
            /\ \A e \in Clients : InFlight(e)' => InFlight(e) /\ e # c /\ slot'[e] = slot[e]
        BY DEF InFlight
      <3>2. /\ slot[d] < queue_size /\ slot[d] \in Slots
            /\ queue[slot[d]].op \in {call[d].op, "ANSWER"}
            /\ slot[d] # slot[c]
            /\ call[d].op # "NONE"
        BY <3>1 DEF IInv, WaitersOwnSlots, InFlight, Calls, SyncOps
      <3>3. queue'[slot[d]] = queue[slot[d]]
        BY <3>2
      <3>4. slot[d] < queue_size'
        <4>1. PICK q \in {queue, queue'}, n \in 0 .. queue_size : Shrinks(q, n) /\ queue_size' = n
          OBVIOUS
        <4>2. q[slot[d]].op # "NONE"
          BY <3>2, <3>3
        <4>3. QED
          BY <3>2, <4>1, <4>2 DEF Shrinks, Slots
      <3>5. QED
        BY <3>1, <3>2, <3>3, <3>4 DEF IInv, WaitersOwnSlots
    <2>6. QED
      BY <2>1, <2>2, <2>3, <2>4, <2>5
  <1>6. CASE DestroyReturn(c)
    <2> USE <1>0, <1>a, <1>6 DEF DestroyReturn, serverVars
    <2>0. \A d \in Clients : phase'[d] = "idle"
      BY DEF IInv, Destroy, Destroying
    <2>1. Indexes'
      BY DEF IInv, Indexes
    <2>2. Calls'
      BY DEF IInv, Calls, InFlight
    <2>3. Destroy'
      BY <2>0 DEF IInv, Destroy, Destroying, Calls
    <2>4. LockExclusion'
      BY <2>0 DEF IInv, LockExclusion
    <2>5. WaitersOwnSlots'
      BY <2>0 DEF WaitersOwnSlots, InFlight
    <2>6. QED
      BY <2>1, <2>2, <2>3, <2>4, <2>5
  <1>7. QED
    BY <1>2, <1>3, <1>4, <1>5, <1>6 DEF InCall

\* pg_thread_init preserves the invariant.
LEMMA ThreadInitIInv == ASSUME IInv, ThreadInit PROVE IInv'
  <1> USE Constants DEF ThreadInit, clientVars
  <1>0. None.op = "NONE" /\ \A d \in Clients : phase[d] = "idle"
    BY DEF None, Op, IInv, Destroy
  <1>1. TypeOK'
    <2>1. None \in ThreadOp
      BY ThreadAssumption DEF None, Op, ThreadOp, Ops, States
    <2>2. QED
      BY <2>1 DEF IInv, TypeOK
  <1>2. Indexes' /\ Calls' /\ ErrorsPaired'
    BY <1>0 DEF IInv, Indexes, Calls, InFlight, ErrorsPaired
  <1>3. Destroy'
    BY <1>0 DEF IInv, Destroy, Destroying, Calls
  <1>4. LockExclusion' /\ WaitersOwnSlots'
    BY <1>0 DEF LockExclusion, WaitersOwnSlots, InFlight
  <1>5. QED
    BY <1>1, <1>2, <1>3, <1>4 DEF IInv

LEMMA NextIInv == IInv /\ [Next]_vars => IInv'
  <1> SUFFICES ASSUME IInv, [Next]_vars PROVE IInv'
    OBVIOUS
  <1>1. CASE UNCHANGED vars
    <2>1. UNCHANGED vars
      BY <1>1
    <2>2. TypeOK'
      BY <1>1 DEF vars, serverVars, clientVars, IInv, TypeOK
    <2>3. Indexes' /\ Calls' /\ Destroy'
      BY <1>1 DEF vars, serverVars, clientVars, IInv, Indexes, Calls, Destroy, Destroying, InFlight
    <2>4. LockExclusion' /\ WaitersOwnSlots' /\ ErrorsPaired'
      BY <1>1 DEF vars, serverVars, clientVars, IInv, LockExclusion, WaitersOwnSlots, ErrorsPaired,
         InFlight
    <2>5. QED
      BY <2>2, <2>3, <2>4 DEF IInv
  <1>2. CASE Next
    BY <1>2, ServerIInv, NewCallIInv, InCallIInv, ThreadInitIInv DEF Next
  <1>3. QED
    BY <1>1, <1>2

-----------------------------------------------------------------------------
(* What follows from it.                                                   *)

THEOREM Invariance == Spec => []IInv
  BY InitIInv, NextIInv, PTL DEF Spec

\* In every reachable state of a thread with any number of callers and slots
\* the values are in their ranges: pg_thread_main never indexes queue, graphs
\* or started outside their bounds.
THEOREM TypeCorrect == Spec => []TypeOK
  <1>1. IInv => TypeOK
    BY DEF IInv
  <1>2. QED
    BY <1>1, Invariance, PTL

\* The flag is_queue_locked gives mutual exclusion to the callers' and the
\* thread's accesses to the queue.
THEOREM Exclusion == Spec => []LockExclusion
  <1>1. IInv => LockExclusion
    BY DEF IInv
  <1>2. QED
    BY <1>1, Invariance, PTL

\* A caller that waits keeps its slot: the assertion in try_get_answer never
\* fails, and no caller reads the answer to another's operation.
THEOREM SlotsKept == Spec => []WaitersOwnSlots
  <1>1. IInv => WaitersOwnSlots
    BY DEF IInv
  <1>2. QED
    BY <1>1, Invariance, PTL

\* The two error stacks of pg_thread_main never get out of step.
THEOREM ErrorsStayPaired == Spec => []ErrorsPaired
  <1>1. IInv => ErrorsPaired
    BY DEF IInv
  <1>2. QED
    BY <1>1, Invariance, PTL

\* PG_THREAD_RUNNING is never shown while a graph is stopped by an error.
LEMMA NormalStep ==
  ASSUME IInv, RunningMeansNormal, [Next]_vars
  PROVE  RunningMeansNormal'
  <1> USE Constants DEF RunningMeansNormal
  <1>0. /\ started \in [Ids -> States] /\ last_graph \in 0 .. BlockSize
        /\ main = "ops" /\ cur.op \in {"RM_GRAPH", "FORCE_START"} => cur.id \in Ids
    BY CurType DEF IInv, TypeOK
  <1>1. CASE UNCHANGED <<state, started, last_graph>>
    BY <1>1
  <1>2. CASE MainNext
    <2> USE <1>0 DEF At
    <2>1. CASE MainLock \/ MainEmpty \/ MainLockFails \/ PollDone
      BY <1>1, <2>1 DEF MainLock, MainEmpty, MainLockFails, PollDone, vars, serverVars
    <2>2. CASE HandleQuit
      BY <2>2 DEF HandleQuit
    <2>3. CASE HandlePopError \/ HandleState \/ HandleNone \/ HandleRunNoGraph
      BY <1>1, <2>3 DEF HandlePopError, HandleState, HandleNone, HandleRunNoGraph, Set, Advance
    <2>4. CASE HandleRmGraph
      BY <2>4 DEF HandleRmGraph, Set, Advance, Ids
    <2>5. CASE HandleAddGraph
      <3>1. CASE free_graph # <<>>
        <4>1. Top(free_graph) \in Ids
          BY <3>1, PopProperties DEF IInv, TypeOK
        <4>2. QED
          BY <2>5, <3>1, <4>1 DEF HandleAddGraph, AddGraphAs, Set, Advance, Ids
      <3>2. CASE free_graph = <<>>
        BY <2>5, <3>2 DEF HandleAddGraph, AddGraphAs, Set, Advance, Ids
      <3>3. QED
        BY <3>1, <3>2
    <2>6. CASE HandleAddGraphFull
      BY <1>1, <2>6 DEF HandleAddGraphFull
    <2>7. CASE HandleForceStart
      BY <2>7 DEF HandleForceStart, Set, Advance, Ids
    <2>8. CASE HandleRun
      BY <2>8 DEF HandleRun, Set, Advance, Ids
    <2>9. CASE HandleStop
      BY <2>9 DEF HandleStop, Set, Advance
    <2>10. ASSUME NEW i \in Ids, PollFails(i) PROVE RunningMeansNormal'
      BY <2>10 DEF PollFails
    <2>11. QED
      BY <1>2, <2>1, <2>2, <2>3, <2>4, <2>5, <2>6, <2>7, <2>8, <2>9, <2>10 DEF MainNext
  <1>3. ASSUME NEW c \in Clients, NewCall(c) \/ InCall(c)
        PROVE  UNCHANGED <<state, started, last_graph>>
    BY <1>3, Zenon DEF NewCall, InCall, Call, pg_thread_state, pg_thread_run, pg_thread_stop,
       pg_thread_pop_error, pg_thread_add_graph, pg_thread_pop_graph,
       pg_thread_force_start_graph, pg_thread_destroy, EnqueueLock, EnqueueAppend,
       EnqueueFull, AnswerLock, AnswerNotYet, AnswerTake, DestroyReturn, serverVars
  <1>4. QED
    BY <1>1, <1>2, <1>3 DEF Next, ThreadInit, vars, serverVars

\* "Everything is normal" (PG_THREAD_RUNNING in thread.h) is true: a running
\* thread has no graph that an error stopped.
THEOREM RunningIsNormal == Spec => []RunningMeansNormal
  <1>1. Init => RunningMeansNormal
    BY DEF Init, RunningMeansNormal
  <1>2. IInv /\ RunningMeansNormal /\ [Next]_vars => RunningMeansNormal'
    BY NormalStep
  <1>3. QED
    BY <1>1, <1>2, Invariance, PTL DEF Spec

-----------------------------------------------------------------------------
(* Graph ids.                                                              *)

\* Every operation in the queue that has an answer is that of a caller that
\* waits for it, unchanged until it is answered.
Requests ==
  /\ \A i \in 0 .. queue_size - 1 :
       queue[i].op \in SyncOps => \E c \in Clients : InFlight(c) /\ slot[c] = i
  /\ \A c \in Clients : InFlight(c) =>
       queue[slot[c]].op = "ANSWER" \/ queue[slot[c]] = call[c]
  /\ \A c \in Clients : call[c].op = "RM_GRAPH" => held[c][call[c].id] # NoGraph

\* What the callers hold and what pg_thread_main has under these ids.
Holdings ==
  /\ main # "exited" => \A c \in Clients : \A i \in Owned(c) : i < last_graph
  /\ main = "none" => \A c \in Clients : Owned(c) = {}
  /\ main # "exited" => \A c \in Clients : \A i \in Owned(c) :
       graphs[i] = IF Answered(c, "ADD_GRAPH") /\ queue[slot[c]].id = i
                   THEN call[c].graph ELSE held[c][i]

IdInv == Requests /\ GraphIdsUnique /\ Holdings /\ PopReturnsAdded

\* Nothing about graph ids changes for caller c.
Same(c) ==
  /\ held'[c] = held[c]
  /\ Answered(c, "ADD_GRAPH")' <=> Answered(c, "ADD_GRAPH")
  /\ Answered(c, "RM_GRAPH")' <=> Answered(c, "RM_GRAPH")
  /\ Answered(c, "ADD_GRAPH") \/ Answered(c, "RM_GRAPH") =>
       queue'[slot'[c]] = queue[slot[c]] /\ call'[c] = call[c]

LEMMA SameOwned ==
  ASSUME NEW c, Same(c)
  PROVE  Owned(c)' = Owned(c)
  BY DEF Same, Owned

LEMMA SameKeeps ==
  ASSUME GraphIdsUnique, Holdings, PopReturnsAdded, \A c \in Clients : Same(c),
         UNCHANGED <<free_graph, last_graph, graphs>>,
         main' = "none" => main = "none",
         main = "exited" => main' = "exited"
  PROVE  GraphIdsUnique' /\ Holdings' /\ PopReturnsAdded'
  <1>1. \A c \in Clients : Owned(c)' = Owned(c)
    BY SameOwned
  <1>2. GraphIdsUnique'
    BY <1>1 DEF GraphIdsUnique
  <1>3. Holdings'
    BY <1>1 DEF Holdings, Same
  <1>4. PopReturnsAdded'
    BY DEF PopReturnsAdded, Same
  <1>5. QED
    BY <1>2, <1>3, <1>4

\* A step that leaves the queue alone, and at most ends calls that wait for
\* nothing, keeps the requests.
LEMMA SameRequests ==
  ASSUME Requests, UNCHANGED <<queue, queue_size, slot, held>>,
         \A d \in Clients : /\ InFlight(d)' <=> InFlight(d)
                            /\ call'[d] = call[d] \/ call'[d].op = "NONE"
                            /\ InFlight(d) => call'[d] = call[d]
  PROVE  Requests'
  <1>1. \A i \in 0 .. queue_size - 1 :
          queue[i].op \in SyncOps => \E c \in Clients : InFlight(c)' /\ slot[c] = i
    BY Zenon DEF Requests
  <1>2. \A c \in Clients : InFlight(c)' => queue[slot[c]].op = "ANSWER" \/ queue[slot[c]] = call'[c]
    BY Zenon DEF Requests
  <1>3. \A c \in Clients : call'[c].op = "RM_GRAPH" => held[c][call'[c].id] # NoGraph
    BY DEF Requests
  <1>4. QED
    BY <1>1, <1>2, <1>3, Zenon DEF Requests

\* Giving ids up does not make two owners of one.
LEMMA FewerOwned ==
  ASSUME GraphIdsUnique, UNCHANGED <<free_graph, last_graph>>,
         \A c \in Clients : \A i \in Owned(c)' : i \in Owned(c)
  PROVE  GraphIdsUnique'
  BY DEF GraphIdsUnique

\* The callers' steps: a new call, the lock, the slot, the answer.
LEMMA NewCallIds ==
  ASSUME IInv, IdInv, NEW c \in Clients, NewCall(c)
  PROVE  IdInv'
  <1>0. \A o, i, g : Op(o, i, g).op = o /\ Op(o, i, g).id = i
    BY DEF Op
  <1>1. PICK op : Call(c, op) /\ (op.op = "RM_GRAPH" => held[c][op.id] # NoGraph)
    BY <1>0 DEF NewCall, pg_thread_state, pg_thread_run, pg_thread_stop,
       pg_thread_pop_error, pg_thread_add_graph, pg_thread_pop_graph,
       pg_thread_force_start_graph, pg_thread_destroy
  <1> USE <1>1 DEF Call, serverVars
  <1>2. /\ phase \in [Clients -> {"idle", "enqueue", "append", "wait", "read", "join"}]
        /\ call \in [Clients -> ThreadOp]
    BY DEF IInv, TypeOK
  <1>3. \A d \in Clients : Same(d)
    BY <1>2, Zenon DEF Same, Answered, InFlight
  <1>4. GraphIdsUnique' /\ Holdings' /\ PopReturnsAdded'
    BY <1>3, SameKeeps DEF IdInv
  <1>5. Requests'
    BY <1>2, Zenon DEF IdInv, Requests, InFlight
  <1>6. QED
    BY <1>4, <1>5 DEF IdInv

LEMMA InCallIds ==
  ASSUME IInv, IdInv, NEW c \in Clients, InCall(c)
  PROVE  IdInv'
  <1> USE Constants
  <1>0. /\ phase \in [Clients -> {"idle", "enqueue", "append", "wait", "read", "join"}]
        /\ call \in [Clients -> ThreadOp]
        /\ slot \in [Clients -> Slots]
        /\ queue \in [Slots -> ThreadOp]
        /\ queue_size \in 0 .. MaxOp - 1
        /\ held \in [Clients -> [Ids -> Graphs \cup {NoGraph}]]
    BY DEF IInv, TypeOK
  <1>a. None.op = "NONE"
    BY DEF None, Op
  <1>1. CASE EnqueueLock(c) \/ EnqueueFull(c) \/ AnswerLock(c) \/ AnswerNotYet(c)
    <2> USE <1>0, <1>1 DEF EnqueueLock, EnqueueFull, AnswerLock, AnswerNotYet, serverVars
    <2>1. \A d \in Clients : Same(d)
      BY Zenon DEF Same, Answered, InFlight
    <2>2. Requests'
      <3>1. Requests
        BY DEF IdInv
      <3>2. UNCHANGED <<queue, queue_size, slot, held>>
        OBVIOUS
      <3>3. \A d \in Clients : /\ InFlight(d)' <=> InFlight(d)
                               /\ call'[d] = call[d] \/ call'[d].op = "NONE"
                               /\ InFlight(d) => call'[d] = call[d]
        BY <1>a DEF InFlight
      <3>4. QED
        BY <3>1, <3>2, <3>3, SameRequests, Zenon
    <2>3. QED
      BY <2>1, <2>2, SameKeeps DEF IdInv
  <1>2. CASE EnqueueAppend(c)
    <2> USE <1>0, <1>2 DEF EnqueueAppend, serverVars
    <2>0. /\ queue_size \in Slots
          /\ call[c].op # "ANSWER"
          /\ \A d \in Clients : InFlight(d) => slot[d] # queue_size /\ slot[d] \in Slots
      <3>1. queue_size \in Slots
        BY DEF Slots
      <3>2. call[c].op # "ANSWER"
        BY DEF IInv, Calls, SyncOps, AsyncOps
      <3>3. \A d \in Clients : InFlight(d) => slot[d] # queue_size /\ slot[d] \in Slots
        BY DEF IInv, WaitersOwnSlots, Slots
      <3>4. QED
        BY <3>1, <3>2, <3>3
    <2>1. \A d \in Clients : Same(d)
      <3>1. \A d \in Clients : d # c => Same(d)
        BY <2>0, Zenon DEF Same, Answered, InFlight
      <3>2. Same(c)
        BY <2>0 DEF Same, Answered, InFlight
      <3>3. QED
        BY <3>1, <3>2
    <2>2. Requests'
      <3>1. \A i \in 0 .. queue_size' - 1 :
              queue'[i].op \in SyncOps => \E d \in Clients : InFlight(d)' /\ slot'[d] = i
        <4> SUFFICES ASSUME NEW i \in 0 .. queue_size' - 1, queue'[i].op \in SyncOps
                     PROVE  \E d \in Clients : InFlight(d)' /\ slot'[d] = i
          OBVIOUS
        <4>1. CASE i = queue_size
          <5>1. InFlight(c)' /\ slot'[c] = i
            BY <2>0, <4>1 DEF InFlight
          <5>2. QED
            BY <5>1
        <4>2. CASE i # queue_size
          <5>1. i \in 0 .. queue_size - 1 /\ queue'[i] = queue[i]
            BY <2>0, <4>2 DEF Slots
          <5>2. PICK d \in Clients : InFlight(d) /\ slot[d] = i
            BY <5>1, Zenon DEF IdInv, Requests
          <5>3. InFlight(d)' /\ slot'[d] = i
            BY <5>2 DEF InFlight
          <5>4. QED
            BY <5>3
        <4>3. QED
          BY <4>1, <4>2
      <3>2. \A d \in Clients : InFlight(d)' =>
              queue'[slot'[d]].op = "ANSWER" \/ queue'[slot'[d]] = call'[d]
        <4>1. Requests
          BY DEF IdInv
        <4>2. QED
          BY <2>0, <4>1 DEF Requests, InFlight
      <3>3. \A d \in Clients : call'[d].op = "RM_GRAPH" => held'[d][call'[d].id] # NoGraph
        <4>1. \A d \in Clients : call'[d] = call[d] \/ call'[d] = None
          BY DEF IInv, TypeOK
        <4>2. held' = held
          OBVIOUS
        <4>3. QED
          BY <1>a, <4>1, <4>2 DEF IdInv, Requests
      <3>4. QED
        BY <3>1, <3>2, <3>3 DEF Requests
    <2>3. QED
      BY <2>1, <2>2, SameKeeps DEF IdInv
  <1>3. CASE AnswerTake(c)
    <2> USE <1>0, <1>3 DEF AnswerTake, serverVars
    <2>0. /\ slot[c] \in Slots /\ main # "none" /\ queue_size' \in 0 .. queue_size
          /\ \A d \in Clients \ {c} : InFlight(d) => slot[d] # slot[c]
      BY DEF IInv, Destroy, WaitersOwnSlots, InFlight
    <2>1. \A d \in Clients \ {c} : Same(d)
      BY <2>0 DEF Same, Answered, InFlight
    <2>2. ~InFlight(c)' /\ call'[c].op = "NONE"
      BY <1>a DEF InFlight
    \* The caller keeps the ids it had, and finds the graph under the new one.
    <2>3. \A i \in Owned(c)' : /\ i \in Owned(c)
                               /\ held'[c][i] = IF Answered(c, "ADD_GRAPH") /\ queue[slot[c]].id = i
                                                THEN call[c].graph ELSE held[c][i]
      <3>1. queue[slot[c]].id \in Ids \cup {-1} /\ InFlight(c) /\ queue[slot[c]].op = "ANSWER"
        BY <2>0 DEF ThreadOp, InFlight
      <3>2. CASE call[c].op = "RM_GRAPH"
        <4>1. call[c].id \in Ids
          BY <3>2 DEF IInv, Indexes
        <4>2. held'[c] = [held[c] EXCEPT ![call[c].id] = NoGraph]
          BY <3>2
        <4>3. QED
          BY <2>2, <3>1, <3>2, <4>1, <4>2 DEF Owned, Answered
      <3>3. CASE call[c].op = "ADD_GRAPH" /\ queue[slot[c]].id # -1
        <4>1. held'[c] = [held[c] EXCEPT ![queue[slot[c]].id] = call[c].graph]
          BY <3>3
        <4>2. QED
          BY <2>2, <3>1, <3>3, <4>1 DEF Owned, Answered
      <3>4. CASE ~(call[c].op = "RM_GRAPH") /\ ~(call[c].op = "ADD_GRAPH" /\ queue[slot[c]].id # -1)
        <4>1. held'[c] = held[c]
          BY <3>4
        <4>2. -1 \notin Ids
          BY DEF Ids
        <4>3. QED
          BY <2>2, <3>1, <3>4, <4>1, <4>2 DEF Owned, Answered
      <3>5. QED
        BY <3>2, <3>3, <3>4
    <2>4. \A d \in Clients \ {c} : Owned(d)' = Owned(d)
      BY <2>1, SameOwned
    <2>5. GraphIdsUnique'
      BY <2>3, <2>4, FewerOwned DEF IdInv
    <2>6. Holdings'
      <3> SUFFICES ASSUME main # "exited", NEW d \in Clients, NEW i \in Owned(d)'
                   PROVE  /\ i < last_graph
                          /\ graphs[i] = IF Answered(d, "ADD_GRAPH")' /\ queue'[slot'[d]].id = i
                                         THEN call'[d].graph ELSE held'[d][i]
        BY <2>0 DEF Holdings
      <3>1. CASE d = c
        BY <2>2, <2>3, <3>1 DEF IdInv, Holdings, Answered
      <3>2. CASE d # c
        BY <2>1, <2>4, <3>2 DEF IdInv, Holdings, Same
      <3>3. QED
        BY <3>1, <3>2
    <2>7. PopReturnsAdded'
      BY <2>1, <2>2 DEF IdInv, PopReturnsAdded, Same, Answered
    <2>8. Requests'
      <3>1. \A d \in Clients \ {c} : InFlight(d) =>
              InFlight(d)' /\ slot'[d] = slot[d] /\ queue'[slot[d]] = queue[slot[d]]
        BY <2>0 DEF InFlight
      <3>2. \A i \in 0 .. queue_size' - 1 : queue'[i].op \in SyncOps =>
              \E d \in Clients : InFlight(d)' /\ slot'[d] = i
        <4> SUFFICES ASSUME NEW i \in 0 .. queue_size' - 1, queue'[i].op \in SyncOps
                     PROVE  \E d \in Clients : InFlight(d)' /\ slot'[d] = i
          OBVIOUS
        <4>1. i \in Slots /\ i \in 0 .. queue_size - 1
          BY <2>0 DEF Slots
        <4>2. i # slot[c] /\ queue'[i] = queue[i]
          BY <1>a, <2>0, <4>1 DEF SyncOps
        <4>3. PICK d \in Clients : InFlight(d) /\ slot[d] = i
          BY <4>1, <4>2 DEF IdInv, Requests
        <4>4. QED
          BY <3>1, <4>2, <4>3
      <3>3. \A d \in Clients \ {c} : InFlight(d)' => InFlight(d) /\ call'[d] = call[d] /\ held'[d] = held[d]
        BY DEF InFlight
      <3>4. \A d \in Clients : InFlight(d)' =>
              queue'[slot'[d]].op = "ANSWER" \/ queue'[slot'[d]] = call'[d]
        BY <2>2, <3>1, <3>3 DEF IdInv, Requests
      <3>5. \A d \in Clients : call'[d].op = "RM_GRAPH" => held'[d][call'[d].id] # NoGraph
        BY <2>2 DEF IdInv, Requests
      <3>6. QED
        BY <3>2, <3>4, <3>5 DEF Requests
    <2>9. QED
      BY <2>5, <2>6, <2>7, <2>8 DEF IdInv
  <1>4. CASE DestroyReturn(c)
    <2> USE <1>0, <1>4 DEF DestroyReturn
    <2>1. \A d \in Clients : phase'[d] = "idle" /\ call'[d].op = "NONE" /\ ~InFlight(d)'
      BY <1>a DEF IInv, Destroy, Destroying, Calls, InFlight
    <2>2. \A d \in Clients : Owned(d)' = {}
      BY <2>1, Zenon DEF Owned, Answered
    <2>3. GraphIdsUnique'
      BY <2>2 DEF IdInv, GraphIdsUnique
    <2>4. Holdings' /\ PopReturnsAdded'
      BY <2>1, <2>2, Zenon DEF Holdings, PopReturnsAdded, Answered
    <2>5. Requests'
      BY <2>1 DEF Requests
    <2>6. QED
      BY <2>3, <2>4, <2>5 DEF IdInv
  <1>5. QED
    BY <1>1, <1>2, <1>3, <1>4 DEF InCall

\* What a step of pg_thread_main does to the slot of a caller that waits.
LEMMA ServerSlots ==
  ASSUME IInv, IdInv, MainNext
  PROVE  /\ Requests'
         /\ phase' = phase /\ call' = call /\ slot' = slot /\ held' = held
         /\ main \notin {"none", "exited"} /\ main' # "none"
         /\ \A c \in Clients : InFlight(c) =>
              \/ queue'[slot[c]] = queue[slot[c]]
              \/ /\ main = "ops" /\ slot[c] = queue_pos /\ cur = call[c]
                 /\ queue'[slot[c]].op = "ANSWER"
  <1> USE Constants
  <1>1. Shared /\ TypeOK'
    BY ServerStep
  <1>2. phase' = phase /\ call' = call /\ slot' = slot /\ held' = held /\ queue_size' = queue_size
    BY <1>1 DEF Shared, clientVars
  <1>3. /\ queue \in [Slots -> ThreadOp] /\ slot \in [Clients -> Slots]
        /\ queue_size \in 0 .. MaxOp - 1
    BY DEF IInv, TypeOK
  <1>4. main \notin {"none", "exited"} /\ main' # "none"
    BY <1>1 DEF Shared, MainNext, MainLock, MainEmpty, MainLockFails, HandleQuit, HandlePopError,
       HandleRmGraph, HandleAddGraph, HandleAddGraphFull, HandleForceStart, HandleRunNoGraph,
       HandleRun, HandleStop, HandleState, HandleNone, PollDone, PollFails, At
  <1>5. \A i \in Slots : \/ queue'[i] = queue[i]
                         \/ /\ main = "ops" /\ i = queue_pos
                            /\ \/ queue'[i].op = "ANSWER" /\ cur.op \in SyncOps
                               \/ queue'[i].op = "NONE" /\ cur.op \in AsyncOps
    <2>1. queue' = queue \/ (main = "ops" /\ Rewrites)
      BY <1>1, Zenon DEF Shared
    <2>2. None.op = "NONE"
      BY DEF None, Op
    <2>3. ASSUME main = "ops", NEW v \in ThreadOp, queue' = [queue EXCEPT ![queue_pos] = v]
          PROVE  \A i \in Slots : queue'[i] = queue[i] \/ (i = queue_pos /\ queue'[i] = v)
      BY <1>3, <2>3
    <2>4. QED
      BY <2>1, <2>2, <2>3, Zenon DEF Rewrites
  <1>6. \A c \in Clients : InFlight(c) =>
          \/ queue'[slot[c]] = queue[slot[c]]
          \/ /\ main = "ops" /\ slot[c] = queue_pos /\ cur = call[c]
             /\ queue'[slot[c]].op = "ANSWER"
    <2> SUFFICES ASSUME NEW c \in Clients, InFlight(c), queue'[slot[c]] # queue[slot[c]]
                 PROVE  /\ main = "ops" /\ slot[c] = queue_pos /\ cur = call[c]
                        /\ queue'[slot[c]].op = "ANSWER"
      OBVIOUS
    <2>1. /\ main = "ops" /\ slot[c] = queue_pos
          /\ \/ queue'[slot[c]].op = "ANSWER" /\ cur.op \in SyncOps
             \/ queue'[slot[c]].op = "NONE" /\ cur.op \in AsyncOps
      BY <1>3, <1>5
    <2>2. cur.op = "ANSWER" \/ (cur = call[c] /\ call[c].op \in SyncOps)
      BY <2>1, Zenon DEF cur, IdInv, Requests, IInv, Calls
    <2>3. QED
      BY <2>1, <2>2 DEF SyncOps, AsyncOps
  <1>7. Requests'
    <2>1. \A i \in 0 .. queue_size - 1 : queue'[i].op \in SyncOps => queue'[i] = queue[i]
      BY <1>3, <1>5 DEF SyncOps, Slots
    <2>2. Requests
      BY DEF IdInv
    <2>3. QED
      BY <1>2, <1>6, <2>1, <2>2, Zenon DEF Requests, InFlight
  <1>8. QED
    BY <1>2, <1>4, <1>6, <1>7, Zenon

\* A step that handles neither ADD_GRAPH nor RM_GRAPH changes nothing for the
\* callers' ids.
LEMMA OtherSteps ==
  ASSUME IInv, IdInv, MainNext,
         queue' = queue \/ (main = "ops" /\ cur.op \notin {"ADD_GRAPH", "RM_GRAPH"})
  PROVE  \A c \in Clients : Same(c)
  BY ServerSlots, Zenon DEF Same, Answered, InFlight

\* RM_GRAPH: the id leaves its owner and goes to the stack.
LEMMA RmGraphIds ==
  ASSUME IInv, IdInv, HandleRmGraph
  PROVE  IdInv'
  <1> USE Constants
  <1>0. MainNext
    BY DEF MainNext
  <1>1. /\ main = "ops" /\ cur.op = "RM_GRAPH" /\ cur.id \in Ids /\ queue_pos \in 0 .. queue_size - 1
        /\ cur \in ThreadOp /\ queue_pos \in Slots
    BY CurType DEF HandleRmGraph, At, IInv, Indexes
  <1>2. PICK c \in Clients : InFlight(c) /\ slot[c] = queue_pos
    BY <1>1 DEF IdInv, Requests, SyncOps, cur
  <1>3. cur = call[c] /\ call[c].op = "RM_GRAPH" /\ call[c].id = cur.id
    BY <1>1, <1>2 DEF IdInv, Requests, cur
  <1>4. /\ free_graph' = Append(free_graph, cur.id) /\ graphs' = graphs /\ last_graph' = last_graph
        /\ queue'[slot[c]].op = "ANSWER" /\ queue'[slot[c]].graph = graphs[cur.id]
        /\ main' # "exited"
    BY <1>1, <1>2, Zenon DEF HandleRmGraph, Set, Advance, AfterOps, IInv, TypeOK, ThreadOp
  <1>5. \A d \in Clients \ {c} : Same(d)
    BY <1>0, <1>1, <1>2, ServerSlots, Zenon DEF Same, Answered, InFlight, IInv, WaitersOwnSlots
  <1>6. \A d \in Clients \ {c} : Owned(d)' = Owned(d)
    BY <1>5, SameOwned
  <1>7. /\ ~Answered(c, "RM_GRAPH") /\ ~Answered(c, "ADD_GRAPH")
        /\ Answered(c, "RM_GRAPH")' /\ ~Answered(c, "ADD_GRAPH")'
        /\ call' = call /\ held' = held /\ slot' = slot
    BY <1>0, <1>1, <1>2, <1>3, <1>4, ServerSlots, Zenon DEF Answered, InFlight, cur
  <1>8. Owned(c)' = Owned(c) \ {cur.id}
    BY <1>3, <1>7, Zenon DEF Owned
  <1>9. cur.id \in Owned(c)
    BY <1>1, <1>3, <1>7, Zenon DEF Owned, IdInv, Requests
  <1>10. /\ cur.id < last_graph
         /\ \A d \in Clients \ {c} : cur.id \notin Owned(d)
         /\ \A k \in 1 .. Len(free_graph) : free_graph[k] # cur.id
    BY <1>1, <1>9, Zenon DEF IdInv, Holdings, GraphIdsUnique
  <1>11. GraphIdsUnique'
    <2>1. \A d, e \in Clients : d # e => Owned(d)' \cap Owned(e)' = {}
      BY <1>6, <1>8 DEF IdInv, GraphIdsUnique
    <2>0. free_graph \in Seq(Ids)
      BY DEF IInv, TypeOK
    <2>2. /\ Len(free_graph) \in Nat /\ Len(free_graph') = Len(free_graph) + 1
          /\ \A k \in 1 .. Len(free_graph) : free_graph'[k] = free_graph[k]
          /\ free_graph'[Len(free_graph) + 1] = cur.id
      BY <1>1, <1>4, <2>0, AppendProperties, LenProperties
    <2>3. \A k \in 1 .. Len(free_graph') :
            free_graph'[k] < last_graph' /\ \A d \in Clients : free_graph'[k] \notin Owned(d)'
      <3>1. \A k \in 1 .. Len(free_graph) :
              free_graph[k] < last_graph /\ \A d \in Clients : free_graph[k] \notin Owned(d)
        BY Zenon DEF IdInv, GraphIdsUnique
      <3>2. \A d \in Clients : \A i \in Owned(d)' : i \in Owned(d) /\ i # cur.id
        BY <1>6, <1>8, <1>10, Zenon
      <3>3. \A k \in 1 .. Len(free_graph') : k = Len(free_graph) + 1 \/ k \in 1 .. Len(free_graph)
        BY <2>2
      <3>4. QED
        BY <1>4, <1>10, <2>2, <3>1, <3>2, <3>3, Zenon
    <2>4. \A k, l \in 1 .. Len(free_graph') : free_graph'[k] = free_graph'[l] => k = l
      BY <1>10, <2>2 DEF IdInv, GraphIdsUnique
    <2>5. QED
      BY <2>1, <2>3, <2>4 DEF GraphIdsUnique
  <1>12. Holdings'
    <2>1. main' # "none" /\ main # "exited" /\ main' # "exited"
      BY <1>0, <1>1, <1>4, ServerSlots, Zenon
    <2>2. ASSUME NEW d \in Clients, NEW i \in Owned(d)'
          PROVE  i < last_graph'
      <3>1. i \in Owned(d)
        BY <1>6, <1>8, <2>2
      <3>2. QED
        BY <1>4, <2>1, <3>1, Zenon DEF IdInv, Holdings
    <2>3. ASSUME NEW d \in Clients \ {c}, NEW i \in Owned(d)'
          PROVE  graphs'[i] = IF Answered(d, "ADD_GRAPH")' /\ queue'[slot'[d]].id = i
                              THEN call'[d].graph ELSE held'[d][i]
      <3>1. i \in Owned(d) /\ Same(d)
        BY <1>5, <1>6, <2>3
      <3>2. graphs[i] = IF Answered(d, "ADD_GRAPH") /\ queue[slot[d]].id = i
                        THEN call[d].graph ELSE held[d][i]
        BY <2>1, <3>1, Zenon DEF IdInv, Holdings
      <3>3. QED
        BY <1>4, <3>1, <3>2, Zenon DEF Same
    <2>4. ASSUME NEW i \in Owned(c)'
          PROVE  graphs'[i] = held'[c][i]
      <3>1. i \in Owned(c)
        BY <1>8, <2>4
      <3>2. QED
        BY <1>4, <1>7, <2>1, <3>1, Zenon DEF IdInv, Holdings
    <2>5. QED
      BY <1>7, <2>1, <2>2, <2>3, <2>4 DEF Holdings
  <1>13. PopReturnsAdded'
    <2>1. graphs[cur.id] = held[c][cur.id]
      BY <1>1, <1>7, <1>9 DEF IdInv, Holdings
    <2>2. QED
      BY <1>3, <1>4, <1>5, <1>7, <2>1, Zenon DEF IdInv, PopReturnsAdded, Same
  <1>14. QED
    BY <1>0, <1>11, <1>12, <1>13, ServerSlots, Zenon DEF IdInv

\* ADD_GRAPH: a free or new id gets its one owner.
LEMMA AddGraphIds ==
  ASSUME IInv, IdInv, HandleAddGraph
  PROVE  IdInv'
  <1> USE Constants
  <1>0. MainNext
    BY DEF MainNext
  <1>1. /\ main = "ops" /\ cur.op = "ADD_GRAPH" /\ queue_pos \in 0 .. queue_size - 1
        /\ cur \in ThreadOp /\ queue_pos \in Slots
        /\ last_graph \in 0 .. BlockSize
        /\ free_graph \in Seq(Ids) /\ Len(free_graph) \in Nat
    BY CurType, LenProperties, Zenon DEF HandleAddGraph, At, IInv, Indexes, TypeOK
  <1>2. PICK c \in Clients : InFlight(c) /\ slot[c] = queue_pos
    BY <1>1, Zenon DEF IdInv, Requests, SyncOps, cur
  <1>3. cur = call[c] /\ call[c].op = "ADD_GRAPH"
    BY <1>1, <1>2, Zenon DEF IdInv, Requests, cur
  \* The id that is given is not owned, and is not on the stack afterwards.
  <1>4. PICK ret \in Ids :
          /\ AddGraphAs(ret)
          /\ \A d \in Clients : ret \notin Owned(d)
          /\ last_graph <= last_graph' /\ last_graph' \in 0 .. BlockSize /\ ret < last_graph'
          /\ Len(free_graph') \in Nat /\ Len(free_graph') <= Len(free_graph)
          /\ \A k \in 1 .. Len(free_graph') : free_graph'[k] = free_graph[k] /\ free_graph[k] # ret
    <2>1. CASE free_graph # <<>>
      <3>1. /\ Top(free_graph) \in Ids /\ Len(free_graph) > 0
            /\ Len(Pop(free_graph)) = Len(free_graph) - 1
            /\ \A k \in 1 .. Len(Pop(free_graph)) : Pop(free_graph)[k] = free_graph[k]
        BY <1>1, <2>1, PopProperties
      <3>2. /\ AddGraphAs(Top(free_graph)) /\ free_graph' = Pop(free_graph) /\ last_graph' = last_graph
        BY <2>1 DEF HandleAddGraph
      <3>3. /\ Top(free_graph) < last_graph
            /\ \A d \in Clients : Top(free_graph) \notin Owned(d)
            /\ \A k \in 1 .. Len(free_graph) - 1 : free_graph[k] # Top(free_graph)
        BY <1>1, <3>1 DEF Top, IdInv, GraphIdsUnique
      <3>4. QED
        BY <1>1, <3>1, <3>2, <3>3
    <2>2. CASE free_graph = <<>>
      <3>1. /\ last_graph \in Ids /\ last_graph' = last_graph + 1
            /\ AddGraphAs(last_graph) /\ free_graph' = <<>> /\ Len(free_graph) = 0
        BY <1>1, <2>2 DEF HandleAddGraph, Ids
      <3>2. \A d \in Clients : last_graph \notin Owned(d)
        BY <1>1 DEF IdInv, Holdings
      <3>3. /\ last_graph <= last_graph' /\ last_graph' \in 0 .. BlockSize /\ last_graph < last_graph'
            /\ Len(free_graph') = 0 /\ Len(free_graph) = 0
        BY <1>1, <2>2, <3>1 DEF Ids
      <3>4. \A k \in 1 .. Len(free_graph') : FALSE
        BY <3>3
      <3>5. QED
        BY <3>1, <3>2, <3>3, <3>4
    <2>3. QED
      BY <2>1, <2>2
  <1>5. /\ graphs' = [graphs EXCEPT ![ret] = cur.graph]
        /\ queue'[slot[c]].op = "ANSWER" /\ queue'[slot[c]].id = ret
        /\ main' # "exited"
    BY <1>1, <1>2, <1>4, Zenon DEF AddGraphAs, Set, Advance, AfterOps, IInv, TypeOK, ThreadOp
  <1>6. \A d \in Clients \ {c} : Same(d)
    BY <1>0, <1>1, <1>2, ServerSlots, Zenon DEF Same, Answered, InFlight, IInv, WaitersOwnSlots
  <1>7. \A d \in Clients \ {c} : Owned(d)' = Owned(d)
    BY <1>6, SameOwned
  <1>8. /\ ~Answered(c, "RM_GRAPH") /\ ~Answered(c, "ADD_GRAPH")
        /\ Answered(c, "ADD_GRAPH")' /\ ~Answered(c, "RM_GRAPH")'
        /\ call' = call /\ held' = held /\ slot' = slot
    BY <1>0, <1>1, <1>2, <1>3, <1>5, ServerSlots, Zenon DEF Answered, InFlight, cur
  <1>9. Owned(c)' = Owned(c) \cup {ret}
    BY <1>4, <1>5, <1>8, Zenon DEF Owned
  <1>10. GraphIdsUnique'
    <2>1. \A d, e \in Clients : d # e => Owned(d)' \cap Owned(e)' = {}
      BY <1>4, <1>7, <1>9 DEF IdInv, GraphIdsUnique
    <2>2. \A k \in 1 .. Len(free_graph') : k \in 1 .. Len(free_graph)
      BY <1>1, <1>4
    <2>3. \A k \in 1 .. Len(free_graph') :
            free_graph'[k] < last_graph' /\ \A d \in Clients : free_graph'[k] \notin Owned(d)'
      <3> SUFFICES ASSUME NEW k \in 1 .. Len(free_graph')
                   PROVE  free_graph'[k] < last_graph' /\ \A d \in Clients : free_graph'[k] \notin Owned(d)'
        OBVIOUS
      <3>1. /\ free_graph'[k] = free_graph[k] /\ free_graph[k] # ret /\ free_graph[k] < last_graph
            /\ free_graph[k] \in Int
            /\ \A d \in Clients : free_graph[k] \notin Owned(d)
        BY <1>1, <1>4, <2>2, LenProperties DEF IdInv, GraphIdsUnique, Ids
      <3>2. QED
        BY <1>1, <1>4, <1>7, <1>9, <3>1
    <2>4. \A k, l \in 1 .. Len(free_graph') : free_graph'[k] = free_graph'[l] => k = l
      BY <1>4, <2>2 DEF IdInv, GraphIdsUnique
    <2>5. QED
      BY <2>1, <2>3, <2>4 DEF GraphIdsUnique
  <1>11. Holdings'
    <2> SUFFICES ASSUME NEW d \in Clients, NEW i \in Owned(d)'
                 PROVE  /\ i < last_graph'
                        /\ graphs'[i] = IF Answered(d, "ADD_GRAPH")' /\ queue'[slot'[d]].id = i
                                        THEN call'[d].graph ELSE held'[d][i]
      BY <1>0, ServerSlots, Zenon DEF Holdings
    <2>0. graphs \in [Ids -> Graphs \cup {NoGraph}] /\ Owned(d) \subseteq Ids /\ Ids \subseteq Int
      <3>1. graphs \in [Ids -> Graphs \cup {NoGraph}]
        BY DEF IInv, TypeOK
      <3>2. Owned(d) \subseteq Ids
        BY Zenon DEF Owned
      <3>3. Ids \subseteq Int
        BY DEF Ids
      <3>4. QED
        BY <3>1, <3>2, <3>3
    <2>1. CASE i = ret
      <3>1. d = c
        BY <1>4, <1>7, <2>1
      <3>2. QED
        BY <1>3, <1>4, <1>5, <1>8, <2>0, <2>1, <3>1, Zenon
    <2>2. CASE i # ret
      <3>1. i \in Owned(d) /\ graphs'[i] = graphs[i] /\ i < last_graph
        <4>1. i \in Owned(d)
          BY <1>7, <1>9, <2>2, Zenon
        <4>2. graphs'[i] = graphs[i]
          BY <1>5, <2>0, <2>2, <4>1
        <4>3. i < last_graph
          BY <1>1, <4>1, Zenon DEF IdInv, Holdings
        <4>4. QED
          BY <4>1, <4>2, <4>3
      <3>2. i < last_graph'
        <4>1. last_graph <= last_graph' /\ last_graph \in Int /\ last_graph' \in Int
          BY <1>1, <1>4
        <4>2. i \in Int
          BY <2>0, <3>1, Zenon
        <4>3. QED
          BY <3>1, <4>1, <4>2
      <3>3. CASE d = c
        BY <1>1, <1>5, <1>8, <2>2, <3>1, <3>2, <3>3, Zenon DEF IdInv, Holdings
      <3>4. CASE d # c
        <4>1. graphs[i] = IF Answered(d, "ADD_GRAPH") /\ queue[slot[d]].id = i
                          THEN call[d].graph ELSE held[d][i]
          BY <1>1, <3>1, Zenon DEF IdInv, Holdings
        <4>2. Same(d)
          BY <1>6, <3>4, Zenon
        <4>3. QED
          BY <3>1, <3>2, <4>1, <4>2, Zenon DEF Same
      <3>5. QED
        BY <3>3, <3>4
    <2>3. QED
      BY <2>1, <2>2, Zenon
  <1>12. PopReturnsAdded'
    BY <1>6, <1>8, Zenon DEF IdInv, PopReturnsAdded, Same
  <1>13. QED
    BY <1>0, <1>10, <1>11, <1>12, ServerSlots DEF IdInv

LEMMA ServerIds ==
  ASSUME IInv, IdInv, MainNext
  PROVE  IdInv'
  <1>1. CASE HandleRmGraph
    BY <1>1, RmGraphIds
  <1>2. CASE HandleAddGraph
    BY <1>2, AddGraphIds
  \* All ids are in use: -1 is no id.
  <1>3. CASE HandleAddGraphFull
    <2>1. /\ main = "ops" /\ cur.op = "ADD_GRAPH" /\ queue_pos \in Slots /\ cur \in ThreadOp
          /\ queue \in [Slots -> ThreadOp]
          /\ UNCHANGED <<graphs, free_graph, last_graph>> /\ main' = "top"
          /\ queue'[queue_pos].id = -1
      BY <1>3, CurType DEF HandleAddGraphFull, At, IInv, TypeOK, ThreadOp
    <2>2. -1 \notin Ids
      BY Constants DEF Ids
    <2>3. \A c \in Clients : \/ Same(c)
                             \/ /\ Answered(c, "ADD_GRAPH")' /\ queue'[slot'[c]].id \notin Ids
                                /\ ~Answered(c, "ADD_GRAPH") /\ held' = held
                                /\ ~Answered(c, "RM_GRAPH") /\ ~Answered(c, "RM_GRAPH")'
      BY <2>1, <2>2, ServerSlots, Zenon DEF Same, Answered, InFlight, cur
    <2>4. \A c \in Clients : Owned(c)' = Owned(c)
      BY <2>3, Zenon DEF Owned, Same
    <2>5. GraphIdsUnique'
      BY <2>1, <2>4, FewerOwned, Zenon DEF IdInv
    <2>6. Holdings'
      <3>1. \A c \in Clients : Owned(c) \subseteq Ids
        BY Zenon DEF Owned
      <3>2. QED
        <4> SUFFICES ASSUME NEW c \in Clients, NEW i \in Owned(c)
                     PROVE  /\ i < last_graph'
                            /\ graphs'[i] = IF Answered(c, "ADD_GRAPH")' /\ queue'[slot'[c]].id = i
                                            THEN call'[c].graph ELSE held'[c][i]
          BY <2>1, <2>4, Zenon DEF Holdings
        <4>1. /\ i < last_graph'
              /\ graphs'[i] = IF Answered(c, "ADD_GRAPH") /\ queue[slot[c]].id = i
                              THEN call[c].graph ELSE held[c][i]
          BY <2>1, Zenon DEF IdInv, Holdings
        <4>2. CASE Same(c)
          BY <4>1, <4>2, Zenon DEF Same
        <4>3. CASE ~Same(c)
          BY <2>3, <3>1, <4>1, <4>3, Zenon
        <4>4. QED
          BY <4>2, <4>3, Zenon
    <2>7. PopReturnsAdded'
      BY <2>3, Zenon DEF IdInv, PopReturnsAdded, Same
    <2>8. QED
      BY <2>5, <2>6, <2>7, ServerSlots, Zenon DEF IdInv
  <1>4. CASE HandleQuit
    <2>1. \A c \in Clients : Same(c)
      BY <1>4, OtherSteps DEF HandleQuit
    <2>2. \A c \in Clients : Owned(c)' = Owned(c)
      BY <2>1, SameOwned
    <2>3. GraphIdsUnique'
      BY <1>4, <2>2 DEF HandleQuit, IdInv, GraphIdsUnique
    <2>4. Holdings' /\ PopReturnsAdded'
      BY <1>4, <2>1, Zenon DEF HandleQuit, IdInv, Holdings, PopReturnsAdded, Same
    <2>5. QED
      BY <2>3, <2>4, ServerSlots, Zenon DEF IdInv
  <1>5. ASSUME UNCHANGED <<graphs, free_graph, last_graph>>,
               queue' = queue \/ (main = "ops" /\ cur.op \notin {"ADD_GRAPH", "RM_GRAPH"})
        PROVE  IdInv'
    <2>1. \A c \in Clients : Same(c)
      BY <1>5, OtherSteps
    <2>2. main' # "none" /\ main # "exited"
      BY ServerSlots
    <2>3. GraphIdsUnique' /\ Holdings' /\ PopReturnsAdded'
      BY <1>5, <2>1, <2>2, SameKeeps DEF IdInv
    <2>4. QED
      BY <2>3, ServerSlots, Zenon DEF IdInv
  <1>6. CASE MainLock \/ MainEmpty \/ MainLockFails \/ PollDone \/ \E i \in Ids : PollFails(i)
    BY <1>5, <1>6, Zenon DEF MainLock, MainEmpty, MainLockFails, PollDone, PollFails, vars, serverVars
  <1>7. CASE HandlePopError \/ HandleForceStart \/ HandleRunNoGraph \/ HandleRun
             \/ HandleStop \/ HandleState \/ HandleNone
    BY <1>5, <1>7 DEF HandlePopError, HandleForceStart, HandleRunNoGraph, HandleRun,
       HandleStop, HandleState, HandleNone, At
  <1>8. QED
    BY <1>1, <1>2, <1>3, <1>4, <1>6, <1>7 DEF MainNext

LEMMA NextIds == IInv /\ IdInv /\ [Next]_vars => IdInv'
  <1> SUFFICES ASSUME IInv, IdInv, [Next]_vars PROVE IdInv'
    OBVIOUS
  <1>1. CASE UNCHANGED vars
    <2>1. \A c \in Clients : Same(c)
      BY <1>1, Zenon DEF Same, Answered, InFlight, vars, clientVars
    <2>2. GraphIdsUnique' /\ Holdings' /\ PopReturnsAdded'
      BY <1>1, <2>1, SameKeeps DEF IdInv, vars, serverVars
    <2>3. Requests'
      BY <1>1, Zenon DEF IdInv, Requests, InFlight, vars, clientVars
    <2>4. QED
      BY <2>2, <2>3 DEF IdInv
  <1>2. CASE ThreadInit
    <2>1. \A c \in Clients : phase[c] = "idle" /\ ~InFlight(c) /\ ~InFlight(c)' /\ call[c].op = "NONE"
      <3>1. \A c \in Clients : phase[c] = "idle" /\ call[c] = None
        BY <1>2, Zenon DEF ThreadInit, IInv, Destroy, Calls
      <3>2. None.op = "NONE"
        BY DEF None, Op
      <3>3. phase' = phase
        BY <1>2 DEF ThreadInit, clientVars
      <3>4. QED
        BY <3>1, <3>2, <3>3 DEF InFlight
    <2>2. \A c \in Clients : Same(c)
      BY <1>2, <2>1, Zenon DEF Same, Answered, ThreadInit, clientVars
    <2>3. \A c \in Clients : Owned(c)' = {}
      BY <1>2, <2>2, SameOwned, Zenon DEF ThreadInit, IdInv, Holdings
    <2>4. GraphIdsUnique' /\ Holdings' /\ PopReturnsAdded'
      BY <1>2, <2>1, <2>3, Zenon DEF ThreadInit, IdInv, GraphIdsUnique, Holdings, PopReturnsAdded, Answered
    <2>5. Requests'
      <3>1. queue_size' = 0 /\ UNCHANGED <<call, held>>
        BY <1>2 DEF ThreadInit, clientVars
      <3>2. \A c \in Clients : ~InFlight(c)' /\ call'[c].op # "RM_GRAPH"
        BY <2>1, <3>1
      <3>3. 0 .. queue_size' - 1 = {}
        BY <3>1
      <3>4. QED
        BY <3>2, <3>3, Zenon DEF Requests
    <2>6. QED
      BY <2>4, <2>5 DEF IdInv
  <1>3. QED
    BY <1>1, <1>2, ServerIds, NewCallIds, InCallIds DEF Next

LEMMA InitIds == Init => IdInv
  <1> SUFFICES ASSUME Init PROVE IdInv
    OBVIOUS
  <1>1. \A c \in Clients : ~InFlight(c) /\ call[c].op = "NONE"
    BY Zenon DEF Init, InFlight, None, Op
  <1>2. \A c \in Clients : Owned(c) = {}
    BY <1>1, Zenon DEF Init, Owned, Answered
  <1>3. QED
    <2>1. GraphIdsUnique
      BY <1>1, <1>2 DEF Init, GraphIdsUnique
    <2>2. Holdings /\ PopReturnsAdded
      BY <1>1, <1>2, Zenon DEF Holdings, PopReturnsAdded, Answered
    <2>3. Requests
      BY <1>1 DEF Init, Requests
    <2>4. QED
      BY <2>1, <2>2, <2>3 DEF IdInv

THEOREM IdInvariance == Spec => []IdInv
  BY InitIds, NextIds, Invariance, PTL DEF Spec

\* No graph id of a thread ever has two owners, and an id that is free has none.
THEOREM IdsUnique == Spec => []GraphIdsUnique
  <1>1. IdInv => GraphIdsUnique
    BY DEF IdInv
  <1>2. QED
    BY <1>1, IdInvariance, PTL

\* pg_thread_pop_graph returns the graph that its caller added under the id.
THEOREM PopCorrect == Spec => []PopReturnsAdded
  <1>1. IdInv => PopReturnsAdded
    BY DEF IdInv
  <1>2. QED
    BY <1>1, IdInvariance, PTL

-----------------------------------------------------------------------------
(* pg_thread_stop.                                                         *)

\* A call of pg_thread_stop that pg_thread_main has not handled yet.
StopPending ==
  \E c \in Clients : call[c].op = "STOP" /\ (InFlight(c) => queue[slot[c]].op = "STOP")

\* Since a call of pg_thread_stop that found nothing under way that starts the
\* thread there still is nothing, and until the call is handled the thread may
\* run; from then on it is stopped outside of its polls.
Quiet ==
  quiet = "clean" =>
    /\ ~UnderWay(Starts)
    /\ StopPending \/ (state = "STOPPED" /\ main # "poll")

\* What the history variable says after a step that makes no call.
LEMMA QuietKept ==
  ASSUME IInv, NextQuiet, quiet' = "clean",
         \A c \in Clients : call'[c] = call[c] \/ call'[c] = None
  PROVE  quiet = "clean"
  <1>1. None.op = "NONE"
    BY Zenon DEF None, Op
  <1>2. ~Called({"STOP"})
    BY <1>1 DEF Called, IInv, Calls
  <1>3. QED
    BY <1>2 DEF NextQuiet

LEMMA NewCallQuiet ==
  ASSUME IInv, Quiet, NextQuiet, NEW c \in Clients, NewCall(c)
  PROVE  Quiet'
  <1>. SUFFICES ASSUME quiet' = "clean"
                PROVE  ~UnderWay(Starts)' /\ (StopPending' \/ (state' = "STOPPED" /\ main' # "poll"))
    BY DEF Quiet
  <1>1. PICK op : Call(c, op)
    BY Zenon DEF NewCall, pg_thread_state, pg_thread_run, pg_thread_stop,
       pg_thread_pop_error, pg_thread_add_graph, pg_thread_pop_graph,
       pg_thread_force_start_graph, pg_thread_destroy
  <1>2. /\ phase[c] = "idle" /\ phase'[c] = "enqueue" /\ call'[c] = op
        /\ \A d \in Clients \ {c} : call'[d] = call[d] /\ phase'[d] = phase[d]
        /\ UNCHANGED <<queue, queue_size, slot, state, main>>
    BY <1>1, Zenon DEF Call, serverVars, IInv, TypeOK
  <1>3. CASE op.op = "STOP"
    <2>1. Called({"STOP"})
      BY <1>2, <1>3 DEF Called
    <2>2. ~UnderWay(Starts)
      BY <2>1 DEF NextQuiet
    <2>3. ~UnderWay(Starts)'
      BY <1>2, <1>3, <2>2, Zenon DEF UnderWay, Starts
    <2>4. StopPending'
      BY <1>2, <1>3 DEF StopPending, InFlight
    <2>5. QED
      BY <2>3, <2>4
  <1>4. CASE op.op # "STOP"
    <2>1. ~Called({"STOP"})
      <3>1. \A d \in Clients : phase[d] = "idle" => call[d] = None
        BY DEF IInv, Calls
      <3>2. None.op # "STOP"
        BY DEF None, Op
      <3>3. ASSUME NEW d \in Clients, phase[d] = "idle" PROVE call'[d].op # "STOP"
        <4>1. CASE d = c
          BY <1>2, <1>4, <4>1
        <4>2. CASE d # c
          BY <1>2, <3>1, <3>2, <3>3, <4>2, Zenon
        <4>3. QED
          BY <4>1, <4>2
      <3>4. QED
        BY <3>3 DEF Called
    <2>2. ~Called(Starts) /\ quiet = "clean"
      BY <2>1 DEF NextQuiet
    <2>3. op.op \notin Starts
      BY <1>2, <2>2 DEF Called
    <2>4. ~UnderWay(Starts)'
      BY <1>2, <2>2, <2>3, Zenon DEF Quiet, UnderWay
    <2>5. ASSUME StopPending PROVE StopPending'
      <3>1. call[c].op = "NONE"
        <4>1. call[c] = None
          BY <1>2, Zenon DEF IInv, Calls
        <4>2. None.op = "NONE"
          BY Zenon DEF None, Op
        <4>3. QED
          BY <4>1, <4>2, Zenon
      <3>2. PICK d \in Clients : call[d].op = "STOP" /\ (InFlight(d) => queue[slot[d]].op = "STOP")
        BY <2>5 DEF StopPending
      <3>3. d # c
        BY <3>1, <3>2
      <3>4. QED
        BY <1>2, <3>2, <3>3, Zenon DEF StopPending, InFlight
    <2>6. QED
      BY <1>2, <2>2, <2>4, <2>5 DEF Quiet
  <1>5. QED
    BY <1>3, <1>4

LEMMA InCallQuiet ==
  ASSUME IInv, Quiet, NextQuiet, NEW c \in Clients, InCall(c)
  PROVE  Quiet'
  <1>. SUFFICES ASSUME quiet' = "clean"
                PROVE  ~UnderWay(Starts)' /\ (StopPending' \/ (state' = "STOPPED" /\ main' # "poll"))
    BY DEF Quiet
  <1>0. /\ phase \in [Clients -> {"idle", "enqueue", "append", "wait", "read", "join"}]
        /\ call \in [Clients -> ThreadOp]
        /\ slot \in [Clients -> Slots]
        /\ queue \in [Slots -> ThreadOp]
        /\ queue_size \in 0 .. MaxOp - 1
        /\ None.op = "NONE"
    BY Zenon DEF IInv, TypeOK, None, Op
  <1>1. /\ \A d \in Clients : call'[d] = call[d] \/ call'[d] = None
        /\ state' = state /\ (main' = main \/ main' = "none")
    BY <1>0 DEF InCall, EnqueueLock, EnqueueAppend, EnqueueFull, AnswerLock, AnswerNotYet,
       AnswerTake, DestroyReturn, serverVars
  <1>2. quiet = "clean"
    BY <1>1, QuietKept
  <1>3. /\ \A i \in 0 .. queue_size - 1 : queue[i].op \notin Starts
        /\ \A d \in Clients : call[d].op \notin Starts
        /\ "NONE" \notin Starts
    BY <1>2 DEF Quiet, UnderWay, Starts
  <1>4. PICK n \in Nat : n = queue_size'
    BY ClientType, Constants DEF TypeOK
  <1>5. ASSUME NEW i \in 0 .. n - 1 PROVE queue'[i].op \notin Starts
    <2>1. CASE EnqueueAppend(c)
      <3>1. queue' = [queue EXCEPT ![queue_size] = call[c]] /\ n = queue_size + 1
        BY <1>4, <2>1 DEF EnqueueAppend
      <3>2. i \in Slots /\ (i = queue_size \/ i \in 0 .. queue_size - 1)
        BY <1>0, <3>1, Constants DEF Slots
      <3>3. QED
        BY <1>0, <1>3, <3>1, <3>2
    <2>2. CASE AnswerTake(c)
      <3>1. queue' = [queue EXCEPT ![slot[c]] = None] /\ n \in 0 .. queue_size
        BY <1>4, <2>2 DEF AnswerTake
      <3>2. i \in Slots /\ i \in 0 .. queue_size - 1
        BY <1>0, <3>1, Constants DEF Slots
      <3>3. QED
        BY <1>0, <1>3, <3>1, <3>2
    <2>3. CASE DestroyReturn(c)
      BY <1>4, <2>3 DEF DestroyReturn
    <2>4. CASE EnqueueLock(c) \/ EnqueueFull(c) \/ AnswerLock(c) \/ AnswerNotYet(c)
      BY <1>3, <1>4, <2>4, Zenon DEF EnqueueLock, EnqueueFull, AnswerLock, AnswerNotYet
    <2>5. QED
      BY <2>1, <2>2, <2>3, <2>4 DEF InCall
  <1>6. ~UnderWay(Starts)'
    <2>1. \A i \in 0 .. queue_size' - 1 : queue'[i].op \notin Starts
      BY <1>4, <1>5, Zenon
    <2>2. \A d \in Clients : call'[d].op \notin Starts
      BY <1>0, <1>1, <1>3
    <2>3. QED
      BY <2>1, <2>2 DEF UnderWay
  <1>7. ASSUME StopPending PROVE StopPending'
    <2>1. PICK d \in Clients : call[d].op = "STOP" /\ (InFlight(d) => queue[slot[d]].op = "STOP")
      BY <1>7 DEF StopPending
    <2>2. CASE EnqueueAppend(c)
      <3>1. /\ queue_size \in Slots
            /\ InFlight(d) => slot[d] # queue_size
        BY <1>0, Constants DEF Slots, IInv, WaitersOwnSlots
      <3>2. CASE d = c
        <4>1. call'[d] = call[d] /\ slot'[d] = queue_size /\ queue'[queue_size] = call[d]
          BY <1>0, <2>1, <2>2, <3>1, <3>2 DEF EnqueueAppend, SyncOps
        <4>2. QED
          BY <2>1, <4>1 DEF StopPending
      <3>3. CASE d # c
        <4>1. /\ call'[d] = call[d] /\ slot'[d] = slot[d] /\ phase'[d] = phase[d]
              /\ InFlight(d) => queue'[slot[d]] = queue[slot[d]]
          BY <1>0, <2>2, <3>1, <3>3 DEF EnqueueAppend
        <4>2. QED
          BY <2>1, <4>1, Zenon DEF StopPending, InFlight
      <3>4. QED
        BY <3>2, <3>3
    <2>3. CASE AnswerTake(c)
      <3>1. d # c
        BY <2>1, <2>3 DEF AnswerTake, InFlight
      <3>2. InFlight(d) => slot[d] # slot[c]
        BY <2>3, <3>1 DEF AnswerTake, InFlight, IInv, WaitersOwnSlots
      <3>3. /\ call'[d] = call[d] /\ slot'[d] = slot[d] /\ phase'[d] = phase[d]
            /\ InFlight(d) => queue'[slot[d]] = queue[slot[d]]
        BY <1>0, <2>3, <3>1, <3>2 DEF AnswerTake
      <3>4. QED
        BY <2>1, <3>3, Zenon DEF StopPending, InFlight
    <2>4. CASE DestroyReturn(c)
      <3>1. d # c /\ phase[d] # "idle"
        BY <1>0, <2>1, <2>4 DEF DestroyReturn, IInv, Calls
      <3>2. QED
        BY <2>4, <3>1, Zenon DEF DestroyReturn, IInv, Destroy, Destroying
    <2>5. CASE EnqueueLock(c) \/ EnqueueFull(c) \/ AnswerLock(c) \/ AnswerNotYet(c)
      <3>1. /\ call'[d] = call[d] /\ UNCHANGED <<slot, queue>>
            /\ InFlight(d)' => InFlight(d)
        BY <1>0, <2>1, <2>5, Zenon DEF EnqueueLock, EnqueueFull, AnswerLock, AnswerNotYet, InFlight
      <3>2. QED
        BY <2>1, <3>1 DEF StopPending
    <2>6. QED
      BY <2>2, <2>3, <2>4, <2>5 DEF InCall
  <1>8. QED
    BY <1>1, <1>2, <1>6, <1>7, Zenon DEF Quiet

LEMMA ServerQuiet ==
  ASSUME IInv, Quiet, NextQuiet, MainNext
  PROVE  Quiet'
  <1>. SUFFICES ASSUME quiet' = "clean"
                PROVE  ~UnderWay(Starts)' /\ (StopPending' \/ (state' = "STOPPED" /\ main' # "poll"))
    BY DEF Quiet
  <1>1. Shared
    BY ServerStep
  <1>2. phase' = phase /\ call' = call /\ slot' = slot /\ queue_size' = queue_size
    BY <1>1 DEF Shared, clientVars
  <1>3. quiet = "clean"
    BY <1>2, QuietKept
  <1>4. /\ \A i \in 0 .. queue_size - 1 : queue[i].op \notin Starts
        /\ \A d \in Clients : call[d].op \notin Starts
    BY <1>3, Zenon DEF Quiet, UnderWay
  <1>5. /\ queue \in [Slots -> ThreadOp] /\ queue_size \in 0 .. MaxOp - 1
        /\ main = "ops" => queue_pos \in 0 .. queue_size - 1 /\ queue_pos \in Slots
        /\ None.op = "NONE"
    BY CurType, Zenon DEF IInv, TypeOK, Indexes, None, Op
  <1>6. main = "ops" => cur.op \notin Starts
    BY <1>4, <1>5, Zenon DEF cur
  <1>7. \A i \in 0 .. queue_size - 1 : queue'[i] = queue[i] \/ queue'[i].op \in {"ANSWER", "NONE"}
    <2>1. queue' = queue \/ (main = "ops" /\ Rewrites)
      BY <1>1, Zenon DEF Shared
    <2>2. None.op = "NONE"
      BY Zenon DEF None, Op
    <2>3. ASSUME NEW v \in ThreadOp, queue' = [queue EXCEPT ![queue_pos] = v]
          PROVE  \A i \in 0 .. queue_size - 1 : queue'[i] = queue[i] \/ queue'[i] = v
      BY <1>5, <2>3, Constants DEF Slots
    <2>4. QED
      BY <2>1, <2>2, <2>3, Zenon DEF Rewrites
  <1>8. ~UnderWay(Starts)'
    BY <1>2, <1>4, <1>7 DEF UnderWay, Starts
  <1>9. CASE HandleStop
    <2>1. state' = "STOPPED" /\ main' # "poll"
      BY <1>9 DEF HandleStop, At, Set, Advance, AfterOps
    <2>2. QED
      BY <1>8, <2>1
  <1>10. CASE ~HandleStop
    <2>1. ASSUME StopPending PROVE StopPending'
      <3>1. PICK d \in Clients : call[d].op = "STOP" /\ (InFlight(d) => queue[slot[d]].op = "STOP")
        BY <2>1, Zenon DEF StopPending
      <3>2. InFlight(d) => slot[d] \in Slots
        BY DEF IInv, TypeOK
      <3>3. main = "ops" /\ cur.op = "STOP" => queue' = queue
        BY <1>10 DEF MainNext, MainLock, MainEmpty, MainLockFails, HandleQuit, HandlePopError,
           HandleRmGraph, HandleAddGraph, HandleAddGraphFull, HandleForceStart, HandleRunNoGraph,
           HandleRun, HandleState, HandleNone, PollDone, PollFails, At
      <3>4. InFlight(d) => queue'[slot[d]].op = "STOP"
        BY <1>1, <1>5, <3>1, <3>2, <3>3, Zenon DEF Shared, Rewrites, cur
      <3>5. QED
        BY <1>2, <3>1, <3>4 DEF StopPending, InFlight
    <2>2. ASSUME state = "STOPPED", main # "poll" PROVE state' = "STOPPED" /\ main' # "poll"
      <3>1. CASE MainLock \/ MainEmpty \/ MainLockFails \/ PollDone \/ \E i \in Ids : PollFails(i)
        BY <2>2, <3>1, Zenon DEF MainLock, MainEmpty, MainLockFails, PollDone, PollFails, AfterOps, vars, serverVars
      <3>2. CASE HandleQuit \/ HandleAddGraphFull
        BY <2>2, <3>2 DEF HandleQuit, HandleAddGraphFull
      <3>3. CASE HandlePopError \/ HandleRmGraph \/ HandleAddGraph \/ HandleRunNoGraph
                 \/ HandleState \/ HandleNone
        <4>1. Advance(state) /\ main = "ops"
          BY <3>3 DEF HandlePopError, HandleRmGraph, HandleAddGraph, AddGraphAs, HandleRunNoGraph,
             HandleState, HandleNone, Set, At
        <4>2. QED
          BY <2>2, <4>1 DEF Advance, AfterOps
      <3>4. ~HandleForceStart /\ ~HandleRun
        BY <1>6 DEF HandleForceStart, HandleRun, At, Starts
      <3>5. QED
        BY <1>10, <3>1, <3>2, <3>3, <3>4 DEF MainNext
    <2>3. QED
      BY <1>3, <1>8, <2>1, <2>2 DEF Quiet
  <1>11. QED
    BY <1>9, <1>10

LEMMA NextQuietStep == ASSUME IInv, Quiet, [NextQuiet]_<<vars, quiet>> PROVE Quiet'
  <1>1. CASE UNCHANGED <<vars, quiet>>
    BY <1>1, Zenon DEF Quiet, UnderWay, StopPending, InFlight, vars, serverVars, clientVars
  <1>2. CASE NextQuiet /\ ThreadInit
    <2>1. call' = call /\ state' = state /\ main' = "top" /\ queue_size' = 0
      BY <1>2 DEF ThreadInit, clientVars
    <2>2. ~StopPending
      <3>1. None.op # "STOP"
        BY DEF None, Op
      <3>2. \A c \in Clients : call[c] = None
        BY <1>2, Zenon DEF ThreadInit, IInv, Destroy, Calls
      <3>3. QED
        BY <3>1, <3>2 DEF StopPending
    <2>3. quiet' = "clean" => quiet = "clean"
      BY <1>2, <2>1, QuietKept, Zenon
    <2>4. ~UnderWay(Starts) => ~UnderWay(Starts)'
      BY <2>1 DEF UnderWay
    <2>5. QED
      BY <2>1, <2>2, <2>3, <2>4 DEF Quiet
  <1>3. CASE NextQuiet /\ ~ThreadInit
    BY <1>3, NewCallQuiet, InCallQuiet, ServerQuiet DEF NextQuiet, Next
  <1>4. QED
    BY <1>1, <1>2, <1>3

LEMMA InvarianceQuiet == SpecQuiet => [](IInv /\ Quiet)
  <1>1. Init /\ quiet = "no" => IInv /\ Quiet
    BY InitIInv DEF Quiet
  <1>2. IInv /\ Quiet /\ [NextQuiet]_<<vars, quiet>> => IInv' /\ Quiet'
    <2>1. [NextQuiet]_<<vars, quiet>> => [Next]_vars
      BY DEF NextQuiet
    <2>2. QED
      BY <2>1, NextIInv, NextQuietStep
  <1>3. QED
    BY <1>1, <1>2, PTL DEF SpecQuiet

\* When pg_thread_stop returns, and no RUN or FORCE_START was under way when it
\* was called, the thread is stopped and stays so, however many callers use it
\* and whatever they call that does not start it.
THEOREM StopIsFinal == SpecQuiet => []StopHolds
  <1>1. Quiet => StopHolds
    BY DEF Quiet, StopHolds, StopReturned, StopPending
  <1>2. QED
    BY <1>1, InvarianceQuiet, PTL

=============================================================================
