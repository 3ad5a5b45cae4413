------------------------------- MODULE Vhost --------------------------------
(***************************************************************************)
(* The vhost brick: a virtual machine that comes and goes (new_vm and      *)
(* destroy_vm, called by the thread of the vhost library) while the thread *)
(* of the graph creates the brick, bursts to it, polls it and destroys it. *)
(*                                                                         *)
(* The fields of state:                                                    *)
(*   started   vhost_start_ok         listed  the socket is in sockets     *)
(*   vid       vid, 0 for -1          allow_queuing  the flag is taken (1) *)
(*   mutex     mutex is held          global  a feature was enabled for    *)
(*   enabled   the feature is on for the socket           all bricks       *)
(*   worker    where the thread of the graph is                            *)
(*   vm        where the thread of the vhost library is                    *)
(*   dev       the device of the machine that came last                    *)
(*   using     the device the thread of the graph works with               *)
(*   faults    counts the calls that failed                                *)
(* and two that only tell what happened: early, a machine came before      *)
(* vhost_init was done; relisted, pg_vhost_start emptied the list of the   *)
(* sockets under the brick.  The brick is compiled without                 *)
(* PG_VHOST_FASTER_YET_BROKEN_POLL.                                        *)
(***************************************************************************)
EXTENDS BrickState, Integers, FiniteSets

CONSTANTS
  MaxVms,       \* bound on the machines that come
  VhostFaults   \* bound on the calls that fail

vhost_none ==
  /\ state = [kind |-> "vhost", started |-> FALSE, mutex |-> FALSE, global |-> FALSE,
              vm |-> "off", dev |-> 0, faults |-> 0, worker |-> "none", listed |-> FALSE, vid |-> 0,
              allow_queuing |-> FALSE, using |-> 0, enabled |-> FALSE, early |-> FALSE,
              relisted |-> FALSE]
  /\ call = NoCall /\ sent = <<>>

Vhost == state.kind = "vhost"

\* The state of the brick goes with it.
NoBrick(s) ==
  [s EXCEPT !.worker = "none", !.listed = FALSE, !.vid = 0, !.allow_queuing = FALSE, !.using = 0,
            !.enabled = FALSE, !.early = FALSE, !.relisted = FALSE]

VhostSet(s) == Vhost /\ state' = s /\ UNCHANGED <<call, sent>>

Worker(at) == Vhost /\ state.worker = at
Vm(at) == Vhost /\ state.vm = at

-----------------------------------------------------------------------------
(* The application *)

\* LIST_INIT comes first, even when the directory is refused
\* (check_and_store_base_dir).
pg_vhost_start ==
  /\ Vhost /\ ~state.started
  /\ \/ VhostSet([state EXCEPT !.started = TRUE, !.listed = FALSE,
                            !.relisted = state.relisted \/ state.listed])
     \/ /\ state.faults < VhostFaults
        /\ VhostSet([state EXCEPT !.listed = FALSE, !.relisted = state.relisted \/ state.listed,
                               !.faults = state.faults + 1])

pg_vhost_stop == Vhost /\ state.started /\ VhostSet([state EXCEPT !.started = FALSE])

pg_vhost_global_enable == Vhost /\ ~state.global /\ VhostSet([state EXCEPT !.global = TRUE])

\* pg_vhost_enable: without a socket (pg_vhost_socket_path) nothing is enabled.
pg_vhost_enable(socket, asked) == socket /\ asked

-----------------------------------------------------------------------------
(* The thread of the graph *)

\* vhost_init up to the end of rte_vhost_driver_start: from now on a machine may
\* come.  The features of all bricks are asked for before there is a socket.  When
\* the library refuses, there is no brick.
vhost_init ==
  /\ Worker("none") /\ state.started
  /\ \/ VhostSet([state EXCEPT !.worker = "started", !.enabled = pg_vhost_enable(FALSE, state.global)])
     \/ state.faults < VhostFaults /\ VhostSet([state EXCEPT !.faults = state.faults + 1])

\* The end of vhost_create_socket.
vhost_create_socket ==
  /\ Worker("started") /\ ~state.mutex
  /\ VhostSet([state EXCEPT !.worker = "inserted", !.listed = TRUE])

\* The end of vhost_init: the flag is taken until a machine comes.
vhost_init_done == Worker("inserted") /\ VhostSet([state EXCEPT !.worker = "idle", !.allow_queuing = TRUE])

\* vhost_burst and vhost_poll try to take the flag, and do nothing without it.
vhost_burst ==
  /\ Worker("idle") /\ ~state.allow_queuing
  /\ VhostSet([state EXCEPT !.worker = "burst", !.allow_queuing = TRUE, !.using = state.vid])

vhost_poll ==
  /\ Worker("idle") /\ ~state.allow_queuing
  /\ VhostSet([state EXCEPT !.worker = "poll", !.allow_queuing = TRUE, !.using = state.vid])

\* Mutant: nothing was received and the poll returns with the flag.
WorkedKeeps ==
  \/ Worker("burst") /\ VhostSet([state EXCEPT !.worker = "idle", !.allow_queuing = FALSE, !.using = 0])
  \/ Worker("poll") /\ VhostSet([state EXCEPT !.worker = "idle", !.using = 0])

\* The packets were given to the machine or taken from it, and the flag is free.
Worked ==
  \/ Worker("burst") /\ VhostSet([state EXCEPT !.worker = "idle", !.allow_queuing = FALSE, !.using = 0])
  \/ Worker("poll") /\ VhostSet([state EXCEPT !.worker = "idle", !.allow_queuing = FALSE, !.using = 0])

\* rte_vhost_driver_unregister returns when no machine is left.
vhost_destroy == Worker("idle") /\ VhostSet([state EXCEPT !.worker = "unregister"])

vhost_destroy_done ==
  Worker("unregister") /\ Vm("off") /\ ~state.mutex /\ VhostSet(NoBrick(state))

-----------------------------------------------------------------------------
(* The thread of the vhost library *)

\* A machine connects to the socket, and the library calls new_vm.
Connect ==
  /\ Vm("off") /\ state.worker \notin {"none", "unregister"}
  /\ state.dev < MaxVms
  /\ VhostSet([state EXCEPT !.vm = "new", !.dev = state.dev + 1])

new_vm ==
  /\ Vm("new") /\ ~state.mutex
  /\ VhostSet([state EXCEPT
                 !.vm = "on",
                 !.early = state.early \/ state.worker \in {"started", "inserted"},
                 !.vid = IF state.listed THEN state.dev ELSE state.vid,
                 !.allow_queuing = state.allow_queuing /\ ~state.listed])

\* The machine stops, and the library calls destroy_vm.
Disconnect == Vm("on") /\ VhostSet([state EXCEPT !.vm = "leaving"])

\* destroy_vm holds the mutex while it waits for the flag of the brick.
destroy_vm ==
  /\ Vm("leaving") /\ ~state.mutex
  /\ VhostSet([state EXCEPT !.vm = IF state.listed THEN "spin" ELSE "off", !.mutex = state.listed])

\* Mutant: the flag is taken away from the thread of the graph.
destroy_vm_doneForced ==
  Vm("spin") /\ VhostSet([state EXCEPT !.vm = "off", !.mutex = FALSE, !.allow_queuing = TRUE, !.vid = 0])

\* The flag is free, and stays taken until the next machine.
destroy_vm_done ==
  /\ Vm("spin") /\ ~state.allow_queuing
  /\ VhostSet([state EXCEPT !.vm = "off", !.mutex = FALSE, !.allow_queuing = TRUE, !.vid = 0])

VhostNext ==
  \/ pg_vhost_start \/ pg_vhost_stop \/ pg_vhost_global_enable
  \/ vhost_init \/ vhost_create_socket \/ vhost_init_done
  \/ vhost_burst \/ vhost_poll \/ Worked
  \/ vhost_destroy \/ vhost_destroy_done
  \/ Connect \/ new_vm \/ Disconnect \/ destroy_vm \/ destroy_vm_done

\* The threads run: a burst or poll that began ends, a callback goes on when the
\* mutex is free, and destroy_vm, which tries again and again, sooner or later
\* tries while the flag is free.
VhostFairness ==
  WF_dpvars(Worked) /\ WF_dpvars(destroy_vm) /\ SF_dpvars(destroy_vm_done)

-----------------------------------------------------------------------------
(* Properties. *)

Orderly == ~state.early /\ ~state.relisted

\* The flag allow_queuing makes the brick and the machine exclude one another:
\* while vhost_burst or vhost_poll works with a device, destroy_vm of this device
\* has not returned; and when the brick was ready before the machine came, the
\* flag is free exactly when there is a machine and no burst or poll at work, so
\* that no packet is refused for another reason.
VhostExclusive ==
  Vhost =>
    /\ (state.using # 0 /\ ~state.relisted) => state.using = state.dev /\ state.vm # "off"
    /\ (Orderly /\ state.worker \in {"idle", "burst", "poll", "unregister"}) =>
         (state.allow_queuing <=> state.using # 0 \/ state.vm \in {"off", "new"})

\* The library gets its thread back from destroy_vm, which waits for the flag
\* with the mutex held: unless the machine had come before vhost_init was done
\* (then the flag was set after new_vm cleared it and is never free again).
VhostLeaves ==
  (Vhost /\ state.vm = "leaving" /\ Orderly) ~> (Vhost /\ state.vm = "off")
=============================================================================
