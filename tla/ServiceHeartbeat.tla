-------------------------- MODULE ServiceHeartbeat --------------------------
(***************************************************************************)
(* The heartbeat row of one service slot (cmd/joshbot/service_heartbeat.go *)
(* and UpsertServiceHeartbeat).  Processes that use the slot one after the *)
(* other, or at the same time when a restart overlaps, write the row; a    *)
(* write that its process has given up may still arrive later.             *)
(*                                                                         *)
(* Stamps are readings of one clock that never gives the same time twice.  *)
(***************************************************************************)
EXTENDS Integers

CONSTANTS
    Processes,
    States,    \* what Observe reports
    MaxClock   \* bound on the readings of the clock

VARIABLES
    clock,
    row,       \* crawl_service_heartbeats
    process,
    sent       \* writes on their way to the database

heartbeatVars == <<clock, row, process, sent>>

Final == {"stopping", "failed"}
Shown == States \cup Final \cup {"starting", "none"}

Write == [started : 0..MaxClock, updated : 0..MaxClock, state : Shown]
NoWrite == [started |-> 0, updated |-> 0, state |-> "none"]

(* pc: "start" and "stop" are inside the calls that write synchronously,   *)
(* "tick" inside a write of the ticker; "read" is any of them before it    *)
(* has taken its time.  "failed" is a stop that returned an error.         *)
HeartbeatTypeOK ==
    /\ clock \in 0..MaxClock
    /\ row \in Write
    /\ process \in [Processes ->
           [pc : {"new", "running", "read", "write", "stopped", "failed", "dead"},
            call : {"start", "tick", "stop"},
            started : 0..MaxClock, state : Shown, write : Write]]
    /\ sent \subseteq Write

HeartbeatInit ==
    /\ clock = 0 /\ row = NoWrite /\ sent = {}
    /\ process = [p \in Processes |->
           [pc |-> "new", call |-> "start", started |-> 0, state |-> "starting",
            write |-> NoWrite]]

Now == clock + 1
TakeTime == clock < MaxClock /\ clock' = Now

-----------------------------------------------------------------------------
Start(p) ==
    /\ process[p].pc = "new"
    /\ TakeTime
    /\ process' = [process EXCEPT
           ![p].pc = "read", ![p].started = Now,
           ![p].write = [started |-> Now, updated |-> 0, state |-> "starting"]]
    /\ UNCHANGED <<row, sent>>

(* Called by the work of the process while the ticker may be writing.      *)
Observe(p, state) ==
    /\ process[p].pc = "running" \/ process[p].call = "tick"
    /\ process[p].pc \in {"running", "read", "write"}
    /\ process' = [process EXCEPT ![p].state = state]
    /\ UNCHANGED <<clock, row, sent>>

(* write takes the state, and then the time.                               *)
ReadState(p, call, state) ==
    process' = [process EXCEPT
        ![p].pc = "read", ![p].call = call, ![p].state = state,
        ![p].write = [started |-> process[p].started, updated |-> 0,
                      state |-> state]]

TickerWrites(p) ==
    /\ process[p].pc = "running"
    /\ ReadState(p, "tick", process[p].state)
    /\ UNCHANGED <<clock, row, sent>>

(* stop waits for the goroutine of the ticker.                             *)
Stop(p, state) ==
    /\ process[p].pc = "running"
    /\ ReadState(p, "stop", state)
    /\ UNCHANGED <<clock, row, sent>>

Send(p) ==
    /\ process[p].pc = "read"
    /\ TakeTime
    /\ process' = [process EXCEPT ![p].pc = "write", ![p].write.updated = Now]
    /\ sent' = sent \cup {process'[p].write}
    /\ UNCHANGED row

-----------------------------------------------------------------------------
(* UpsertServiceHeartbeat                                                  *)

(* Mutant: a generation is not asked when it wrote.                        *)
AcceptsGeneration(w) == w.started >= row.started

Accepts(w) ==
    \/ w.started > row.started
    \/ w.started = row.started /\ w.updated >= row.updated

Deliver(w) ==
    /\ w \in sent
    /\ row' = IF Accepts(w) THEN w ELSE row
    /\ sent' = sent \ {w}
    /\ UNCHANGED <<clock, process>>

Returned(p, success) ==
    process' = [process EXCEPT ![p].pc =
        CASE process[p].call = "tick" -> "running"
          [] process[p].call = "start" -> IF success THEN "running" ELSE "dead"
          [] OTHER -> IF success THEN "stopped" ELSE "failed"]

Reply(p) ==
    /\ process[p].pc = "write" /\ process[p].write \notin sent
    /\ Returned(p, TRUE)
    /\ UNCHANGED <<clock, row, sent>>

(* The timeout passes, the context is canceled or the connection breaks;   *)
(* the write may be lost, done or on its way.                              *)
WriteFails(p) ==
    /\ process[p].pc = "write"
    /\ sent' \in {sent, sent \ {process[p].write}}
    /\ Returned(p, FALSE)
    /\ UNCHANGED <<clock, row>>

Die(p) ==
    /\ process[p].pc \in {"running", "read", "write"}
    /\ process' = [process EXCEPT ![p].pc = "dead"]
    /\ UNCHANGED <<clock, row, sent>>

HeartbeatNext ==
    \/ \E p \in Processes :
        \/ Start(p) \/ TickerWrites(p) \/ Send(p) \/ Reply(p) \/ WriteFails(p)
        \/ Die(p)
        \/ \E state \in States : Observe(p, state)
        \/ \E state \in Final : Stop(p, state)
    \/ \E w \in sent : Deliver(w)

HeartbeatSpec == HeartbeatInit /\ [][HeartbeatNext]_heartbeatVars

-----------------------------------------------------------------------------
(* Once stop has returned without error the row shows the state that the   *)
(* process ended in, for ever or until a process that was started later    *)
(* writes; once a process has started, the row never goes back to one      *)
(* that was started before it.  Late and lost writes do not matter.        *)
LastStateStays ==
    \A p \in Processes :
        /\ process[p].pc = "stopped" =>
               row.started > process[p].started \/ row = process[p].write
        /\ process[p].pc \in {"running", "stopped", "failed"} =>
               row.started >= process[p].started

(* The row of a service can be relied on.                                  *)
HeartbeatReliable == HeartbeatTypeOK /\ LastStateStays

=============================================================================
