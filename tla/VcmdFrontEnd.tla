---------------------------- MODULE VcmdFrontEnd ----------------------------
(***************************************************************************)
(* The ioctls of the vcmd build as clients meet them: hantro_ioctl takes   *)
(* m_global_lock around vcmd_ioctl, whatever the call and whichever client *)
(* makes it, and keeps it while the call sleeps: for execution time, for   *)
(* a slot of the pool, for a completion.  The call that would end the      *)
(* sleep needs the same lock, unless it is the interrupt handler.          *)
(*                                                                         *)
(* The calls are those that VcmdQueue and CmdbufPool model in detail, here *)
(* reduced to what they wait for and what they let others go on with: one  *)
(* core, files that stay open, buffers that each cost one unit of time.    *)
(***************************************************************************)
EXTENDS Integers, FiniteSetsExt, SequencesExt

CONSTANTS
    Threads, Files,
    Slots,       \* slots of the pool that clients can have
    Budget,      \* PROCESS_MAX_SUM_OF_IMAGE_SIZE, in buffers
    Careful,     \* whether clients keep the rules below
    None

ASSUME FrontEndAssumption ==
    Slots \in Nat /\ Budget \in Nat /\ Careful \in BOOLEAN /\ None \notin Threads \cup Files

VARIABLES
    lock,      \* who holds m_global_lock
    call,      \* what each thread is doing
    slot,      \* the buffers
    order,     \* the list of the core
    charge     \* total_exe_time of each file

vars == <<lock, call, slot, order, charge>>

Ids == 1..Slots
Ops == {"reserve", "run", "wait", "any", "release", "query"}
Idle == [op |-> None, file |-> None, slot |-> 0, step |-> "idle"]
Free == [state |-> "free", file |-> None, waited |-> FALSE, published |-> FALSE, remove |-> FALSE]

Init ==
    /\ lock = None /\ call = [t \in Threads |-> Idle]
    /\ slot = [s \in Ids |-> Free] /\ order = <<>>
    /\ charge = [f \in Files |-> 0]

-----------------------------------------------------------------------------
(* The rules of careful clients: a slot and a unit of time are left for    *)
(* the released buffer that stays at the end of the list, a wait has a     *)
(* completion to come, and a buffer is released when it is done.           *)

InFlight == {t \in Threads : call[t].step # "idle"}
Busy(s) == \E t \in InFlight : call[t].slot = s
Reserving(F) == Cardinality({t \in InFlight : call[t].op = "reserve" /\ call[t].file \in F})
Held(F) == Cardinality({s \in Ids : slot[s].file \in F /\ ~slot[s].remove})
ToReport(f) == {s \in Ids : /\ slot[s].file = f /\ slot[s].state \in {"queued", "done"}
                            /\ slot[s].published /\ ~slot[s].waited}
Asking(f) == Cardinality({t \in InFlight : call[t].op = "any" /\ call[t].file = f})
Releasing(f) == {call[t].slot : t \in {u \in InFlight : call[u].op = "release" /\ call[u].file = f}}

RoomFor(f) == /\ Held(Files) + Reserving(Files) < Slots - 1
              /\ Held({f}) + Reserving({f}) < Budget - 1

Allowed(f, op, s) ==
    CASE op = "reserve" -> RoomFor(f)
      [] op = "run"     -> slot[s].state = "reserved"
      [] op = "wait"    -> slot[s].state \in {"queued", "done"}
      [] op = "any"     -> Asking(f) < Cardinality(ToReport(f) \ Releasing(f))
      [] op = "release" -> /\ slot[s].state = "done"
                           /\ Asking(f) <= Cardinality(ToReport(f) \ (Releasing(f) \cup {s}))
      [] OTHER          -> TRUE

\* a thread calls; the slots it names are its file's
Call(t) ==
    \E f \in Files, op \in Ops, s \in Ids \cup {0} :
        /\ call[t] = Idle
        /\ s # 0 <=> op \in {"run", "wait", "release"}
        /\ s # 0 => slot[s].file = f /\ ~slot[s].remove /\ ~Busy(s) /\
                    (op = "run" => slot[s].state = "reserved")
        /\ Careful => Allowed(f, op, s)
        /\ call' = [call EXCEPT ![t] = [op |-> op, file |-> f, slot |-> s, step |-> "lock"]]
        /\ UNCHANGED <<lock, slot, order, charge>>

-----------------------------------------------------------------------------
(* the calls *)

\* mutex_lock: a signal does not end the wait for it
Enter(t) ==
    /\ call[t].step = "lock" /\ lock = None
    /\ lock' = t /\ call' = [call EXCEPT ![t].step = "start"]
    /\ UNCHANGED <<slot, order, charge>>

At(t, op, step) == call[t].op = op /\ call[t].step = step
Return(t) == lock' = None /\ call' = [call EXCEPT ![t] = Idle]

\* RESERVE: the time is charged first
Charge(t) ==
    /\ At(t, "reserve", "start")
    /\ charge' = [charge EXCEPT ![call[t].file] = @ + 1]
    /\ call' = [call EXCEPT ![t].step = "gate"]
    /\ UNCHANGED <<lock, slot, order>>

\* mutant: the limit itself is out of reach
GateBelow(f) == charge[f] < Budget

GateOpen(f) == charge[f] <= Budget

PassGate(t) ==
    /\ At(t, "reserve", "gate") /\ GateOpen(call[t].file)
    /\ call' = [call EXCEPT ![t].step = "slot"]
    /\ UNCHANGED <<lock, slot, order, charge>>

TakeSlot(t) ==
    /\ At(t, "reserve", "slot")
    /\ \E s \in Ids :
         /\ slot[s].state = "free"
         /\ slot' = [slot EXCEPT ![s] = [Free EXCEPT !.state = "reserved", !.file = call[t].file,
                                                     !.published = TRUE]]
    /\ Return(t) /\ UNCHANGED <<order, charge>>

\* LINK_RUN
Run(t) ==
    /\ At(t, "run", "start")
    /\ slot' = [slot EXCEPT ![call[t].slot].state = "queued"]
    /\ order' = Append(order, call[t].slot)
    /\ Return(t) /\ UNCHANGED charge

\* WAIT for one buffer
Wait(t) ==
    /\ At(t, "wait", "start") /\ slot[call[t].slot].state = "done"
    /\ Return(t) /\ UNCHANGED <<slot, order, charge>>

Unreported(f) == {s \in ToReport(f) : slot[s].state = "done"}

\* WAIT for any: the lowest id that is done and has not been reported
WaitAny(t) ==
    /\ At(t, "any", "start") /\ Unreported(call[t].file) # {}
    /\ slot' = [slot EXCEPT ![Min(Unreported(call[t].file))].waited = TRUE]
    /\ Return(t) /\ UNCHANGED <<order, charge>>

\* the walk goes from the buffer back to the head; the last one stays
Collected(q, rel, s) ==
    {x \in {q[i] : i \in 1..(Len(q) - 1)} :
        rel[x].remove /\ SelectInSeq(q, LAMBDA y : y = x) <= SelectInSeq(q, LAMBDA y : y = s)}

\* mutant: the caller is given back what the walk finds of others
RefundCaller(t, gone, f) == IF f = call[t].file THEN Cardinality(gone) ELSE 0

Refund(t, gone, f) == Cardinality({x \in gone : slot[x].file = f})

\* RELEASE: one that was never submitted has no list and is kept
Release(t) ==
    LET s == call[t].slot
        marked == [slot EXCEPT ![s].remove = TRUE, ![s].published = FALSE]
        gone == IF slot[s].state = "reserved" THEN {} ELSE Collected(order, marked, s)
    IN /\ At(t, "release", "start")
       /\ slot' = [x \in Ids |-> IF x \in gone THEN Free ELSE marked[x]]
       /\ order' = SelectSeq(order, LAMBDA x : x \notin gone)
       /\ charge' = [f \in Files |-> charge[f] - Refund(t, gone, f)]
       /\ Return(t)

\* GET_CMDBUF_PARAMETER, GET_VCMD_PARAMETER, POLLING: nothing to wait for
Answer(t) ==
    /\ At(t, "query", "start") /\ Return(t)
    /\ UNCHANGED <<slot, order, charge>>

\* a signal ends the sleep of the call that holds the lock; the charge stays
Signal(t) ==
    /\ \/ At(t, "reserve", "gate") /\ ~GateOpen(call[t].file)
       \/ At(t, "reserve", "slot") /\ \A s \in Ids : slot[s].state # "free"
       \/ At(t, "wait", "start") /\ slot[call[t].slot].state # "done"
       \/ At(t, "any", "start") /\ Unreported(call[t].file) = {}
    /\ Return(t) /\ UNCHANGED <<slot, order, charge>>

\* the handler takes no m_global_lock
Interrupt ==
    /\ \E i \in 1..Len(order) :
         /\ slot[order[i]].state = "queued"
         /\ \A j \in 1..(i - 1) : slot[order[j]].state = "done"
         /\ slot' = [slot EXCEPT ![order[i]].state = "done"]
    /\ UNCHANGED <<lock, call, order, charge>>

Step(t) == Charge(t) \/ PassGate(t) \/ TakeSlot(t) \/ Run(t) \/ Wait(t) \/ WaitAny(t)
           \/ Release(t) \/ Answer(t)

Next == Interrupt \/ \E t \in Threads : Call(t) \/ Enter(t) \/ Step(t) \/ Signal(t)

\* The mutex hands itself on to the longest waiter; the hardware executes
\* what it is given; nothing is assumed of clients and of signals.
Fairness == /\ WF_vars(Interrupt)
            /\ \A t \in Threads : SF_vars(Enter(t)) /\ WF_vars(Step(t))

Spec == Init /\ [][Next]_vars /\ Fairness

-----------------------------------------------------------------------------
(* Properties *)

\* With careful clients every call returns without a signal: whatever the
\* holder of the lock sleeps for comes from the interrupt handler alone.
IoctlsEnd == \A t \in Threads : call[t].step # "idle" ~> call[t].step = "idle"

\* What a file is charged is what its buffers cost, the kept one included,
\* and what the reservations under way have added.
ChargesHeld ==
    \A f \in Files :
        charge[f] = Cardinality({s \in Ids : slot[s].file = f})
                    + Cardinality({t \in Threads : /\ At(t, "reserve", "gate") \/ At(t, "reserve", "slot")
                                                   /\ call[t].file = f})
=============================================================================
