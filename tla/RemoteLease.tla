----------------------------- MODULE RemoteLease -----------------------------
(***************************************************************************)
(* The remote writer lease: RemoteLeaseGuard and its broker adapter        *)
(* (src/remote_lease.rs), taken before the local lock by                   *)
(* WriterOperationGuard::acquire_remote (src/writer_guard.rs) and checked  *)
(* by FencedCommandRunner (src/command.rs) before each write.              *)
(*                                                                         *)
(* The broker is an external compare-and-swap service.  Hosts read the     *)
(* same clock, but a timestamp they send or compare may have grown stale;  *)
(* a request or its response may be lost, and a host may die at any step.  *)
(***************************************************************************)
EXTENDS Naturals

CONSTANTS Hosts, Ttl, Heartbeat,
          MaxTime,      \* bound: the clock
          MaxFence,     \* bound: grants ever issued
          MaxFaults,    \* bound: lost requests and responses
          NoGrant

(* RemoteLeaseAcquire::validate.                                           *)
ASSUME TimesAssumption ==
  Ttl \in Nat /\ Heartbeat \in Nat /\ 0 < Heartbeat /\ Heartbeat < Ttl
ASSUME BoundsAssumption ==
  MaxTime \in Nat /\ MaxFence \in Nat /\ MaxFaults \in Nat

Time == 0 .. MaxTime

(* A grant: holder, operation ID, fencing token, heartbeat due, expiry.    *)
Grant == [host : Hosts, op : 1 .. MaxFence, fence : 1 .. MaxFence,
          due : Nat, exp : Nat]

ASSUME NoGrantAssumption == NoGrant \notin Grant

GuardPc == {"local", "held", "renew", "renewed", "reinspect", "inspect",
            "write", "drop"}
Pc == {"idle", "acquire", "ambiguous"} \cup GuardPc

VARIABLES now,       \* the clock
          grant,     \* broker: the recorded grant
          issued,    \* broker: the greatest fencing token issued
          ops,       \* operation IDs drawn
          host,      \* per host: step, operation, timestamp read, grant held,
                     \* grant in a renewal's response
          faults

vars == <<now, grant, issued, ops, host, faults>>

Idle == [pc |-> "idle", op |-> 0, t |-> 0, mine |-> NoGrant,
         reply |-> NoGrant]

Init ==
  /\ now = 0 /\ grant = NoGrant /\ issued = 0 /\ ops = 0 /\ faults = 0
  /\ host = [h \in Hosts |-> Idle]

At(h, l) == host[h].pc = l
Goto(h, l) == host' = [host EXCEPT ![h].pc = l]
Fault == faults < MaxFaults /\ faults' = faults + 1
NoFault == UNCHANGED faults

(* RemoteLeaseGrant::live_at and exact_fence.                              *)
LiveAt(g, t) == t < g.exp
ExactFence(g, k) == /\ g # NoGrant
                    /\ g.host = k.host /\ g.op = k.op /\ g.fence = k.fence

HasGuard(h) == host[h].pc \in GuardPc

-----------------------------------------------------------------------------
(* The broker's compare-and-swap operations.                               *)
Contended(h) == grant # NoGrant /\ LiveAt(grant, host[h].t)

BrokerAcquire(h) ==
  /\ ~Contended(h)
  /\ issued < MaxFence
  /\ issued' = issued + 1
  /\ grant' = [host |-> h, op |-> host[h].op, fence |-> issued + 1,
               due |-> host[h].t + Heartbeat, exp |-> host[h].t + Ttl]

Extended(h) == [grant EXCEPT !.due = host[h].t + Heartbeat,
                             !.exp = host[h].t + Ttl]

BrokerCanRenew(h) == ExactFence(grant, host[h].mine) /\ LiveAt(grant, host[h].t)

BrokerRelease(h) ==
  grant' = IF ExactFence(grant, host[h].mine) THEN NoGrant ELSE grant

-----------------------------------------------------------------------------
(* The request names a fresh operation ID and the time it was built.       *)
Start(h) ==
  /\ At(h, "idle") /\ ops < MaxFence
  /\ ops' = ops + 1
  /\ host' = [host EXCEPT ![h] =
                [pc |-> "acquire", op |-> ops + 1, t |-> now,
                 mine |-> NoGrant, reply |-> NoGrant]]
  /\ UNCHANGED <<now, grant, issued, faults>>

(* CommandRemoteWriterLease::acquire: a grant, typed contention, or no     *)
(* answer whether or not the broker acted.                                 *)
Acquire(h) ==
  /\ At(h, "acquire")
  /\ \/ /\ BrokerAcquire(h) /\ NoFault
        /\ host' = [host EXCEPT ![h].pc = "local", ![h].mine = grant']
     \/ /\ BrokerAcquire(h) /\ Fault
        /\ Goto(h, "ambiguous")
     \/ /\ Contended(h) /\ NoFault
        /\ host' = [host EXCEPT ![h] = Idle]
        /\ UNCHANGED <<grant, issued>>
     \/ /\ Fault
        /\ Goto(h, "ambiguous")
        /\ UNCHANGED <<grant, issued>>
  /\ UNCHANGED <<now, ops>>

(* RemoteLeaseGrant::same_holder.                                          *)
SameHolder(h) == grant # NoGrant /\ grant.host = h /\ grant.op = host[h].op

(* One inspection after an ambiguous acquire.  If it finds nothing, or     *)
(* fails, the operation ends; a grant it did not see runs out by itself.   *)
InspectAcquire(h) ==
  /\ At(h, "ambiguous")
  /\ \/ /\ SameHolder(h) /\ LiveAt(grant, host[h].t) /\ NoFault
        /\ host' = [host EXCEPT ![h].pc = "local", ![h].mine = grant]
     \/ /\ ~(SameHolder(h) /\ LiveAt(grant, host[h].t)) /\ NoFault
        /\ host' = [host EXCEPT ![h] = Idle]
     \/ /\ Fault
        /\ host' = [host EXCEPT ![h] = Idle]
  /\ UNCHANGED <<now, grant, issued, ops>>

(* The local lock and its first checkpoint; failure drops the guard.       *)
LocalLock(h) ==
  /\ At(h, "local")
  /\ Goto(h, "held") \/ Goto(h, "drop")
  /\ UNCHANGED <<now, grant, issued, ops, faults>>

(* before_write_at: expired, renew when the heartbeat is due, or inspect.  *)
BeforeWrite(h) ==
  /\ At(h, "held")
  /\ host' = [host EXCEPT
       ![h].t = now,
       ![h].pc = IF ~LiveAt(host[h].mine, now) THEN "drop"
                 ELSE IF now >= host[h].mine.due THEN "renew" ELSE "inspect"]
  /\ UNCHANGED <<now, grant, issued, ops, faults>>

(* The broker extends the exact live fence, or refuses; the response may   *)
(* be lost, and a refusal is an execution failure like a lost response.    *)
Renew(h) ==
  /\ At(h, "renew")
  /\ \/ /\ BrokerCanRenew(h) /\ NoFault
        /\ grant' = Extended(h)
        /\ host' = [host EXCEPT ![h].pc = "renewed", ![h].reply = grant']
     \/ /\ BrokerCanRenew(h) /\ Fault
        /\ grant' = Extended(h)
        /\ Goto(h, "reinspect")
     \/ /\ ~BrokerCanRenew(h) /\ NoFault
        /\ Goto(h, "reinspect") /\ UNCHANGED grant
     \/ /\ Fault
        /\ Goto(h, "reinspect") /\ UNCHANGED grant
  /\ UNCHANGED <<now, issued, ops>>

(* Mutant: the fence of the renewed grant is not compared.                 *)
RenewedAnyFence(h, g) == g # NoGrant /\ g.exp > host[h].mine.exp

(* validate_renewed_grant: same fence, strictly later expiry.              *)
ValidRenewed(h, g) ==
  ExactFence(g, host[h].mine) /\ g.exp > host[h].mine.exp

(* The renewal's grant replaces the guard's; otherwise the write fails.    *)
AcceptRenewal(h, g) ==
  IF ValidRenewed(h, g)
  THEN host' = [host EXCEPT ![h].pc = "write", ![h].mine = g,
                            ![h].reply = NoGrant]
  ELSE host' = [host EXCEPT ![h].pc = "drop", ![h].reply = NoGrant]

Renewed(h) ==
  /\ At(h, "renewed")
  /\ AcceptRenewal(h, host[h].reply)
  /\ UNCHANGED <<now, grant, issued, ops, faults>>

(* One inspection after an ambiguous renewal.                              *)
InspectRenewal(h) ==
  /\ At(h, "reinspect")
  /\ \/ AcceptRenewal(h, grant) /\ NoFault
     \/ Goto(h, "drop") /\ Fault
  /\ UNCHANGED <<now, grant, issued, ops>>

(* The heartbeat is not due: the exact live fence must be observed.        *)
InspectFence(h) ==
  /\ At(h, "inspect")
  /\ \/ /\ ExactFence(grant, host[h].mine) /\ LiveAt(grant, host[h].t)
        /\ NoFault /\ Goto(h, "write")
     \/ /\ ~(ExactFence(grant, host[h].mine) /\ LiveAt(grant, host[h].t))
        /\ NoFault /\ Goto(h, "drop")
     \/ Fault /\ Goto(h, "drop")
  /\ UNCHANGED <<now, grant, issued, ops>>

(* FencedCommandRunner::run hands the command to the inner runner.  The    *)
(* provider is not told the fencing token.                                 *)
Write(h) ==
  /\ At(h, "write")
  /\ Goto(h, "held")
  /\ UNCHANGED <<now, grant, issued, ops, faults>>

(* The operation is over: the local lock goes first.                       *)
Finish(h) ==
  /\ At(h, "held")
  /\ Goto(h, "drop")
  /\ UNCHANGED <<now, grant, issued, ops, faults>>

(* Mutant: the guard stays usable after its release.                       *)
DropUnmarked(h) ==
  /\ At(h, "drop")
  /\ BrokerRelease(h) /\ NoFault
  /\ Goto(h, "held")
  /\ UNCHANGED <<now, issued, ops>>

(* Drop attempts an exact release; a lost request leaves the grant.        *)
Drop(h) ==
  /\ At(h, "drop")
  /\ \/ BrokerRelease(h) /\ NoFault
     \/ UNCHANGED grant /\ Fault
  /\ host' = [host EXCEPT ![h] = Idle]
  /\ UNCHANGED <<now, issued, ops>>

Crash(h) ==
  /\ ~At(h, "idle")
  /\ host' = [host EXCEPT ![h] = Idle]
  /\ UNCHANGED <<now, grant, issued, ops, faults>>

Tick ==
  /\ now < MaxTime
  /\ now' = now + 1
  /\ UNCHANGED <<grant, issued, ops, host, faults>>

Next ==
  \/ \E h \in Hosts :
       \/ Start(h) \/ Acquire(h) \/ InspectAcquire(h) \/ LocalLock(h)
       \/ BeforeWrite(h) \/ Renew(h) \/ Renewed(h) \/ InspectRenewal(h)
       \/ InspectFence(h) \/ Write(h) \/ Finish(h) \/ Drop(h) \/ Crash(h)
  \/ Tick

Spec == Init /\ [][Next]_vars

-----------------------------------------------------------------------------
Host == [pc : Pc, op : 0 .. MaxFence, t : Time, mine : Grant \cup {NoGrant},
         reply : Grant \cup {NoGrant}]

(* The broker's record, every host's operation and the bounds; a guard     *)
(* always has a grant of its own and a renewal in hand has its response.   *)
TypeOK ==
  /\ now \in Time /\ grant \in Grant \cup {NoGrant}
  /\ issued \in 0 .. MaxFence /\ ops \in 0 .. MaxFence
  /\ host \in [Hosts -> Host]
  /\ \A h \in Hosts : /\ HasGuard(h) => host[h].mine \in Grant
                      /\ At(h, "renewed") => host[h].reply \in Grant
  /\ faults \in 0 .. MaxFaults

(* A guard exists and its own grant has not run out.                       *)
LiveGuard(h) == HasGuard(h) /\ LiveAt(host[h].mine, now)

(* Two hosts never hold live guards at once, whatever requests, responses  *)
(* and hosts are lost and however late a takeover or a renewal arrives.    *)
OneLiveGuard ==
  \A g, h \in Hosts : LiveGuard(g) /\ LiveGuard(h) => g = h

(* A guard that is still live is the one the broker records, so a takeover *)
(* or an ambiguous answer never leaves a live guard behind.                *)
LiveGuardRecorded ==
  \A h \in Hosts : LiveGuard(h) => ExactFence(grant, host[h].mine)

=============================================================================
