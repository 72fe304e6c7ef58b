-------------------------- MODULE RemoteLeaseProofs --------------------------
(***************************************************************************)
(* Proofs about RemoteLease for any number of hosts, any lease times and   *)
(* any bounds.                                                             *)
(*                                                                         *)
(* OneLiveGuard is not inductive.  The argument: the broker's record never *)
(* runs out before the guard that it records (Covers), because only its    *)
(* holder extends it and each extension is computed from a later reading   *)
(* of the clock (Horizon); and no timestamp lies ahead of the clock        *)
(* (Past).  A takeover needs a timestamp at or after the recorded expiry,  *)
(* so every older guard has run out by then.                               *)
(*                                                                         *)
(* The second part is about the tick that such a guard protects (Tick).    *)
(***************************************************************************)
EXTENDS RemoteLease, Tick, NaturalsInduction, WellFoundedInduction, TLAPS

(* Timestamps a host remembers were read from the clock.                   *)
Past(h) == host[h].t <= now

(* Operation IDs are fresh, and a guard holds a grant of its operation.    *)
Named(h) ==
  /\ host[h].op <= ops
  /\ host[h].op = 0 => At(h, "idle")
  /\ HasGuard(h) => host[h].mine.host = h /\ host[h].mine.op = host[h].op
  /\ At(h, "renewed") => ExactFence(host[h].reply, host[h].mine)

(* The broker's record for an operation was computed from a timestamp that *)
(* its host had read.                                                      *)
Horizon(h) == SameHolder(h) => grant.exp <= host[h].t + Ttl

(* A grant that has not run out is covered by the broker's record.         *)
Recorded(g) ==
  LiveAt(g, now) => ExactFence(grant, g) /\ g.exp <= grant.exp
Covers(h) ==
  /\ HasGuard(h) => Recorded(host[h].mine)
  /\ At(h, "renewed") => Recorded(host[h].reply)

Inv ==
  /\ TypeOK
  /\ grant # NoGrant => grant.op <= ops
  /\ \A h \in Hosts : Past(h) /\ Named(h) /\ Horizon(h) /\ Covers(h)

(* The broker's record and the clock after a step serve the grant k as     *)
(* well as they did before.                                                *)
Keeps(k) == Recorded(k) => Recorded(k)'

LEMMA InitInv == Init => Inv
<1> SUFFICES ASSUME Init PROVE Inv
  OBVIOUS
<1>1. Idle \in Host
  BY BoundsAssumption DEF Idle, Host, Pc, GuardPc, Time
<1>2. \A h \in Hosts : host[h] = Idle
  BY DEF Init
<1>a. Idle.pc = "idle" /\ Idle.op = 0 /\ Idle.t = 0
  BY DEF Idle
<1>b. now = 0 /\ grant = NoGrant /\ issued = 0 /\ ops = 0 /\ faults = 0
  BY DEF Init
<1>3. \A h \in Hosts : ~HasGuard(h) /\ ~At(h, "renewed")
  BY <1>2, <1>a DEF HasGuard, At, GuardPc
<1>4. TypeOK
  <2>1. host \in [Hosts -> Host]
    BY <1>1 DEF Init
  <2> QED
    BY <2>1, <1>3, <1>b, BoundsAssumption DEF TypeOK, Time, Init
<1>5. \A h \in Hosts : Past(h) /\ Named(h) /\ Horizon(h) /\ Covers(h)
  <2> SUFFICES ASSUME NEW h \in Hosts
               PROVE  Past(h) /\ Named(h) /\ Horizon(h) /\ Covers(h)
    OBVIOUS
  <2>1. host[h].t <= now /\ host[h].op <= ops /\ At(h, "idle")
    BY <1>2, <1>a, <1>b DEF At
  <2>2. grant = NoGrant
    BY <1>b
  <2> QED
    BY <2>1, <2>2, <1>3 DEF Past, Named, Horizon, SameHolder, Covers
<1> QED
  BY <1>4, <1>5, <1>b DEF Inv

(* A step of host h that gives it the local state r.  The broker's record  *)
(* may change, but only to one of h's, and no grant of another host that   *)
(* was covered ceases to be.                                               *)
LEMMA HostStep ==
  ASSUME Inv, NEW h \in Hosts, NEW r \in Host,
         host' = [host EXCEPT ![h] = r],
         now' = now,
         grant' \in Grant \cup {NoGrant},
         grant' # grant => grant' = NoGrant \/ grant'.host = h,
         grant' # NoGrant => grant'.op <= ops',
         issued' \in 0 .. MaxFence, ops' \in 0 .. MaxFence, ops <= ops',
         faults' \in 0 .. MaxFaults,
         \A k \in Grant : k.host # h => Keeps(k),
         r.t <= now, r.op <= ops', r.op = 0 => r.pc = "idle",
         (grant' # NoGrant /\ grant'.host = h /\ grant'.op = r.op)
           => grant'.exp <= r.t + Ttl,
         r.pc \in GuardPc =>
           /\ r.mine \in Grant /\ r.mine.host = h /\ r.mine.op = r.op
           /\ Recorded(r.mine)',
         r.pc = "renewed" =>
           /\ r.reply \in Grant /\ ExactFence(r.reply, r.mine)
           /\ Recorded(r.reply)'
  PROVE  Inv'
<1> USE DEF Inv
<1>0. host \in [Hosts -> Host]
  BY DEF TypeOK
<1>h. host'[h] = r
  BY <1>0
<1>o. \A g \in Hosts : g # h => host'[g] = host[g]
  BY <1>0
<1>1. TypeOK'
  <2>1. host' \in [Hosts -> Host]
    BY <1>0
  <2>2. \A g \in Hosts : /\ HasGuard(g)' => host'[g].mine \in Grant
                         /\ At(g, "renewed")' => host'[g].reply \in Grant
    BY <1>h, <1>o DEF TypeOK, HasGuard, At
  <2> QED
    BY <2>1, <2>2 DEF TypeOK, HasGuard, At
<1>2. (grant # NoGrant => grant.op <= ops)'
  OBVIOUS
<1>3. ASSUME NEW g \in Hosts, g # h
      PROVE  (Past(g) /\ Named(g) /\ Horizon(g) /\ Covers(g))'
  <2>1. host'[g] = host[g]
    BY <1>o, <1>3
  <2>2. Past(g)'
    BY <2>1 DEF Past
  <2>3. Named(g)'
    <3>1. host[g].op \in Nat /\ ops \in Nat /\ ops' \in Nat
      BY <1>0, BoundsAssumption DEF TypeOK, Host
    <3> QED
      BY <2>1, <3>1 DEF Named, HasGuard, At, ExactFence
  <2>4. Horizon(g)'
    <3>1. SameHolder(g)' => grant' = grant
      BY <1>3 DEF SameHolder
    <3> QED
      BY <2>1, <3>1 DEF Horizon, SameHolder
  <2>5. Covers(g)'
    <3>1. HasGuard(g) => host[g].mine \in Grant /\ host[g].mine.host # h
      BY <1>3 DEF TypeOK, Named
    <3>2. At(g, "renewed") => HasGuard(g) /\ host[g].reply \in Grant
                              /\ host[g].reply.host # h
      BY <1>3, <3>1 DEF TypeOK, Named, At, HasGuard, GuardPc, ExactFence
    <3>3. HasGuard(g) => Keeps(host[g].mine) /\ Recorded(host[g].mine)
      BY <3>1 DEF Covers
    <3>4. At(g, "renewed") => Keeps(host[g].reply) /\ Recorded(host[g].reply)
      BY <3>2 DEF Covers
    <3> QED
      BY <2>1, <3>3, <3>4
         DEF Covers, Keeps, HasGuard, At, Recorded, LiveAt, ExactFence
  <2> QED
    BY <2>2, <2>3, <2>4, <2>5
<1>4. (Past(h) /\ Named(h) /\ Horizon(h) /\ Covers(h))'
  <2>1. Past(h)'
    BY <1>h DEF Past
  <2>2. Named(h)'
    BY <1>h DEF Named, HasGuard, At, ExactFence
  <2>3. Horizon(h)'
    BY <1>h DEF Horizon, SameHolder
  <2>4. Covers(h)'
    BY <1>h DEF Covers, HasGuard, At, Recorded, LiveAt, ExactFence
  <2> QED
    BY <2>1, <2>2, <2>3, <2>4
<1> QED
  BY <1>1, <1>2, <1>3, <1>4

(* A step of h that leaves the broker's record alone and keeps the guard's *)
(* operation: only the host's local state changes, to r.                   *)
LEMMA LocalStep ==
  ASSUME Inv, NEW h \in Hosts, NEW r \in Host,
         host' = [host EXCEPT ![h] = r],
         UNCHANGED <<now, grant, issued, ops>>,
         faults' \in 0 .. MaxFaults,
         host[h].t <= r.t, r.t <= now, r.op = host[h].op, ~At(h, "idle"),
         r.pc \in GuardPc =>
           /\ r.mine \in Grant /\ r.mine.host = h /\ r.mine.op = r.op
           /\ Recorded(r.mine),
         r.pc = "renewed" =>
           /\ r.reply \in Grant /\ ExactFence(r.reply, r.mine)
           /\ Recorded(r.reply)
  PROVE  Inv'
<1>1. \A k : Recorded(k)' <=> Recorded(k)
  BY DEF Recorded, LiveAt, ExactFence
<1>2. (grant # NoGrant /\ grant.host = h /\ grant.op = r.op)
        => grant.exp <= r.t + Ttl
  <2>1. r.t \in Nat /\ host[h].t \in Nat
    BY BoundsAssumption DEF Inv, TypeOK, Host, Time
  <2>2. grant # NoGrant => grant.exp \in Nat
    BY DEF Inv, TypeOK, Grant
  <2>3. Horizon(h)
    BY DEF Inv
  <2> QED
    BY <2>1, <2>2, <2>3, TimesAssumption DEF Horizon, SameHolder
<1>3. r.op <= ops /\ r.op # 0
  BY DEF Inv, Named
<1>4. issued \in 0 .. MaxFence /\ ops \in 0 .. MaxFence /\ ops <= ops
      /\ grant \in Grant \cup {NoGrant}
      /\ (grant # NoGrant => grant.op <= ops)
  BY BoundsAssumption DEF Inv, TypeOK
<1> QED
  BY <1>1, <1>2, <1>3, <1>4, HostStep DEF Keeps

(* A step after which h has no operation; the broker's record is the same  *)
(* or, if it was h's, gone.                                                *)
LEMMA EndStep ==
  ASSUME Inv, NEW h \in Hosts,
         host' = [host EXCEPT ![h] = Idle],
         UNCHANGED <<now, issued, ops>>,
         grant' = grant \/ (grant' = NoGrant /\ grant # NoGrant /\ grant.host = h),
         faults' \in 0 .. MaxFaults
  PROVE  Inv'
<1>1. Idle \in Host /\ Idle.t = 0 /\ Idle.op = 0 /\ Idle.pc = "idle"
      /\ Idle.pc \notin GuardPc /\ Idle.pc # "renewed"
  BY BoundsAssumption DEF Idle, Host, Pc, GuardPc, Time
<1>2. \A k \in Grant : k.host # h => Keeps(k)
  BY DEF Keeps, Recorded, LiveAt, ExactFence
<1>3. grant' \in Grant \cup {NoGrant}
      /\ (grant' # grant => grant' = NoGrant \/ grant'.host = h)
  BY DEF Inv, TypeOK
<1>4. grant' # NoGrant => grant'.op <= ops' /\ grant'.op # 0
  BY BoundsAssumption DEF Inv, TypeOK, Grant
<1>5. issued' \in 0 .. MaxFence /\ ops' \in 0 .. MaxFence /\ ops <= ops'
      /\ 0 <= now /\ 0 <= ops'
  BY BoundsAssumption DEF Inv, TypeOK, Time
<1> QED
  BY <1>1, <1>2, <1>3, <1>4, <1>5, HostStep

-----------------------------------------------------------------------------
(* What a host's state tells the step lemmas.                              *)
LEMMA HostFacts ==
  ASSUME Inv, NEW h \in Hosts
  PROVE  /\ host \in [Hosts -> Host] /\ host[h] \in Host
         /\ now \in Nat /\ host[h].t \in Nat /\ host[h].t <= now
         /\ HasGuard(h) => /\ host[h].mine \in Grant /\ host[h].mine.host = h
                           /\ host[h].mine.op = host[h].op
                           /\ Recorded(host[h].mine)
         /\ At(h, "renewed") => /\ host[h].reply \in Grant
                                /\ ExactFence(host[h].reply, host[h].mine)
                                /\ Recorded(host[h].reply)
         /\ faults \in 0 .. MaxFaults
BY BoundsAssumption
   DEF Inv, TypeOK, Host, Time, Past, Named, Covers

-----------------------------------------------------------------------------
(* A new operation has an ID that no grant bears.                          *)
LEMMA StartStep ==
  ASSUME Inv, NEW h \in Hosts, Start(h)
  PROVE  Inv'
<1> DEFINE r == [pc |-> "acquire", op |-> ops + 1, t |-> now,
                 mine |-> NoGrant, reply |-> NoGrant]
<1>1. now \in Time /\ ops \in 0 .. MaxFence /\ issued \in 0 .. MaxFence
      /\ grant \in Grant \cup {NoGrant} /\ (grant # NoGrant => grant.op <= ops)
      /\ faults \in 0 .. MaxFaults
  BY DEF Inv, TypeOK
<1>2. ops < MaxFence /\ ops' = ops + 1
      /\ UNCHANGED <<now, grant, issued, faults>>
      /\ host' = [host EXCEPT ![h] = r]
  BY DEF Start
<1>3. r \in Host /\ r.pc = "acquire" /\ r.op = ops + 1 /\ r.t = now
  <2>2. ops + 1 \in 0 .. MaxFence
    BY <1>1, <1>2, BoundsAssumption
  <2>3. "acquire" \in Pc
    BY DEF Pc
  <2> QED
    BY <2>2, <2>3, <1>1 DEF Host
<1> HIDE DEF r
<1>4. \A k \in Grant : k.host # h => Keeps(k)
  BY <1>2 DEF Keeps, Recorded, LiveAt, ExactFence
<1>5. grant # NoGrant => grant.op # ops + 1 /\ grant.op <= ops'
  BY <1>1, <1>2, BoundsAssumption DEF Grant
<1>6. ops' \in 0 .. MaxFence /\ ops <= ops' /\ r.op <= ops' /\ r.t <= now
  BY <1>1, <1>2, <1>3, BoundsAssumption DEF Time
<1>7. r.pc \notin GuardPc /\ r.pc # "renewed" /\ r.op # 0
  BY <1>1, <1>3, BoundsAssumption DEF GuardPc
<1> QED
  BY <1>1, <1>2, <1>3, <1>4, <1>5, <1>6, <1>7, HostStep

(* A takeover: every guard the old record covered has run out.             *)
LEMMA TakeoverStep ==
  ASSUME Inv, NEW h \in Hosts, BrokerAcquire(h), At(h, "acquire"),
         NEW r \in Host, host' = [host EXCEPT ![h] = r],
         r.op = host[h].op, r.t = host[h].t,
         \/ r.pc = "local" /\ r.mine = grant'
         \/ r.pc = "ambiguous",
         faults' \in 0 .. MaxFaults, UNCHANGED <<now, ops>>
  PROVE  Inv'
<1>1. /\ host[h] \in Host /\ host[h].t \in Nat /\ host[h].t <= now
      /\ now \in Nat /\ ops \in 0 .. MaxFence /\ issued \in 0 .. MaxFence
      /\ grant \in Grant \cup {NoGrant}
      /\ host[h].op <= ops /\ host[h].op # 0
  BY HostFacts DEF Inv, TypeOK, Named, At
<1>2. host[h].op \in 1 .. MaxFence
  BY <1>1, BoundsAssumption DEF Host
<1>3. /\ grant' \in Grant /\ grant'.host = h /\ grant'.op = host[h].op
      /\ grant'.exp = host[h].t + Ttl /\ issued' \in 0 .. MaxFence
  BY <1>1, <1>2, TimesAssumption, BoundsAssumption DEF BrokerAcquire, Grant
<1>4. \A k \in Grant : Recorded(k) => ~LiveAt(k, now)
  BY <1>1 DEF BrokerAcquire, Contended, Recorded, LiveAt, ExactFence, Grant
<1>5. \A k \in Grant : k.host # h => Keeps(k)
  BY <1>4 DEF Keeps, Recorded, LiveAt
<1>6. ASSUME r.mine = grant'
      PROVE  Recorded(r.mine)'
  <2>1. grant'.exp \in Nat /\ grant' # NoGrant
    BY <1>3, NoGrantAssumption DEF Grant
  <2> QED
    BY <2>1, <1>6 DEF Recorded, LiveAt, ExactFence
<1>7. r.pc # "renewed" /\ (r.pc \in GuardPc => r.pc = "local")
  BY DEF GuardPc
<1>8. ops' \in 0 .. MaxFence /\ ops <= ops' /\ r.t <= now /\ r.op <= ops'
      /\ r.op # 0 /\ grant'.op <= ops' /\ grant'.exp <= r.t + Ttl
      /\ now' = now
  <2>1. grant'.exp \in Nat
    BY <1>3 DEF Grant
  <2> QED
    BY <1>1, <1>3, <2>1, BoundsAssumption, TimesAssumption
<1>9. r.pc \in GuardPc =>
        /\ r.mine \in Grant /\ r.mine.host = h /\ r.mine.op = r.op
        /\ Recorded(r.mine)'
  BY <1>3, <1>6, <1>7
<1> QED
  BY <1>3, <1>5, <1>7, <1>8, <1>9, HostStep

-----------------------------------------------------------------------------
(* Moving on within a guarded operation, the grant unchanged.              *)
LEMMA GotoStep ==
  ASSUME Inv, NEW h \in Hosts, NEW l \in GuardPc \ {"renewed"}, HasGuard(h),
         Goto(h, l), UNCHANGED <<now, grant, issued, ops>>,
         faults' \in 0 .. MaxFaults
  PROVE  Inv'
<1> DEFINE r == [host[h] EXCEPT !.pc = l]
<1>1. host[h] \in Host /\ host[h].t <= now /\ host[h].t <= host[h].t
  BY HostFacts
<1>2. r \in Host /\ r.pc = l /\ r.t = host[h].t /\ r.op = host[h].op
      /\ r.mine = host[h].mine
  BY <1>1 DEF Host, Pc
<1>3. host' = [host EXCEPT ![h] = r]
  BY DEF Goto
<1>4. /\ host[h].mine \in Grant /\ host[h].mine.host = h
      /\ host[h].mine.op = host[h].op /\ Recorded(host[h].mine)
      /\ ~At(h, "idle")
  BY HostFacts DEF HasGuard, At, GuardPc
<1> HIDE DEF r
<1> QED
  BY <1>1, <1>2, <1>3, <1>4, LocalStep

(* A fault leaves the fault counter within its bound.                      *)
LEMMA FaultBound ==
  ASSUME Inv, Fault \/ NoFault
  PROVE  faults' \in 0 .. MaxFaults
BY BoundsAssumption DEF Inv, TypeOK, Fault, NoFault

LEMMA AcquireStep ==
  ASSUME Inv, NEW h \in Hosts, Acquire(h)
  PROVE  Inv'
<1>0. host[h] \in Host /\ host[h].t <= now /\ host[h].t <= host[h].t
      /\ host \in [Hosts -> Host]
  BY HostFacts
<1>u. UNCHANGED <<now, ops>> /\ At(h, "acquire")
  BY <1>0 DEF Acquire
<1>f. faults' \in 0 .. MaxFaults
  BY FaultBound DEF Acquire
<1> DEFINE a == [host[h] EXCEPT !.pc = "ambiguous"]
<1>a. a \in Host /\ a.pc = "ambiguous" /\ a.t = host[h].t /\ a.op = host[h].op
      /\ a.pc \notin GuardPc /\ a.pc # "renewed"
  BY <1>0 DEF Host, Pc, GuardPc
<1>b. Goto(h, "ambiguous") => host' = [host EXCEPT ![h] = a]
  BY DEF Goto
<1>1. CASE BrokerAcquire(h) /\ host' = [host EXCEPT ![h].pc = "local",
                                                   ![h].mine = grant']
  <2> DEFINE r == [host[h] EXCEPT !.pc = "local", !.mine = grant']
  <2>1. grant' \in Grant
    <3>1. host[h].op \in 1 .. MaxFence
      <4>1. host[h].op # 0
        BY <1>u DEF Inv, Named, At
      <4> QED
        BY <4>1, <1>0, BoundsAssumption DEF Host
    <3>2. issued \in 0 .. MaxFence /\ host[h].t \in Nat
      BY HostFacts DEF Inv, TypeOK
    <3> QED
      BY <1>1, <3>1, <3>2, TimesAssumption, BoundsAssumption
         DEF BrokerAcquire, Grant
  <2>2. r \in Host /\ r.pc = "local" /\ r.t = host[h].t /\ r.op = host[h].op
        /\ r.mine = grant'
    BY <1>0, <2>1 DEF Host, Pc, GuardPc
  <2>3. host' = [host EXCEPT ![h] = r]
    BY <1>1, <1>0
  <2> HIDE DEF r
  <2> QED
    BY <2>2, <2>3, <1>1, <1>u, <1>f, TakeoverStep
<1>2. CASE BrokerAcquire(h) /\ Goto(h, "ambiguous")
  <2> HIDE DEF a
  <2> QED
    BY <1>2, <1>a, <1>b, <1>u, <1>f, TakeoverStep
<1>3. CASE host' = [host EXCEPT ![h] = Idle] /\ UNCHANGED <<grant, issued>>
  BY <1>3, <1>u, <1>f, EndStep
<1>4. CASE Goto(h, "ambiguous") /\ UNCHANGED <<grant, issued>>
  <2>1. ~At(h, "idle")
    BY <1>u DEF At
  <2> HIDE DEF a
  <2> QED
    BY <2>1, <1>0, <1>4, <1>a, <1>b, <1>u, <1>f, LocalStep
<1> QED
  BY <1>1, <1>2, <1>3, <1>4 DEF Acquire

(* The broker's own record is covered.                                     *)
LEMMA GrantRecorded ==
  ASSUME Inv, grant # NoGrant
  PROVE  grant \in Grant /\ Recorded(grant)
<1>1. grant \in Grant /\ grant.exp \in Nat
  BY DEF Inv, TypeOK, Grant
<1> QED
  BY <1>1 DEF Recorded, ExactFence

LEMMA InspectAcquireStep ==
  ASSUME Inv, NEW h \in Hosts, InspectAcquire(h)
  PROVE  Inv'
<1>0. host[h] \in Host /\ host[h].t <= now
      /\ host[h].t <= host[h].t
  BY HostFacts
<1>u. UNCHANGED <<now, grant, issued, ops>> /\ At(h, "ambiguous")
  BY <1>0 DEF InspectAcquire
<1>f. faults' \in 0 .. MaxFaults
  BY FaultBound DEF InspectAcquire
<1>1. CASE SameHolder(h) /\ host' = [host EXCEPT ![h].pc = "local",
                                                ![h].mine = grant]
  <2> DEFINE r == [host[h] EXCEPT !.pc = "local", !.mine = grant]
  <2>1. /\ grant \in Grant /\ grant.host = h /\ grant.op = host[h].op
        /\ Recorded(grant) /\ ~At(h, "idle")
    BY <1>1, <1>u, GrantRecorded DEF SameHolder, At
  <2>2. r \in Host /\ r.pc = "local" /\ r.t = host[h].t /\ r.op = host[h].op
        /\ r.mine = grant /\ r.pc # "renewed"
    BY <1>0, <2>1 DEF Host, Pc, GuardPc
  <2>3. host' = [host EXCEPT ![h] = r]
    BY <1>1
  <2> HIDE DEF r
  <2> QED
    BY <2>1, <2>2, <2>3, <1>0, <1>u, <1>f, LocalStep
<1>2. CASE host' = [host EXCEPT ![h] = Idle]
  BY <1>2, <1>u, <1>f, EndStep
<1> QED
  BY <1>1, <1>2 DEF InspectAcquire

-----------------------------------------------------------------------------
LEMMA BeforeWriteStep ==
  ASSUME Inv, NEW h \in Hosts, BeforeWrite(h)
  PROVE  Inv'
<1> DEFINE l == IF ~LiveAt(host[h].mine, now) THEN "drop"
                ELSE IF now >= host[h].mine.due THEN "renew" ELSE "inspect"
<1> DEFINE r == [host[h] EXCEPT !.t = now, !.pc = l]
<1>0. host[h] \in Host /\ faults \in 0 .. MaxFaults
      /\ host[h].t <= now /\ now \in Time /\ now <= now
  BY HostFacts DEF Inv, TypeOK
<1>u. UNCHANGED <<now, grant, issued, ops, faults>> /\ At(h, "held")
  BY DEF BeforeWrite
<1>1. HasGuard(h) /\ ~At(h, "idle")
  BY <1>u DEF HasGuard, At, GuardPc
<1>2. l \in GuardPc /\ l # "renewed"
  BY DEF GuardPc
<1>3. host' = [host EXCEPT ![h] = r]
  BY DEF BeforeWrite
<1> HIDE DEF l
<1>4. r \in Host /\ r.pc = l /\ r.t = now /\ r.op = host[h].op
      /\ r.mine = host[h].mine
  BY <1>0, <1>2 DEF Host, Pc
<1>5. /\ host[h].mine \in Grant /\ host[h].mine.host = h
      /\ host[h].mine.op = host[h].op /\ Recorded(host[h].mine)
  BY <1>1, HostFacts
<1> HIDE DEF r
<1> QED
  BY <1>0, <1>u, <1>1, <1>2, <1>3, <1>4, <1>5, LocalStep

(* The renewal's grant is taken only when it is covered and is the guard's *)
(* own; otherwise the guard goes.                                          *)
LEMMA AcceptStep ==
  ASSUME Inv, NEW h \in Hosts, HasGuard(h),
         NEW g \in Grant \cup {NoGrant}, g # NoGrant => Recorded(g),
         AcceptRenewal(h, g), UNCHANGED <<now, grant, issued, ops>>,
         faults' \in 0 .. MaxFaults
  PROVE  Inv'
<1>0. host[h] \in Host /\ host[h].t <= now
      /\ host[h].t <= host[h].t /\ ~At(h, "idle")
  BY HostFacts DEF HasGuard, At, GuardPc
<1>m. /\ host[h].mine \in Grant /\ host[h].mine.host = h
      /\ host[h].mine.op = host[h].op /\ Recorded(host[h].mine)
  BY HostFacts
<1>1. CASE ValidRenewed(h, g)
  <2> DEFINE r == [host[h] EXCEPT !.pc = "write", !.mine = g, !.reply = NoGrant]
  <2>1. g \in Grant /\ g.host = h /\ g.op = host[h].op /\ Recorded(g)
    BY <1>1, <1>m DEF ValidRenewed, ExactFence
  <2>2. r \in Host /\ r.pc = "write" /\ r.t = host[h].t /\ r.op = host[h].op
        /\ r.mine = g
    BY <1>0, <2>1 DEF Host, Pc, GuardPc
  <2>3. host' = [host EXCEPT ![h] = r]
    BY <1>1 DEF AcceptRenewal
  <2>4. r.pc # "renewed"
    BY <2>2
  <2> HIDE DEF r
  <2> QED
    BY <2>1, <2>2, <2>3, <2>4, <1>0, LocalStep
<1>2. CASE ~ValidRenewed(h, g)
  <2> DEFINE r == [host[h] EXCEPT !.pc = "drop", !.reply = NoGrant]
  <2>2. r \in Host /\ r.pc = "drop" /\ r.t = host[h].t /\ r.op = host[h].op
        /\ r.mine = host[h].mine
    BY <1>0 DEF Host, Pc, GuardPc
  <2>3. host' = [host EXCEPT ![h] = r]
    BY <1>2 DEF AcceptRenewal
  <2>4. r.pc # "renewed"
    BY <2>2
  <2> HIDE DEF r
  <2> QED
    BY <2>2, <2>3, <2>4, <1>0, <1>m, LocalStep
<1> QED
  BY <1>1, <1>2

(* An extension changes the two times only.                                *)
LEMMA ExtendedGrant ==
  ASSUME NEW h \in Hosts, grant \in Grant, host[h].t \in Nat
  PROVE  /\ Extended(h) \in Grant /\ Extended(h).host = grant.host
         /\ Extended(h).op = grant.op /\ Extended(h).fence = grant.fence
         /\ Extended(h).exp = host[h].t + Ttl
<1>1. host[h].t + Heartbeat \in Nat /\ host[h].t + Ttl \in Nat
  BY TimesAssumption
<1> QED
  BY <1>1 DEF Extended, Grant

(* The exact live fence is extended from a timestamp its holder has read:  *)
(* no other host's grant was covered by it, and it covers its holder's.    *)
LEMMA ExtendStep ==
  ASSUME Inv, NEW h \in Hosts, At(h, "renew"), BrokerCanRenew(h),
         grant' = Extended(h),
         NEW r \in Host, host' = [host EXCEPT ![h] = r],
         r.op = host[h].op, r.t = host[h].t, r.mine = host[h].mine,
         \/ r.pc = "renewed" /\ r.reply = grant'
         \/ r.pc = "reinspect",
         faults' \in 0 .. MaxFaults, UNCHANGED <<now, issued, ops>>
  PROVE  Inv'
<1>1. /\ host[h] \in Host /\ host[h].t \in Nat /\ host[h].t <= now
      /\ now \in Nat /\ ops \in 0 .. MaxFence /\ issued \in 0 .. MaxFence
      /\ grant \in Grant \cup {NoGrant}
      /\ host[h].op <= ops /\ host[h].op # 0
      /\ (grant # NoGrant => grant.op <= ops) /\ Horizon(h)
  BY HostFacts DEF Inv, TypeOK, Named, At
<1>2. /\ host[h].mine \in Grant /\ host[h].mine.host = h
      /\ host[h].mine.op = host[h].op /\ Recorded(host[h].mine)
  BY HostFacts DEF HasGuard, At, GuardPc
<1>3. /\ grant \in Grant /\ grant # NoGrant
      /\ grant.host = h /\ grant.op = host[h].op
      /\ grant.fence = host[h].mine.fence
  BY <1>1, <1>2 DEF BrokerCanRenew, ExactFence
<1>4. /\ grant' \in Grant /\ grant'.host = h /\ grant'.op = host[h].op
      /\ grant'.fence = grant.fence /\ grant'.exp = host[h].t + Ttl
  BY <1>1, <1>3, ExtendedGrant
<1>5. grant'.exp \in Nat /\ grant.exp \in Nat /\ grant.exp <= grant'.exp
      /\ grant' # NoGrant
  BY <1>1, <1>3, <1>4, NoGrantAssumption DEF Horizon, SameHolder, Grant
<1>6. \A k \in Grant : Keeps(k)
  <2> SUFFICES ASSUME NEW k \in Grant, Recorded(k), LiveAt(k, now)
               PROVE  ExactFence(grant', k) /\ k.exp <= grant'.exp
    BY DEF Keeps, Recorded, LiveAt, ExactFence
  <2>1. ExactFence(grant, k) /\ k.exp <= grant.exp /\ k.exp \in Nat
    BY DEF Recorded, Grant
  <2> QED
    BY <2>1, <1>3, <1>4, <1>5 DEF ExactFence
<1>7. Recorded(r.mine)'
  <2>1. Recorded(host[h].mine) /\ host[h].mine \in Grant
    BY <1>2
  <2>2. Keeps(r.mine) /\ Recorded(r.mine)
    BY <2>1, <1>6
  <2> QED
    BY <2>2 DEF Keeps
<1>8. r.pc = "renewed" =>
        /\ r.reply \in Grant /\ ExactFence(r.reply, r.mine)
        /\ Recorded(r.reply)'
  <2> SUFFICES ASSUME r.reply = grant'
               PROVE  /\ r.reply \in Grant /\ ExactFence(r.reply, r.mine)
                      /\ Recorded(r.reply)'
    OBVIOUS
  <2> QED
    BY <1>2, <1>3, <1>4, <1>5 DEF Recorded, LiveAt, ExactFence
<1>9. ops' \in 0 .. MaxFence /\ ops <= ops' /\ issued' \in 0 .. MaxFence
      /\ r.t <= now /\ r.op <= ops' /\ r.op # 0 /\ grant'.op <= ops'
      /\ grant'.exp <= r.t + Ttl /\ now' = now
  BY <1>1, <1>3, <1>4, <1>5, BoundsAssumption
<1> QED
  BY <1>2, <1>4, <1>6, <1>7, <1>8, <1>9, HostStep

LEMMA RenewStep ==
  ASSUME Inv, NEW h \in Hosts, Renew(h)
  PROVE  Inv'
<1>0. host[h] \in Host /\ host \in [Hosts -> Host]
  BY HostFacts
<1>u. UNCHANGED <<now, issued, ops>> /\ At(h, "renew") /\ HasGuard(h)
  BY DEF Renew, HasGuard, At, GuardPc
<1>f. faults' \in 0 .. MaxFaults
  BY FaultBound DEF Renew
<1>1. CASE BrokerCanRenew(h) /\ grant' = Extended(h)
           /\ host' = [host EXCEPT ![h].pc = "renewed", ![h].reply = grant']
  <2> DEFINE r == [host[h] EXCEPT !.pc = "renewed", !.reply = grant']
  <2>1. grant' \in Grant
    <3>1. grant \in Grant /\ host[h].t \in Nat
      BY <1>1, HostFacts DEF Inv, TypeOK, BrokerCanRenew, ExactFence
    <3> QED
      BY <1>1, <3>1, ExtendedGrant
  <2>2. r \in Host /\ r.pc = "renewed" /\ r.t = host[h].t /\ r.op = host[h].op
        /\ r.mine = host[h].mine /\ r.reply = grant'
    BY <1>0, <2>1 DEF Host, Pc, GuardPc
  <2>3. host' = [host EXCEPT ![h] = r]
    BY <1>1
  <2> HIDE DEF r
  <2> QED
    BY <2>2, <2>3, <1>1, <1>u, <1>f, ExtendStep
<1>2. CASE BrokerCanRenew(h) /\ grant' = Extended(h) /\ Goto(h, "reinspect")
  <2> DEFINE r == [host[h] EXCEPT !.pc = "reinspect"]
  <2>1. r \in Host /\ r.pc = "reinspect" /\ r.t = host[h].t
        /\ r.op = host[h].op /\ r.mine = host[h].mine
    BY <1>0 DEF Host, Pc, GuardPc
  <2>2. host' = [host EXCEPT ![h] = r]
    BY <1>2 DEF Goto
  <2> HIDE DEF r
  <2> QED
    BY <2>1, <2>2, <1>2, <1>u, <1>f, ExtendStep
<1>3. CASE Goto(h, "reinspect") /\ UNCHANGED grant
  <2>1. "reinspect" \in GuardPc \ {"renewed"}
    BY DEF GuardPc
  <2> QED
    BY <2>1, <1>3, <1>0, <1>u, <1>f, GotoStep
<1> QED
  BY <1>1, <1>2, <1>3 DEF Renew

LEMMA RenewedStep ==
  ASSUME Inv, NEW h \in Hosts, Renewed(h)
  PROVE  Inv'
<1>1. /\ host[h].reply \in Grant /\ Recorded(host[h].reply)
      /\ faults \in 0 .. MaxFaults /\ HasGuard(h)
  BY HostFacts DEF Renewed, HasGuard, At, GuardPc
<1>2. AcceptRenewal(h, host[h].reply)
      /\ UNCHANGED <<now, grant, issued, ops, faults>>
  BY DEF Renewed
<1> QED
  BY <1>1, <1>2, AcceptStep

LEMMA InspectRenewalStep ==
  ASSUME Inv, NEW h \in Hosts, InspectRenewal(h)
  PROVE  Inv'
<1>1. UNCHANGED <<now, grant, issued, ops>> /\ HasGuard(h)
      /\ grant \in Grant \cup {NoGrant}
  BY HostFacts DEF InspectRenewal, HasGuard, At, GuardPc, Inv, TypeOK
<1>2. faults' \in 0 .. MaxFaults
  BY FaultBound DEF InspectRenewal
<1>3. CASE AcceptRenewal(h, grant)
  BY <1>1, <1>2, <1>3, GrantRecorded, AcceptStep
<1>4. CASE Goto(h, "drop")
  <2>1. "drop" \in GuardPc \ {"renewed"}
    BY DEF GuardPc
  <2> QED
    BY <2>1, <1>1, <1>2, <1>4, GotoStep
<1> QED
  BY <1>3, <1>4 DEF InspectRenewal

(* The steps that only move a guarded operation on.                        *)
LEMMA MovingSteps ==
  ASSUME Inv, NEW h \in Hosts,
         LocalLock(h) \/ InspectFence(h) \/ Write(h) \/ Finish(h)
  PROVE  Inv'
<1>1. UNCHANGED <<now, grant, issued, ops>>
  BY DEF LocalLock, InspectFence, Write, Finish
<1>2. HasGuard(h)
  BY DEF LocalLock, InspectFence, Write, Finish, HasGuard, At, GuardPc
<1>3. faults' \in 0 .. MaxFaults
  <2>1. Fault \/ NoFault
    BY DEF LocalLock, InspectFence, Write, Finish, NoFault
  <2> QED
    BY <2>1, FaultBound
<1>5. \E l \in {"held", "drop", "write"} : Goto(h, l)
  BY DEF LocalLock, InspectFence, Write, Finish
<1>6. {"held", "drop", "write"} \subseteq GuardPc \ {"renewed"}
  BY DEF GuardPc
<1> QED
  BY <1>1, <1>2, <1>3, <1>5, <1>6, GotoStep

(* Release deletes the record only if it is the guard's own.               *)
LEMMA EndingSteps ==
  ASSUME Inv, NEW h \in Hosts, Drop(h) \/ Crash(h)
  PROVE  Inv'
<1>1. UNCHANGED <<now, issued, ops>> /\ host' = [host EXCEPT ![h] = Idle]
  BY DEF Drop, Crash
<1>3. faults' \in 0 .. MaxFaults
  <2>1. Fault \/ NoFault
    BY DEF Drop, Crash, NoFault
  <2> QED
    BY <2>1, FaultBound
<1>4. grant' = grant \/ (grant' = NoGrant /\ grant # NoGrant /\ grant.host = h)
  <2>1. CASE Drop(h)
    <3>1. host[h].mine.host = h
      BY <2>1, HostFacts DEF Drop, HasGuard, At, GuardPc
    <3> QED
      BY <2>1, <3>1 DEF Drop, BrokerRelease, ExactFence
  <2>2. CASE Crash(h)
    BY <2>2 DEF Crash
  <2> QED
    BY <2>1, <2>2
<1> QED
  BY <1>1, <1>3, <1>4, EndStep

(* As the clock advances fewer grants are live.                            *)
LEMMA TickStep ==
  ASSUME Inv, Tick
  PROVE  Inv'
<1>1. now \in Nat /\ now' = now + 1 /\ now' \in Time
      /\ UNCHANGED <<grant, issued, ops, host, faults>>
  BY BoundsAssumption DEF Tick, Inv, TypeOK, Time
<1>2. TypeOK'
  BY <1>1 DEF Inv, TypeOK, HasGuard, At
<1>3. ASSUME NEW h \in Hosts
      PROVE  (Past(h) /\ Named(h) /\ Horizon(h) /\ Covers(h))'
  <2>0. Past(h) /\ Named(h) /\ Horizon(h) /\ Covers(h)
    BY DEF Inv
  <2>1. Past(h)'
    BY <2>0, <1>1, HostFacts DEF Past
  <2>2. Named(h)' /\ Horizon(h)'
    BY <2>0, <1>1
       DEF Named, Horizon, SameHolder, HasGuard, At, ExactFence
  <2>3. \A k \in Grant : Recorded(k) => Recorded(k)'
    BY <1>1 DEF Recorded, LiveAt, ExactFence, Grant
  <2>4. /\ HasGuard(h) => host[h].mine \in Grant
        /\ At(h, "renewed") => host[h].reply \in Grant
    BY DEF Inv, TypeOK
  <2>5. Covers(h)'
    <3>1. HasGuard(h) => Recorded(host[h].mine)'
      BY <2>0, <2>3, <2>4, <1>1 DEF Covers, Recorded, LiveAt, ExactFence, Grant
    <3>2. At(h, "renewed") => Recorded(host[h].reply)'
      BY <2>0, <2>3, <2>4, <1>1 DEF Covers, Recorded, LiveAt, ExactFence, Grant
    <3> QED
      BY <3>1, <3>2, <1>1 DEF Covers, HasGuard, At
  <2> QED
    BY <2>1, <2>2, <2>5
<1> QED
  BY <1>1, <1>2, <1>3 DEF Inv

LEMMA StutterStep ==
  ASSUME Inv, UNCHANGED vars
  PROVE  Inv'
BY DEF vars, Inv, TypeOK, Past, Named, Horizon, SameHolder, Covers, Recorded,
       HasGuard, At, ExactFence, LiveAt

LEMMA StepInv == Inv /\ [Next]_vars => Inv'
<1> SUFFICES ASSUME Inv, [Next]_vars PROVE Inv'
  OBVIOUS
<1>1. CASE Next
  <2>1. ASSUME NEW h \in Hosts,
               \/ Start(h) \/ Acquire(h) \/ InspectAcquire(h) \/ LocalLock(h)
               \/ BeforeWrite(h) \/ Renew(h) \/ Renewed(h)
               \/ InspectRenewal(h) \/ InspectFence(h) \/ Write(h)
               \/ Finish(h) \/ Drop(h) \/ Crash(h)
        PROVE  Inv'
    BY <2>1, StartStep, AcquireStep, InspectAcquireStep, MovingSteps,
       BeforeWriteStep, RenewStep, RenewedStep, InspectRenewalStep, EndingSteps
  <2> QED
    BY <1>1, <2>1, TickStep DEF Next
<1> QED
  BY <1>1, StutterStep

-----------------------------------------------------------------------------
(* The inductive invariant holds in every reachable state.                 *)
THEOREM InvariantHolds == Spec => []Inv
BY InitInv, StepInv, PTL DEF Spec

(* Every variable keeps its type and every guard has a grant, so no step   *)
(* of the guard dereferences a missing one.                                *)
THEOREM TypeCorrect == Spec => []TypeOK
<1>1. Inv => TypeOK
  BY DEF Inv
<1> QED
  BY <1>1, InvariantHolds, PTL

(* A live guard is the one the broker records: neither a takeover nor an   *)
(* ambiguous acquire or renewal leaves another live guard behind.          *)
THEOREM GuardRecorded == Spec => []LiveGuardRecorded
<1>1. Inv => LiveGuardRecorded
  BY DEF Inv, LiveGuardRecorded, LiveGuard, Covers, Recorded
<1> QED
  BY <1>1, InvariantHolds, PTL

(* RemoteLeaseGuard excludes: two hosts never hold live guards at once,    *)
(* for any hosts, lease times, losses, delays and crashes.                 *)
THEOREM OneWriter == Spec => []OneLiveGuard
<1>1. Inv => OneLiveGuard
  <2> SUFFICES ASSUME Inv, NEW g \in Hosts, NEW h \in Hosts,
                      LiveGuard(g), LiveGuard(h)
               PROVE  g = h
    BY DEF OneLiveGuard
  <2>1. ExactFence(grant, host[g].mine) /\ ExactFence(grant, host[h].mine)
    BY DEF Inv, LiveGuard, Covers, Recorded
  <2>2. host[g].mine.host = g /\ host[h].mine.host = h
    BY DEF Inv, LiveGuard, Named
  <2> QED
    BY <2>1, <2>2 DEF ExactFence
<1> QED
  BY <1>1, InvariantHolds, PTL

-----------------------------------------------------------------------------
(* The tick.  While nobody else changes the fleet, the plan of the dry run *)
(* covers every caravan that the tick may go on with: it is promoted and,  *)
(* if its CI is green, merged by the plan, or it is the one that the tick  *)
(* itself admitted (CoveredOK).  This is said of the fleet and not of what *)
(* the tick saw, since a write is fenced on the two being the same.        *)

CaravanOf(x) ==
  /\ x = [left |-> x.left, ci |-> x.ci, based |-> x.based, built |-> x.built, armed |-> x.armed, parked |-> x.parked,
          held |-> x.held, conflict |-> x.conflict, stack |-> x.stack, landing |-> x.landing, closed |-> x.closed]
  /\ x.left \in Nat
FleetOf(f) == f = [c \in Caravans |-> f[c]] /\ \A c \in Caravans : CaravanOf(f[c])
TickOf(t) ==
  t = [pc |-> t.pc, then |-> t.then, rebind |-> t.rebind, seen |-> t.seen, fresh |-> t.fresh, bound |-> t.bound,
       done |-> t.done, synced |-> t.synced, ci |-> t.ci, steps |-> t.steps, plan |-> t.plan, calm |-> t.calm,
       path |-> t.path, wrote |-> t.wrote]
Running(t) == t.pc \notin {"idle", "discover"}

\* c is one of Unpaused(s).
Going(cfg, s, c) ==
  /\ s[c].left > 0 /\ (cfg.all \/ c = Target)
  /\ ~(cfg.native /\ s[c].stack = "broken") /\ ~s[c].parked /\ ~s[c].held

\* What a plan from status s names, and a plan of a fleet without repairs.
WithHistory(s) == {c \in Caravans : s[c].left > 0 /\ s[c].stack = "history"}
WithDrift(s) == {c \in Caravans : s[c].left > 0 /\ s[c].stack = "drift"}
Behind(s) == {c \in Caravans : s[c].left > 0 /\ ~s[c].built /\ s[c].stack = "ok" /\ ~s[c].held}
PlanOrdinary(cfg, s, plan) ==
  /\ PlanAdmission \subseteq plan
  /\ cfg.rewrite => \A c \in Caravans : Going(cfg, s, c) /\ ~s[c].built => <<"rewrite", c>> \in plan
NoClosed(s) == \A c \in Caravans : ~s[c].closed
PlanRight(cfg, s, plan) ==
  /\ \A c \in Caravans : s[c].closed => <<"closed", c>> \in plan
  /\ NoClosed(s) /\ cfg.native =>
       /\ WithHistory(s) # {} => <<"repair", First(WithHistory(s))>> \in plan
       /\ WithHistory(s) = {} /\ WithDrift(s) # {} => <<"repair", First(WithDrift(s))>> \in plan
       /\ WithHistory(s) = {} /\ WithDrift(s) = {} /\ Behind(s) # {} => <<"repair", First(Behind(s))>> \in plan
       /\ WithHistory(s) = {} /\ WithDrift(s) = {} /\ Behind(s) = {} => PlanOrdinary(cfg, s, plan)
  /\ NoClosed(s) /\ ~cfg.native => PlanOrdinary(cfg, s, plan)

PlacesOK(cfg, t) ==
  /\ t.pc \in {"discover", "gate"} => t.then \in {"closed", "only"} /\ t.wrote = {}
  /\ t.pc = "reread" => t.then \in {"report", "stack", "prefix", "rewrite", "midpoint", "complete", "joined"}
  /\ t.pc = "reread" /\ t.then \in {"stack", "prefix", "rewrite"} => ~t.calm
  /\ t.pc \in {"landing", "stack"} \/ (t.pc = "reread" /\ t.then = "stack") => cfg.native
  /\ t.pc = "root" => ~cfg.native

Later == {"prefix", "midpoint", "converge", "final", "complete", "admit", "joined"}
PlanOK(cfg, t) ==
  t.calm =>
    /\ t.pc \in {"gate", "closed", "landing", "stack", "root"} => PlanRight(cfg, t.seen, t.plan)
    /\ t.pc \in {"landing", "stack", "root"} => NoClosed(t.seen)
    /\ t.pc \in {"parking", "rewrite"} => PlanOrdinary(cfg, t.seen, t.plan)
    /\ t.pc \in Later \/ (t.pc = "reread" /\ t.then \in Later) => PlanAdmission \subseteq t.plan

CoveredBy(f, t, c) ==
  \/ <<"admit", c>> \in t.wrote
  \/ <<"promote", c>> \in t.plan /\ (f[c].ci = "green" => <<"merge", c>> \in t.plan)
CoveredOK(cfg, f, t) ==
  t.calm /\ Running(t) /\ PlanAdmission \subseteq t.plan =>
    \A c \in Caravans : Going(cfg, f, c) => CoveredBy(f, t, c)

NamedOK(t) ==
  t.calm => \A w \in t.wrote : w \in t.plan \/ w[1] = "disarm" \/ (w[1] # "admit" /\ <<"admit", w[2]>> \in t.wrote)

FreshOK(t) ==
  /\ Running(t) /\ t.pc # "reread" => t.fresh \/ t.steps
  /\ t.pc \in {"midpoint", "complete", "admit"} => t.fresh
  /\ t.pc = "report" => t.fresh \/ t.path \in {"root_first", "prefix"}
OutOK(o) == o.ok => o.fresh \/ o.path \in {"root_first", "prefix"}

TickGood(cfg, f, t) ==
  /\ FleetOf(f) /\ TickOf(t) /\ (Running(t) => FleetOf(t.seen))
  /\ PlacesOK(cfg, t) /\ PlanOK(cfg, t) /\ CoveredOK(cfg, f, t) /\ NamedOK(t) /\ FreshOK(t)
TickInv == TickGood(config, fleet, tick) /\ OutOK(out)

\* Every set of naturals that is not empty has a least element.
LEMMA LeastOf ==
  ASSUME NEW S, S \subseteq Nat, S # {}
  PROVE  \E x \in S : \A y \in S : x <= y
<1> DEFINE R == OpToRel(<, Nat)
<1>1. IsWellFoundedOn(R, Nat)
  BY NatLessThanWellFounded
<1>2. PICK x \in S : \A y \in S : <<y, x>> \notin R
  <2> HIDE DEF R
  <2> QED
    BY <1>1, WFMin
<1>3. \A y \in S : <<y, x>> \in R <=> y < x
  BY DEF OpToRel
<1> HIDE DEF R
<1>4. \A y \in S : ~(y < x)
  BY <1>2, <1>3
<1>5. x \in Nat /\ \A y \in S : y \in Nat
  OBVIOUS
<1> QED
  BY <1>4, <1>5

\* The first of some caravans is one of them.
LEMMA FirstIn == ASSUME NEW cs, cs \subseteq Caravans, cs # {} PROVE First(cs) \in cs
<1>1. \E c \in cs : \A d \in cs : c <= d
  BY LeastOf, TickBounds
<1> QED
  BY <1>1, Zenon DEF First

\* What Unpaused selects, in words of one caravan.
LEMMA GoingFacts == ASSUME NEW s PROVE \A c : c \in Unpaused(s) <=> c \in Caravans /\ Going(config, s, c)
BY DEF Unpaused, Selected, Active, Quarantined, Going

\* The dry run names what PlanRight says, and covers the caravans of a fleet without repairs.
LEMMA PlanSyncFacts ==
  ASSUME NEW s
  PROVE  /\ PlanRight(config, s, PlanSync(s))
         /\ PlanAdmission \subseteq PlanSync(s) =>
              \A c \in Caravans : Going(config, s, c) =>
                <<"promote", c>> \in PlanSync(s) /\ (s[c].ci = "green" => <<"merge", c>> \in PlanSync(s))
<1>1. CASE \E c \in Caravans : s[c].closed
  <2>1. PlanSync(s) = {"closed"} \X {c \in Caravans : s[c].closed}
    BY <1>1 DEF PlanSync, PlanClosed
  <2>2. ~(PlanAdmission \subseteq PlanSync(s))
    <3>1. PICK c \in Caravans : s[c].closed
      BY <1>1
    <3>2. <<"admit", c>> \in PlanAdmission /\ <<"admit", c>> \notin PlanSync(s)
      BY <2>1 DEF PlanAdmission
    <3> QED
      BY <3>2
  <2> QED
    BY <1>1, <2>1, <2>2 DEF PlanRight, NoClosed
<1>2. CASE NoClosed(s) /\ PlanRepair(s) # {}
  <2>1. PlanSync(s) = PlanRepair(s)
    BY <1>2 DEF PlanSync, NoClosed
  <2>2. config.native
    BY <1>2 DEF PlanRepair, Repairs
  <2>3. /\ Repairs(s)[1] = WithHistory(s) /\ Repairs(s)[2] = WithDrift(s) /\ Repairs(s)[3] = Behind(s)
    BY <2>2 DEF Repairs, WithHistory, WithDrift, Behind, Active
  <2>4. /\ WithHistory(s) # {} => PlanRepair(s) = {<<"repair", First(WithHistory(s))>>}
        /\ WithHistory(s) = {} /\ WithDrift(s) # {} => PlanRepair(s) = {<<"repair", First(WithDrift(s))>>}
        /\ WithHistory(s) = {} /\ WithDrift(s) = {} /\ Behind(s) # {} => PlanRepair(s) = {<<"repair", First(Behind(s))>>}
        /\ WithHistory(s) = {} /\ WithDrift(s) = {} /\ Behind(s) = {} => PlanRepair(s) = {}
    BY <2>3 DEF PlanRepair
  <2>5. Caravans # {} /\ \A c \in Caravans : <<"admit", c>> \notin PlanSync(s)
    <3>1. WithHistory(s) \cup WithDrift(s) \cup Behind(s) # {} /\ \E c : PlanRepair(s) = {<<"repair", c>>}
      BY <1>2, <2>4
    <3>2. Caravans # {}
      BY <3>1 DEF WithHistory, WithDrift, Behind
    <3> QED
      BY <2>1, <3>1, <3>2
  <2>6. ~(PlanAdmission \subseteq PlanSync(s))
    <3>1. PICK c : c \in Caravans
      BY <2>5
    <3>2. <<"admit", c>> \in PlanAdmission /\ <<"admit", c>> \notin PlanSync(s)
      BY <2>5, <3>1 DEF PlanAdmission
    <3> QED
      BY <3>2
  <2>7. PlanRight(config, s, PlanSync(s))
    BY <1>2, <2>1, <2>2, <2>4 DEF PlanRight, NoClosed
  <2> QED
    BY <2>6, <2>7
<1>3. CASE NoClosed(s) /\ PlanRepair(s) = {}
  <2>1. PlanSync(s) = PlanRewrites(s) \cup PlanPromotions(s) \cup PlanMerges(s, PlanRewrites(s) # {}) \cup PlanAdmission
    BY <1>3 DEF PlanSync, NoClosed
  <2>2. PlanOrdinary(config, s, PlanSync(s))
    BY <2>1, GoingFacts DEF PlanOrdinary, PlanRewrites
  <2>3. config.native => WithHistory(s) = {} /\ WithDrift(s) = {} /\ Behind(s) = {}
    <3> SUFFICES ASSUME config.native PROVE WithHistory(s) = {} /\ WithDrift(s) = {} /\ Behind(s) = {}
      OBVIOUS
    <3>1. Repairs(s)[1] = WithHistory(s) /\ Repairs(s)[2] = WithDrift(s) /\ Repairs(s)[3] = Behind(s)
      BY DEF Repairs, WithHistory, WithDrift, Behind, Active
    <3> QED
      BY <1>3, <3>1 DEF PlanRepair
  <2>4. PlanRight(config, s, PlanSync(s))
    BY <1>3, <2>2, <2>3 DEF PlanRight, NoClosed
  <2>5. \A c \in Caravans : Going(config, s, c) =>
          <<"promote", c>> \in PlanSync(s) /\ (s[c].ci = "green" => <<"merge", c>> \in PlanSync(s))
    BY <2>1, GoingFacts DEF PlanPromotions, PlanMerges
  <2> QED
    BY <2>4, <2>5
<1> QED
  BY <1>1, <1>2, <1>3 DEF NoClosed

-----------------------------------------------------------------------------
\* Between two ticks, and in a tick that has not looked yet.
NotBegun(t) ==
  /\ t = [IdleTick EXCEPT !.pc = t.pc, !.then = t.then]
  /\ t.pc = "idle" \/ (t.pc = "discover" /\ t.then \in {"closed", "only"})

\* A tick that has not looked yet owes nothing.
LEMMA IdleGood ==
  ASSUME NEW cfg, NEW f, FleetOf(f), NEW t, NotBegun(t)
  PROVE  TickGood(cfg, f, t)
<1>1. /\ t = [pc |-> t.pc, then |-> t.then, rebind |-> FALSE, seen |-> <<>>, fresh |-> FALSE, bound |-> FALSE,
              done |-> {}, synced |-> {}, ci |-> {}, steps |-> FALSE, plan |-> {}, calm |-> TRUE, path |-> "none", wrote |-> {}]
  BY DEF IdleTick, NotBegun
<1>2. TickOf(t) /\ t.wrote = {} /\ ~Running(t)
  BY <1>1 DEF TickOf, Running, NotBegun
<1> QED
  BY <1>2 DEF NotBegun, TickGood, PlacesOK, PlanOK, CoveredOK, NamedOK, FreshOK, Running, Later

\* A tick that is over owes nothing.
LEMMA EndGood == ASSUME NEW cfg, NEW f, FleetOf(f) PROVE TickGood(cfg, f, IdleTick)
<1>1. NotBegun(IdleTick)
  BY DEF IdleTick, NotBegun
<1> QED
  BY <1>1, IdleGood

\* A tick that ends reports what it had, or an error.
LEMMA FailKeeps ==
  ASSUME NEW wake, Fail(wake), config' = config, FleetOf(fleet')
  PROVE  TickInv'
<1>1. tick' = IdleTick /\ OutOK(out')
  BY DEF Fail, OutOK
<1> QED
  BY <1>1, EndGood DEF TickInv

\* Somebody else does something: the plan is void.
LEMMA OutsideKeeps ==
  ASSUME TickInv, NEW f, FleetOf(f), Outside(f)
  PROVE  TickInv'
<1>1. fleet' = f /\ tick' = [tick EXCEPT !.calm = FALSE] /\ config' = config /\ out' = out
  BY DEF Outside
<1>2. TickOf(tick)
  BY DEF TickInv, TickGood
<1>3. /\ TickOf(tick') /\ ~tick'.calm /\ tick'.pc = tick.pc /\ tick'.then = tick.then /\ tick'.wrote = tick.wrote
      /\ tick'.seen = tick.seen /\ tick'.fresh = tick.fresh /\ tick'.steps = tick.steps /\ tick'.path = tick.path
  BY <1>1, <1>2 DEF TickOf
<1>4. TickGood(config, f, tick')
  BY <1>3 DEF TickInv, TickGood, PlacesOK, PlanOK, CoveredOK, NamedOK, FreshOK, Running
<1> QED
  BY <1>1, <1>4 DEF TickInv

-----------------------------------------------------------------------------
(* The phases that write no caravan.                                       *)

\* A tick begins with no status and no writes.
LEMMA PrepareKeeps == ASSUME TickInv, Prepare \/ AdmitPrepared PROVE TickInv'
<1>1. NotBegun(tick') /\ out' = NoOutput /\ fleet' = fleet /\ config' = config
  BY DEF Prepare, AdmitPrepared, NotBegun, IdleTick
<1>2. FleetOf(fleet) /\ OutOK(out')
  BY <1>1 DEF TickInv, TickGood, OutOK, NoOutput
<1> QED
  BY <1>1, <1>2, IdleGood DEF TickInv

\* The initial discovery makes the plan from the fleet as it is.
LEMMA DiscoverKeeps == ASSUME TickInv, Discover PROVE TickInv'
<1>1. /\ fleet' = fleet /\ config' = config /\ out' = out /\ tick.pc = "discover"
      /\ tick' = [tick EXCEPT !.pc = "gate", !.seen = fleet, !.fresh = TRUE, !.bound = TRUE, !.plan = PlanSync(fleet)]
  BY DEF Discover
<1>2. TickOf(tick) /\ FleetOf(fleet) /\ tick.then \in {"closed", "only"} /\ tick.wrote = {}
  BY <1>1 DEF TickInv, TickGood, PlacesOK
<1>3. /\ TickOf(tick') /\ tick'.pc = "gate" /\ tick'.seen = fleet /\ tick'.fresh = TRUE /\ tick'.plan = PlanSync(fleet)
      /\ tick'.wrote = {} /\ tick'.then = tick.then
  BY <1>1, <1>2 DEF TickOf
<1>4. PlanRight(config, fleet, PlanSync(fleet))
  BY PlanSyncFacts
<1>5. PlanAdmission \subseteq PlanSync(fleet) =>
        \A c \in Caravans : Going(config, fleet, c) =>
          <<"promote", c>> \in PlanSync(fleet) /\ (fleet[c].ci = "green" => <<"merge", c>> \in PlanSync(fleet))
  BY PlanSyncFacts
<1>6. PlacesOK(config, tick') /\ FreshOK(tick') /\ NamedOK(tick')
  BY <1>2, <1>3 DEF PlacesOK, FreshOK, NamedOK
<1>7. PlanOK(config, tick')
  BY <1>3, <1>4 DEF PlanOK, Later
<1>8. CoveredOK(config, fleet, tick')
  BY <1>3, <1>5 DEF CoveredOK, CoveredBy
<1>9. TickGood(config, fleet, tick')
  BY <1>2, <1>3, <1>6, <1>7, <1>8 DEF TickGood
<1> QED
  BY <1>1, <1>9 DEF TickInv

\* The tick goes on, and nothing else happens.
LEMMA GoKeeps ==
  ASSUME TickInv, Running(tick), NEW pc, Go(pc), fleet' = fleet, config' = config, out' = out,
         pc \notin {"idle", "discover", "gate", "reread", "midpoint"},
         pc \in {"landing", "stack"} => config.native, pc = "root" => ~config.native,
         pc \in {"complete", "admit", "report"} => tick.fresh,
         tick.calm => /\ pc \in {"closed", "landing", "stack", "root"} => PlanRight(config, tick.seen, tick.plan)
                      /\ pc \in {"landing", "stack", "root"} => NoClosed(tick.seen)
                      /\ pc \in {"parking", "rewrite"} => PlanOrdinary(config, tick.seen, tick.plan)
                      /\ pc \in Later => PlanAdmission \subseteq tick.plan,
         tick.pc # "reread"
  PROVE  TickInv'
<1>1. tick' = [tick EXCEPT !.pc = pc] /\ TickOf(tick) /\ FleetOf(fleet) /\ FleetOf(tick.seen)
  BY DEF Go, TickInv, TickGood
<1>2. /\ TickOf(tick') /\ tick'.pc = pc /\ tick'.seen = tick.seen /\ tick'.fresh = tick.fresh /\ tick'.plan = tick.plan
      /\ tick'.wrote = tick.wrote /\ tick'.then = tick.then /\ tick'.calm = tick.calm /\ tick'.steps = tick.steps
      /\ tick'.path = tick.path
  BY <1>1 DEF TickOf
<1>3. PlacesOK(config, tick')
  BY <1>2 DEF PlacesOK
<1>4. PlanOK(config, tick')
  BY <1>2 DEF PlanOK
<1>5. CoveredOK(config, fleet, tick')
  BY <1>2 DEF CoveredOK, CoveredBy, Running, TickInv, TickGood
<1>6. NamedOK(tick')
  BY <1>2 DEF NamedOK, TickInv, TickGood
<1>7. FreshOK(tick')
  BY <1>2 DEF FreshOK, Running, TickInv, TickGood
<1>8. TickGood(config, fleet, tick')
  BY <1>1, <1>2, <1>3, <1>4, <1>5, <1>6, <1>7 DEF TickGood
<1> QED
  BY <1>8 DEF TickInv

\* The authority gate goes on or stops; it writes nothing.
LEMMA GateKeeps == ASSUME TickInv, Gate PROVE TickInv'
<1>1. tick.pc = "gate" /\ fleet' = fleet /\ config' = config /\ FleetOf(fleet)
  BY DEF Gate, TickInv, TickGood
<1>2. CASE StaleStop
  BY <1>1, <1>2, FailKeeps DEF StaleStop
<1>3. CASE Go(tick.then) /\ out' = out
  <2>1. /\ tick.then \in {"closed", "only"} /\ Running(tick)
        /\ tick.calm => PlanRight(config, tick.seen, tick.plan)
    BY <1>1 DEF TickInv, TickGood, PlacesOK, PlanOK, Running
  <2> QED
    BY <1>1, <1>3, <2>1, GoKeeps DEF Later
<1> QED
  BY <1>2, <1>3 DEF Gate

\* A reread makes the status fresh and leaves the plan and the writes alone.
LEMMA RereadKeeps == ASSUME TickInv, Reread PROVE TickInv'
<1>1. /\ tick.pc = "reread" /\ fleet' = fleet /\ config' = config /\ out' = out /\ TickOf(tick) /\ FleetOf(fleet)
      /\ tick' = [tick EXCEPT !.pc = tick.then, !.then = "idle", !.rebind = FALSE, !.seen = fleet, !.fresh = TRUE,
                              !.bound = tick.rebind \/ ~config.authority]
  BY DEF Reread, TickInv, TickGood
<1>2. /\ TickOf(tick') /\ tick'.pc = tick.then /\ tick'.seen = fleet /\ tick'.fresh = TRUE /\ tick'.plan = tick.plan
      /\ tick'.wrote = tick.wrote /\ tick'.calm = tick.calm /\ tick'.steps = tick.steps
  BY <1>1 DEF TickOf
<1>3. /\ tick.then \in {"report", "stack", "prefix", "rewrite", "midpoint", "complete", "joined"}
      /\ tick.then \in {"stack", "prefix", "rewrite"} => ~tick.calm
      /\ tick.then = "stack" => config.native
      /\ tick.calm /\ tick.then \in Later => PlanAdmission \subseteq tick.plan
  BY <1>1 DEF TickInv, TickGood, PlacesOK, PlanOK
<1>4. PlacesOK(config, tick')
  BY <1>2, <1>3 DEF PlacesOK
<1>5. PlanOK(config, tick')
  BY <1>2, <1>3 DEF PlanOK
<1>6. CoveredOK(config, fleet, tick')
  BY <1>1, <1>2 DEF CoveredOK, CoveredBy, Running, TickInv, TickGood
<1>7. NamedOK(tick')
  BY <1>2 DEF NamedOK, TickInv, TickGood
<1>8. FreshOK(tick')
  BY <1>2 DEF FreshOK
<1>9. TickGood(config, fleet, tick')
  BY <1>1, <1>2, <1>4, <1>5, <1>6, <1>7, <1>8 DEF TickGood
<1> QED
  BY <1>1, <1>9 DEF TickInv

-----------------------------------------------------------------------------
(* The phases that write.                                                  *)

\* A write brings no caravan back and makes no CI green: x is a caravan before it, y after it.
Tamed(x, y) ==
  /\ y.left > 0 => x.left > 0
  /\ x.stack = "broken" => y.stack = "broken"
  /\ (x.parked => y.parked) /\ (x.held => y.held)
  /\ y.ci = "green" => x.ci = "green"

\* A tamed caravan that is selected was selected before.
LEMMA TamedGoing ==
  ASSUME NEW cfg, NEW f, NEW g, NEW c, Tamed(f[c], g[c]), Going(cfg, g, c)
  PROVE  Going(cfg, f, c)
BY DEF Tamed, Going

\* What a tick t has after a write to the caravans cs.
WroteTo(t, kind, cs) ==
  /\ TickOf(t) /\ t.seen = tick.seen /\ t.plan = tick.plan /\ t.wrote = tick.wrote \cup ({kind} \X cs)
  /\ t.calm => tick.calm /\ kind \notin {"retire", "append", "recover", "park"}

\* A write that the plan names, and that leaves every caravan tame, keeps the invariant.
LEMMA WriteKeeps ==
  ASSUME TickInv, Running(tick), NEW t, NEW kind, NEW cs, WroteTo(t, kind, cs), FleetOf(fleet'),
         \/ /\ t.pc = "reread"
            /\ t.then \in {"report", "stack", "prefix", "rewrite", "midpoint", "complete", "joined"}
            /\ t.then \in {"stack", "prefix", "rewrite"} => ~t.calm
            /\ t.then = "stack" => config.native
            /\ t.calm /\ t.then \in Later => PlanAdmission \subseteq tick.plan
         \/ t.pc = "report" /\ t.path = "root_first" /\ t.steps,
         t.calm => \A c \in cs : \/ <<kind, c>> \in tick.plan
                                 \/ kind # "admit" /\ <<"admit", c>> \in tick.wrote,
         t.calm => \A c \in Caravans : (kind = "admit" /\ c \in cs) \/ Tamed(fleet[c], fleet'[c])
  PROVE  TickGood(config, fleet', t)
<1>1. TickOf(t) /\ FleetOf(t.seen)
  BY DEF WroteTo, TickInv, TickGood
<1>2. PlacesOK(config, t)
  BY DEF PlacesOK
<1>3. PlanOK(config, t)
  BY DEF PlanOK, Later, WroteTo
<1>4. CoveredOK(config, fleet', t)
  <2> SUFFICES ASSUME t.calm, PlanAdmission \subseteq t.plan, NEW c \in Caravans, Going(config, fleet', c)
               PROVE  CoveredBy(fleet', t, c)
    BY DEF CoveredOK
  <2>1. CASE kind = "admit" /\ c \in cs
    BY <2>1 DEF WroteTo, CoveredBy
  <2>2. CASE Tamed(fleet[c], fleet'[c])
    <3>1. Going(config, fleet, c)
      BY <2>2, TamedGoing
    <3>2. CoveredBy(fleet, tick, c)
      BY <3>1 DEF TickInv, TickGood, CoveredOK, WroteTo
    <3>3. fleet'[c].ci = "green" => fleet[c].ci = "green"
      BY <2>2 DEF Tamed
    <3> QED
      BY <3>2, <3>3 DEF CoveredBy, WroteTo
  <2> QED
    BY <2>1, <2>2
<1>5. NamedOK(t)
  <2> SUFFICES ASSUME t.calm, NEW w \in t.wrote
               PROVE  w \in t.plan \/ w[1] = "disarm" \/ (w[1] # "admit" /\ <<"admit", w[2]>> \in t.wrote)
    BY DEF NamedOK
  <2>1. CASE w \in tick.wrote
    BY <2>1 DEF TickInv, TickGood, NamedOK, WroteTo
  <2>2. CASE w \in {kind} \X cs
    <3>1. w = <<kind, w[2]>> /\ w[1] = kind /\ w[2] \in cs
      BY <2>2
    <3> QED
      BY <3>1 DEF WroteTo
  <2> QED
    BY <2>1, <2>2 DEF WroteTo
<1>6. FreshOK(t)
  BY DEF FreshOK
<1> QED
  BY <1>1, <1>2, <1>3, <1>4, <1>5, <1>6 DEF TickGood

\* What the tick saw of a caravan it may write, and what there is of it.
LEMMA SameFacts ==
  ASSUME FleetOf(fleet), FleetOf(tick.seen), NEW c \in Caravans, Same(c)
  PROVE  /\ fleet[c].left = tick.seen[c].left /\ fleet[c].stack = tick.seen[c].stack
         /\ fleet[c].parked = tick.seen[c].parked /\ fleet[c].held = tick.seen[c].held
         /\ fleet[c].built = tick.seen[c].built /\ fleet[c].closed = tick.seen[c].closed
<1>1. CaravanOf(fleet[c]) /\ CaravanOf(tick.seen[c])
  BY DEF FleetOf
<1> DEFINE x == fleet[c]
           y == tick.seen[c]
<1>2. [x EXCEPT !.ci = "waiting", !.landing = "none"] = [y EXCEPT !.ci = "waiting", !.landing = "none"]
  BY DEF Same
<1> HIDE DEF x, y
<1>3. CaravanOf(x) /\ CaravanOf(y)
  BY <1>1 DEF x, y
<1>4. /\ x.left = y.left /\ x.stack = y.stack /\ x.parked = y.parked /\ x.held = y.held
      /\ x.built = y.built /\ x.closed = y.closed
  BY <1>2, <1>3 DEF CaravanOf
<1> QED
  BY <1>4 DEF x, y

\* A caravan that the tick selected and that is still the same is still selected.
LEMMA SameGoing ==
  ASSUME FleetOf(fleet), FleetOf(tick.seen), NEW c \in Caravans, Same(c), Going(config, tick.seen, c)
  PROVE  Going(config, fleet, c)
BY SameFacts DEF Going

\* The closed lifecycle writes the rows that the plan names.
LEMMA ClosedKeeps == ASSUME TickInv, Closed PROVE TickInv'
<1> DEFINE rows == {c \in Caravans : tick.seen[c].closed}
<1>1. tick.pc = "closed" /\ config' = config /\ FleetOf(fleet) /\ TickOf(tick) /\ Running(tick) /\ FleetOf(tick.seen)
  BY DEF Closed, TickInv, TickGood, Running
<1>2. tick.calm => PlanRight(config, tick.seen, tick.plan)
  BY <1>1 DEF TickInv, TickGood, PlanOK
<1>3. CASE rows = {} /\ Go(IF config.native THEN "landing" ELSE "root") /\ UNCHANGED <<fleet, out>>
  <2>1. NoClosed(tick.seen)
    BY <1>3 DEF NoClosed
  <2>2. CASE config.native
    BY <1>1, <1>2, <1>3, <2>1, <2>2, GoKeeps DEF Later
  <2>3. CASE ~config.native
    BY <1>1, <1>2, <1>3, <2>1, <2>3, GoKeeps DEF Later
  <2> QED
    BY <2>2, <2>3
<1>4. CASE /\ rows # {} /\ \A c \in rows : Same(c)
           /\ fleet' = [c \in Caravans |-> [fleet[c] EXCEPT !.closed = @ /\ c \notin rows]]
           /\ tick' = ReadAgain([Wrote("closed", rows) EXCEPT !.path = "closed"], "report", FALSE)
           /\ UNCHANGED out
  <2> HIDE DEF rows
  <2>1. FleetOf(fleet') /\ \A c \in Caravans : Tamed(fleet[c], fleet'[c])
    <3>1. ASSUME NEW c \in Caravans PROVE CaravanOf(fleet'[c]) /\ Tamed(fleet[c], fleet'[c])
      <4> DEFINE x == fleet[c]
                 v == x.closed /\ c \notin rows
      <4>1. fleet'[c] = [x EXCEPT !.closed = v] /\ CaravanOf(x)
        BY <1>1, <1>4 DEF FleetOf
      <4> HIDE DEF x, v
      <4>2. CaravanOf(fleet'[c]) /\ Tamed(x, fleet'[c])
        BY <4>1 DEF CaravanOf, Tamed
      <4> QED
        BY <4>2 DEF x
    <3>2. fleet' = [c \in Caravans |-> fleet'[c]]
      BY <1>4
    <3> QED
      BY <3>1, <3>2 DEF FleetOf
  <2>2. WroteTo(tick', "closed", rows) /\ tick'.pc = "reread" /\ tick'.then = "report"
    BY <1>1, <1>4 DEF WroteTo, TickOf, ReadAgain, Wrote
  <2>3. tick.calm => \A c \in rows : <<"closed", c>> \in tick.plan
    BY <1>2 DEF PlanRight, rows
  <2>4. tick'.calm => tick.calm
    BY <2>2 DEF WroteTo
  <2>5. TickGood(config, fleet', tick')
    BY <1>1, <2>1, <2>2, <2>3, <2>4, WriteKeeps DEF Later
  <2> QED
    BY <1>1, <1>4, <2>5 DEF TickInv
<1>5. CASE StaleStop /\ UNCHANGED fleet
  BY <1>1, <1>5, FailKeeps DEF StaleStop
<1> QED
  BY <1>3, <1>4, <1>5 DEF Closed

\* A retired landing is no part of a plan: the tick is not calm after it.
LEMMA LandingKeeps == ASSUME TickInv, Landing PROVE TickInv'
<1> DEFINE ended == {c \in Caravans : fleet[c].landing = "merged"}
<1>1. tick.pc = "landing" /\ config' = config /\ out' = out /\ FleetOf(fleet) /\ TickOf(tick) /\ Running(tick)
      /\ FleetOf(tick.seen)
  BY DEF Landing, TickInv, TickGood, Running
<1>2. /\ config.native
      /\ tick.calm => PlanRight(config, tick.seen, tick.plan) /\ NoClosed(tick.seen)
  BY <1>1 DEF TickInv, TickGood, PlanOK, PlacesOK
<1>3. CASE ended # {}
  <2>1. /\ fleet' = [c \in Caravans |-> IF c \in ended THEN [fleet[c] EXCEPT !.landing = "none"] ELSE fleet[c]]
        /\ tick' = ReadAgain([Wrote("retire", ended) EXCEPT !.steps = tick.steps], "stack", TRUE)
    BY <1>3 DEF Landing
  <2> HIDE DEF ended
  <2>2. FleetOf(fleet')
    <3>1. ASSUME NEW c \in Caravans PROVE CaravanOf(fleet'[c])
      <4> DEFINE x == fleet[c]
      <4>1. (fleet'[c] = x \/ fleet'[c] = [x EXCEPT !.landing = "none"]) /\ CaravanOf(x)
        BY <1>1, <2>1 DEF FleetOf
      <4> HIDE DEF x
      <4> QED
        BY <4>1 DEF CaravanOf
    <3>2. fleet' = [c \in Caravans |-> fleet'[c]]
      BY <2>1
    <3> QED
      BY <3>1, <3>2 DEF FleetOf
  <2>3. WroteTo(tick', "retire", ended) /\ tick'.pc = "reread" /\ tick'.then = "stack"
    BY <1>1, <2>1 DEF WroteTo, TickOf, ReadAgain, Wrote
  <2>4. ~tick'.calm
    BY <2>3 DEF WroteTo
  <2>5. TickGood(config, fleet', tick')
    BY <1>1, <1>2, <2>2, <2>3, <2>4, WriteKeeps DEF Later
  <2> QED
    BY <1>1, <2>5 DEF TickInv
<1>4. CASE ended = {}
  <2>1. Go("stack") /\ fleet' = fleet
    BY <1>4 DEF Landing
  <2> QED
    BY <1>1, <1>2, <2>1, GoKeeps DEF Later
<1> QED
  BY <1>3, <1>4

\* A caravan that nothing happens to is tame.
LEMMA TamedSelf == ASSUME NEW x PROVE Tamed(x, x)
BY DEF Tamed

\* One caravan is replaced by another record of a caravan.
LEMMA EditFacts ==
  ASSUME FleetOf(fleet), NEW c \in Caravans, NEW y, CaravanOf(y), fleet' = [fleet EXCEPT ![c] = y]
  PROVE  FleetOf(fleet') /\ fleet'[c] = y /\ \A d \in Caravans : d # c => fleet'[d] = fleet[d]
<1>1. fleet = [d \in Caravans |-> fleet[d]] /\ \A d \in Caravans : CaravanOf(fleet[d])
  BY DEF FleetOf
<1>2. fleet'[c] = y /\ (\A d \in Caravans : d # c => fleet'[d] = fleet[d]) /\ fleet' = [d \in Caravans |-> fleet'[d]]
  BY <1>1
<1>3. \A d \in Caravans : CaravanOf(fleet'[d])
  BY <1>1, <1>2
<1> QED
  BY <1>2, <1>3 DEF FleetOf

\* The tick writes one caravan, and reads again before it reports.
LEMMA OneWriteKeeps ==
  ASSUME TickInv, Running(tick), config' = config, NEW c \in Caravans, NEW y, NEW kind, NEW path,
         CaravanOf(y), fleet' = [fleet EXCEPT ![c] = y],
         tick' = ReadAgain([Wrote(kind, {c}) EXCEPT !.path = path], "report", TRUE), out' = out,
         tick.calm => kind \in {"append", "recover"} \/ (<<kind, c>> \in tick.plan /\ Tamed(fleet[c], y))
  PROVE  TickInv'
<1>1. FleetOf(fleet) /\ TickOf(tick)
  BY DEF TickInv, TickGood
<1>2. FleetOf(fleet') /\ fleet'[c] = y /\ \A d \in Caravans : d # c => fleet'[d] = fleet[d]
  BY <1>1, EditFacts
<1>3. /\ WroteTo(tick', kind, {c}) /\ tick'.pc = "reread" /\ tick'.then = "report"
  BY <1>1 DEF WroteTo, TickOf, ReadAgain, Wrote
<1>4. tick'.calm => tick.calm /\ kind \notin {"append", "recover"}
  BY <1>3 DEF WroteTo
<1>5. tick'.calm => \A d \in {c} : <<kind, d>> \in tick.plan
  BY <1>4
<1>6. tick'.calm => \A d \in Caravans : Tamed(fleet[d], fleet'[d])
  BY <1>2, <1>4, TamedSelf
<1>7. TickGood(config, fleet', tick')
  BY <1>2, <1>3, <1>5, <1>6, WriteKeeps DEF Later
<1> QED
  BY <1>7 DEF TickInv

\* A Stack that is changed, by the first phase that finds one.
LEMMA OneStackKeeps ==
  ASSUME TickInv, NEW kind, NEW earlier, NEW write, NEW path, NEW new, OneStack(kind, earlier, write, path, new),
         CaravanOf(new[First(Stacks(kind))]),
         tick.calm /\ Same(First(Stacks(kind))) =>
           \/ write \in {"append", "recover"}
           \/ <<write, First(Stacks(kind))>> \in tick.plan /\ Tamed(fleet[First(Stacks(kind))], new[First(Stacks(kind))])
  PROVE  TickInv'
<1> DEFINE c == First(Stacks(kind))
           y == new[c]
<1>1. tick.pc = "stack" /\ config' = config /\ Stacks(kind) # {} /\ Running(tick) /\ FleetOf(fleet)
  BY DEF OneStack, TickInv, TickGood, Running
<1>2. c \in Caravans
  BY <1>1, FirstIn DEF Stacks, Active
<1>3. CASE Same(c)
  <2>1. /\ fleet' = [fleet EXCEPT ![c] = y]
        /\ tick' = ReadAgain([Wrote(write, {c}) EXCEPT !.path = path], "report", TRUE)
        /\ out' = out
    BY <1>3 DEF OneStack
  <2>2. CaravanOf(y) /\ (tick.calm => write \in {"append", "recover"} \/ (<<write, c>> \in tick.plan /\ Tamed(fleet[c], y)))
    BY <1>3
  <2> HIDE DEF c, y
  <2> QED
    BY <1>1, <1>2, <2>1, <2>2, OneWriteKeeps
<1>4. CASE ~Same(c)
  <2>1. StaleStop /\ fleet' = fleet
    BY <1>4 DEF OneStack
  <2> QED
    BY <1>1, <2>1, FailKeeps DEF StaleStop
<1> QED
  BY <1>3, <1>4

\* A caravan that was rebuilt.
LEMMA RebuiltFacts ==
  ASSUME FleetOf(fleet), NEW c \in Caravans
  PROVE  CaravanOf(Rebuilt[c]) /\ (fleet[c].stack # "broken" => Tamed(fleet[c], Rebuilt[c]))
<1> DEFINE x == fleet[c]
<1>1. Rebuilt[c] = [x EXCEPT !.stack = "ok", !.built = TRUE, !.ci = "waiting"] /\ CaravanOf(x)
  BY DEF Rebuilt, FleetOf
<1> HIDE DEF x
<1>2. CaravanOf(Rebuilt[c]) /\ (x.stack # "broken" => Tamed(x, Rebuilt[c]))
  BY <1>1 DEF CaravanOf, Tamed
<1> QED
  BY <1>2 DEF x

\* What a tick knows when it looks at the native Stacks.
LEMMA StackFacts ==
  ASSUME TickInv, tick.pc = "stack"
  PROVE  /\ Running(tick) /\ FleetOf(fleet) /\ FleetOf(tick.seen) /\ config.native
         /\ tick.calm => PlanRight(config, tick.seen, tick.plan) /\ NoClosed(tick.seen)
         /\ Stacks("history") = WithHistory(tick.seen) /\ Stacks("drift") = WithDrift(tick.seen)
         /\ Repairs(tick.seen)[3] = Behind(tick.seen)
<1>1. Running(tick)
  BY DEF Running
<1>2. FleetOf(fleet) /\ FleetOf(tick.seen)
  BY <1>1 DEF TickInv, TickGood
<1>3. config.native
  BY DEF TickInv, TickGood, PlacesOK
<1>4. tick.calm => PlanRight(config, tick.seen, tick.plan) /\ NoClosed(tick.seen)
  BY DEF TickInv, TickGood, PlanOK
<1>5. Stacks("history") = WithHistory(tick.seen) /\ Stacks("drift") = WithDrift(tick.seen)
  BY DEF Stacks, Active, WithHistory, WithDrift
<1>6. Repairs(tick.seen)[3] = Behind(tick.seen)
  BY <1>3 DEF Repairs, Active, Behind
<1> QED
  BY <1>1, <1>2, <1>3, <1>4, <1>5, <1>6

\* A projected append is no part of a plan.
LEMMA AppendKeeps == ASSUME TickInv, Append PROVE TickInv'
<1> DEFINE new == [c \in Caravans |-> [fleet[c] EXCEPT !.stack = "drift"]]
           c == First(Stacks("append"))
<1>1. OneStack("append", {}, "append", "append", new)
  BY DEF Append
<1>2. Stacks("append") # {} /\ FleetOf(fleet)
  BY <1>1 DEF OneStack, TickInv, TickGood
<1>3. c \in Caravans
  BY <1>2, FirstIn DEF Stacks, Active
<1>4. CaravanOf(new[c])
  <2> DEFINE x == fleet[c]
  <2>1. new[c] = [x EXCEPT !.stack = "drift"] /\ CaravanOf(x)
    BY <1>2, <1>3 DEF FleetOf
  <2> HIDE DEF x, new
  <2> QED
    BY <2>1 DEF CaravanOf
<1> HIDE DEF new
<1> QED
  BY <1>1, <1>4, OneStackKeeps

\* A recovered Stack is no part of a plan.
LEMMA RecoverKeeps ==
  ASSUME TickInv, OneStack("missing", {"append", "history"}, "recover", "recover",
                           [c \in Caravans |-> [fleet[c] EXCEPT !.stack = "ok"]])
  PROVE  TickInv'
<1> DEFINE new == [c \in Caravans |-> [fleet[c] EXCEPT !.stack = "ok"]]
           c == First(Stacks("missing"))
<1>1. OneStack("missing", {"append", "history"}, "recover", "recover", new)
  OBVIOUS
<1>2. Stacks("missing") # {} /\ FleetOf(fleet)
  BY <1>1 DEF OneStack, TickInv, TickGood
<1>3. c \in Caravans
  BY <1>2, FirstIn DEF Stacks, Active
<1>4. CaravanOf(new[c])
  <2> DEFINE x == fleet[c]
  <2>1. new[c] = [x EXCEPT !.stack = "ok"] /\ CaravanOf(x)
    BY <1>2, <1>3 DEF FleetOf
  <2> HIDE DEF x, new
  <2> QED
    BY <2>1 DEF CaravanOf
<1> HIDE DEF new
<1> QED
  BY <1>1, <1>4, OneStackKeeps

\* A Stack with history or drift is the one that the plan names.
LEMMA RepairKeeps == ASSUME TickInv, History \/ Drift PROVE TickInv'
<1>1. tick.pc = "stack"
  BY DEF History, Drift, OneStack
<1>2. ASSUME NEW kind \in {"history", "drift"}, Stacks(kind) # {}, tick.calm => <<"repair", First(Stacks(kind))>> \in tick.plan
      PROVE  LET c == First(Stacks(kind)) IN
             CaravanOf(Rebuilt[c]) /\ (tick.calm /\ Same(c) => <<"repair", c>> \in tick.plan /\ Tamed(fleet[c], Rebuilt[c]))
  <2> DEFINE c == First(Stacks(kind))
  <2>1. c \in Caravans /\ tick.seen[c].stack = kind
    BY <1>2, FirstIn DEF Stacks, Active
  <2>2. Same(c) => fleet[c].stack # "broken"
    BY <1>1, <2>1, StackFacts, SameFacts
  <2> QED
    BY <1>1, <1>2, <2>1, <2>2, StackFacts, RebuiltFacts
<1>3. CASE History
  <2>1. OneStack("history", {"append"}, "repair", "repair", Rebuilt) /\ Stacks("history") # {}
    BY <1>3 DEF History, OneStack
  <2>2. tick.calm => <<"repair", First(Stacks("history"))>> \in tick.plan
    BY <1>1, <2>1, StackFacts DEF PlanRight
  <2> QED
    BY <1>2, <2>1, <2>2, OneStackKeeps
<1>4. CASE Drift
  <2>1. OneStack("drift", {"append", "history", "missing"}, "repair", "repair", Rebuilt) /\ Stacks("drift") # {}
        /\ Stacks("history") = {}
    BY <1>4 DEF Drift, OneStack
  <2>2. tick.calm => <<"repair", First(Stacks("drift"))>> \in tick.plan
    BY <1>1, <2>1, StackFacts DEF PlanRight
  <2> QED
    BY <1>2, <2>1, <2>2, OneStackKeeps
<1> QED
  BY <1>3, <1>4

\* Two missing Stacks stop the tick, one is recovered.
LEMMA MissingKeeps == ASSUME TickInv, Missing PROVE TickInv'
<1>1. CASE Cardinality(Stacks("missing")) > 1
  <2>1. DecisionStop /\ fleet' = fleet /\ config' = config /\ FleetOf(fleet)
    BY <1>1 DEF Missing, TickInv, TickGood
  <2> QED
    BY <2>1, FailKeeps DEF DecisionStop
<1>2. CASE ~(Cardinality(Stacks("missing")) > 1)
  BY <1>2, RecoverKeeps DEF Missing
<1> QED
  BY <1>1, <1>2

\* The stale root that is repaired is the first one, and the plan names it.
LEMMA StaleKeeps == ASSUME TickInv, Stale PROVE TickInv'
<1> DEFINE cs == Repairs(tick.seen)[3]
           c == First(cs)
           y == Rebuilt[c]
<1>1. tick.pc = "stack" /\ config' = config /\ Stacks("history") = {} /\ Stacks("drift") = {}
  BY DEF Stale
<1>2. CASE cs = {}
  <2>1. Go("parking") /\ fleet' = fleet /\ out' = out
    BY <1>2 DEF Stale
  <2>2. tick.calm => PlanOrdinary(config, tick.seen, tick.plan)
    BY <1>1, <1>2, StackFacts DEF PlanRight
  <2> QED
    BY <1>1, <2>1, <2>2, StackFacts, GoKeeps DEF Later
<1>3. CASE cs # {} /\ Same(c)
  <2>1. c \in Caravans /\ tick.seen[c].stack = "ok"
    BY <1>1, <1>3, StackFacts, FirstIn DEF Behind
  <2>2. /\ fleet' = [fleet EXCEPT ![c] = y]
        /\ tick' = ReadAgain([Wrote("repair", {c}) EXCEPT !.path = "repair"], "report", TRUE)
        /\ out' = out
    BY <1>3 DEF Stale
  <2>3. fleet[c].stack # "broken"
    BY <1>1, <1>3, <2>1, StackFacts, SameFacts
  <2>4. CaravanOf(y) /\ Tamed(fleet[c], y)
    BY <1>1, <2>1, <2>3, StackFacts, RebuiltFacts
  <2>5. tick.calm => <<"repair", c>> \in tick.plan
    BY <1>1, <1>3, StackFacts DEF PlanRight
  <2>6. Running(tick)
    BY <1>1, StackFacts
  <2> HIDE DEF c, y, cs
  <2> QED
    BY <1>1, <2>1, <2>2, <2>4, <2>5, <2>6, OneWriteKeeps
<1>4. CASE cs # {} /\ ~Same(c)
  <2>1. StaleStop /\ fleet' = fleet
    BY <1>4 DEF Stale
  <2> QED
    BY <1>1, <2>1, StackFacts, FailKeeps DEF StaleStop
<1> QED
  BY <1>2, <1>3, <1>4

-----------------------------------------------------------------------------
\* A landing of n members leaves caravans, and tame ones.
LEMMA LandedFacts ==
  ASSUME FleetOf(fleet), NEW c \in Caravans, NEW n \in 1..fleet[c].left, NEW based
  PROVE  FleetOf(Landed(c, n, based)) /\ \A d \in Caravans : Tamed(fleet[d], Landed(c, n, based)[d])
<1>1. ASSUME NEW d \in Caravans PROVE CaravanOf(Landed(c, n, based)[d]) /\ Tamed(fleet[d], Landed(c, n, based)[d])
  <2> DEFINE x == fleet[d]
             y == Landed(c, n, based)[d]
             b == based \/ fleet[c].left = n
             m == fleet[c].left - n
  <2>1. CaravanOf(x)
    BY DEF FleetOf
  <2>2. CASE d # c
    <3>1. y = [x EXCEPT !.built = FALSE]
      BY <2>2 DEF Landed
    <3> HIDE DEF x, y
    <3>2. CaravanOf(y) /\ Tamed(x, y)
      BY <2>1, <3>1 DEF CaravanOf, Tamed
    <3> QED
      BY <3>2 DEF x, y
  <2>3. CASE d = c
    <3>1. y = [x EXCEPT !.left = m, !.ci = "waiting", !.built = FALSE, !.based = b, !.landing = "none"]
      BY <2>3 DEF Landed
    <3>2. m \in Nat /\ x.left > 0
      BY <2>1, <2>3 DEF CaravanOf
    <3> HIDE DEF x, y, b, m
    <3>3. CaravanOf(y) /\ Tamed(x, y)
      BY <2>1, <3>1, <3>2 DEF CaravanOf, Tamed
    <3> QED
      BY <3>3 DEF x, y
  <2> QED
    BY <2>2, <2>3
<1>2. Landed(c, n, based) = [d \in Caravans |-> Landed(c, n, based)[d]]
  BY DEF Landed
<1> QED
  BY <1>1, <1>2 DEF FleetOf

\* Whatever the tick may go on with is covered by its plan.
LEMMA FenceFacts ==
  ASSUME TickInv, Running(tick), NEW c \in Unpaused(tick.seen), Same(c)
  PROVE  /\ c \in Caravans /\ fleet[c].left \in Nat /\ fleet[c].left > 0 /\ CaravanOf(fleet[c])
         /\ tick.calm /\ PlanAdmission \subseteq tick.plan => CoveredBy(fleet, tick, c)
<1>1. FleetOf(fleet) /\ FleetOf(tick.seen) /\ c \in Caravans /\ Going(config, tick.seen, c)
  BY GoingFacts DEF TickInv, TickGood
<1>2. Going(config, fleet, c)
  BY <1>1, SameGoing
<1>3. CaravanOf(fleet[c])
  BY <1>1 DEF FleetOf
<1>4. fleet[c].left \in Nat /\ fleet[c].left > 0
  BY <1>2, <1>3 DEF Going, CaravanOf
<1>5. tick.calm /\ PlanAdmission \subseteq tick.plan => CoveredBy(fleet, tick, c)
  BY <1>1, <1>2 DEF TickInv, TickGood, CoveredOK
<1> QED
  BY <1>1, <1>3, <1>4, <1>5

\* A root that lands first was covered by the plan, and its CI was green then.
LEMMA RootFirstKeeps == ASSUME TickInv, RootFirst PROVE TickInv'
<1> DEFINE cs == {c \in Unpaused(tick.seen) : Ready(tick.seen[c])}
           ready == {c \in cs : Same(c) /\ Ready(fleet[c])}
           r == First(ready)
<1>1. tick.pc = "root" /\ config' = config /\ Running(tick) /\ FleetOf(fleet) /\ FleetOf(tick.seen) /\ TickOf(tick)
  BY DEF RootFirst, TickInv, TickGood, Running
<1>2. tick.calm => PlanOrdinary(config, tick.seen, tick.plan) /\ PlanAdmission \subseteq tick.plan
  BY <1>1 DEF TickInv, TickGood, PlanOK, PlacesOK, PlanRight, PlanOrdinary
<1>3. CASE Go("parking") /\ UNCHANGED <<fleet, out>>
  BY <1>1, <1>2, <1>3, GoKeeps DEF Later
<1>4. CASE StaleStop /\ UNCHANGED fleet
  BY <1>1, <1>4, FailKeeps DEF StaleStop
<1>5. CASE /\ ready # {} /\ fleet' = Landed(r, 1, FALSE)
           /\ tick' = [Wrote("merge", {r}) EXCEPT !.path = "root_first", !.pc = "report"]
           /\ out' = out
  <2>1. r \in ready
    <3>1. ready \subseteq Caravans
      BY GoingFacts
    <3> HIDE DEF ready
    <3> QED
      BY <1>5, <3>1, FirstIn
  <2>2. r \in Unpaused(tick.seen) /\ Same(r) /\ fleet[r].ci = "green"
    BY <2>1 DEF Ready
  <2> HIDE DEF r, ready, cs
  <2>3. /\ r \in Caravans /\ fleet[r].left \in Nat /\ fleet[r].left > 0
        /\ tick.calm => CoveredBy(fleet, tick, r)
    BY <1>1, <1>2, <2>2, FenceFacts
  <2>4. 1 \in 1..fleet[r].left
    BY <2>3
  <2>5. FleetOf(fleet') /\ \A d \in Caravans : Tamed(fleet[d], fleet'[d])
    BY <1>1, <1>5, <2>3, <2>4, LandedFacts
  <2>6. WroteTo(tick', "merge", {r}) /\ tick'.pc = "report" /\ tick'.path = "root_first" /\ tick'.steps
    BY <1>1, <1>5 DEF WroteTo, TickOf, Wrote
  <2>7. tick'.calm => \A c \in {r} : <<"merge", c>> \in tick.plan \/ ("merge" # "admit" /\ <<"admit", c>> \in tick.wrote)
    BY <2>2, <2>3, <2>6 DEF CoveredBy, WroteTo
  <2>8. TickGood(config, fleet', tick')
    BY <1>1, <2>5, <2>6, <2>7, WriteKeeps
  <2> QED
    BY <1>1, <1>5, <2>8 DEF TickInv
<1> QED
  BY <1>3, <1>4, <1>5 DEF RootFirst

\* A change of parking is no part of a plan.
LEMMA ParkingKeeps == ASSUME TickInv, Parking PROVE TickInv'
<1> DEFINE s == tick.seen
           change == {c \in Active(s) : s[c].parked # (s[c].ci = "red") /\ s[c].ci # "waiting"}
           next == IF config.native THEN "prefix" ELSE "rewrite"
<1>1. tick.pc = "parking" /\ config' = config /\ Running(tick) /\ FleetOf(fleet) /\ FleetOf(tick.seen) /\ TickOf(tick)
  BY DEF Parking, TickInv, TickGood, Running
<1>2. tick.calm => PlanOrdinary(config, tick.seen, tick.plan) /\ PlanAdmission \subseteq tick.plan
  BY <1>1 DEF TickInv, TickGood, PlanOK, PlanOrdinary
<1>3. next \in {"prefix", "rewrite"}
  OBVIOUS
<1>4. CASE Go(next) /\ UNCHANGED <<fleet, out>>
  <2> HIDE DEF next
  <2> QED
    BY <1>1, <1>2, <1>3, <1>4, GoKeeps DEF Later
<1>5. CASE /\ fleet' = [c \in Caravans |-> IF c \in change THEN [fleet[c] EXCEPT !.parked = ~@] ELSE fleet[c]]
           /\ tick' = ReadAgain(Wrote("park", change), next, FALSE)
           /\ UNCHANGED out
  <2> HIDE DEF next, change
  <2>1. FleetOf(fleet')
    <3>1. ASSUME NEW c \in Caravans PROVE CaravanOf(fleet'[c])
      <4> DEFINE x == fleet[c]
                 v == ~x.parked
      <4>1. (fleet'[c] = x \/ fleet'[c] = [x EXCEPT !.parked = v]) /\ CaravanOf(x)
        BY <1>1, <1>5 DEF FleetOf
      <4> HIDE DEF x, v
      <4> QED
        BY <4>1 DEF CaravanOf
    <3>2. fleet' = [c \in Caravans |-> fleet'[c]]
      BY <1>5
    <3> QED
      BY <3>1, <3>2 DEF FleetOf
  <2>2. WroteTo(tick', "park", change) /\ tick'.pc = "reread" /\ tick'.then = next
    BY <1>1, <1>5 DEF WroteTo, TickOf, ReadAgain, Wrote
  <2>3. ~tick'.calm
    BY <2>2 DEF WroteTo
  <2>4. TickGood(config, fleet', tick')
    BY <1>1, <1>3, <2>1, <2>2, <2>3, WriteKeeps DEF Later
  <2> QED
    BY <1>1, <1>5, <2>4 DEF TickInv
<1>6. CASE StaleStop /\ UNCHANGED fleet
  BY <1>1, <1>6, FailKeeps DEF StaleStop
<1> QED
  BY <1>4, <1>5, <1>6 DEF Parking

-----------------------------------------------------------------------------
(* reconcile_caravan.                                                      *)

\* What a visit may write of caravan c: kinds are the writes that it counts.
Visited(c, kinds) ==
  tick' = [tick EXCEPT !.pc = tick.pc, !.done = @ \cup {c}, !.synced = @ \cup {c}, !.ci = @ \cup {<<c, fleet[c].ci>>},
                       !.wrote = @ \cup (kinds \X {c}), !.steps = @ \/ kinds # {}, !.fresh = @ /\ kinds = {}]

\* A visit writes no more than a promotion, a disarm and, with green CI, a merge.
LEMMA VisitKeeps ==
  ASSUME TickInv, tick.pc \in {"prefix", "converge", "joined"}, config' = config, out' = out, NEW c \in Caravans,
         NEW kinds, kinds \subseteq {"promote", "disarm", "merge"}, Visited(c, kinds),
         FleetOf(fleet'), \A d \in Caravans : Tamed(fleet[d], fleet'[d]),
         "merge" \in kinds => fleet[c].ci = "green",
         tick.calm => CoveredBy(fleet, tick, c)
  PROVE  TickInv'
<1>1. TickOf(tick) /\ Running(tick) /\ FleetOf(tick.seen) /\ (tick.calm => PlanAdmission \subseteq tick.plan)
  BY DEF TickInv, TickGood, Running, PlanOK, Later
<1>2. /\ TickOf(tick') /\ tick'.pc = tick.pc /\ tick'.then = tick.then /\ tick'.seen = tick.seen /\ tick'.plan = tick.plan
      /\ tick'.calm = tick.calm /\ tick'.wrote = tick.wrote \cup (kinds \X {c})
  BY <1>1 DEF TickOf, Visited
<1>3. tick'.steps = (tick.steps \/ kinds # {}) /\ tick'.fresh = (tick.fresh /\ kinds = {})
  BY <1>1 DEF TickOf, Visited
<1>4. PlacesOK(config, tick') /\ PlanOK(config, tick')
  BY <1>2 DEF PlacesOK, PlanOK, TickInv, TickGood
<1>5. CoveredOK(config, fleet', tick')
  <2> SUFFICES ASSUME tick'.calm, PlanAdmission \subseteq tick'.plan, NEW d \in Caravans, Going(config, fleet', d)
               PROVE  CoveredBy(fleet', tick', d)
    BY DEF CoveredOK
  <2>1. Tamed(fleet[d], fleet'[d])
    OBVIOUS
  <2>2. Going(config, fleet, d)
    BY <2>1, TamedGoing
  <2>3. CoveredBy(fleet, tick, d)
    BY <1>1, <1>2, <2>2 DEF TickInv, TickGood, CoveredOK
  <2> QED
    BY <1>2, <2>1, <2>3 DEF CoveredBy, Tamed
<1>6. NamedOK(tick')
  <2> SUFFICES ASSUME tick.calm, NEW w \in tick'.wrote
               PROVE  w \in tick.plan \/ w[1] = "disarm" \/ (w[1] # "admit" /\ <<"admit", w[2]>> \in tick'.wrote)
    BY <1>2 DEF NamedOK
  <2>1. CASE w \in tick.wrote
    BY <1>2, <2>1 DEF TickInv, TickGood, NamedOK
  <2>2. CASE w \in kinds \X {c}
    <3>1. w = <<w[1], c>> /\ w[1] \in kinds /\ w[2] = c
      BY <2>2
    <3>2. CoveredBy(fleet, tick, c)
      OBVIOUS
    <3>3. CASE <<"admit", c>> \in tick.wrote
      BY <1>2, <3>1, <3>3
    <3>4. CASE <<"promote", c>> \in tick.plan /\ (fleet[c].ci = "green" => <<"merge", c>> \in tick.plan)
      <4>1. w[1] \in {"promote", "disarm", "merge"}
        BY <3>1
      <4>2. CASE w[1] = "promote"
        BY <3>1, <3>4, <4>2
      <4>3. CASE w[1] = "merge"
        BY <3>1, <3>4, <4>3
      <4> QED
        BY <4>1, <4>2, <4>3
    <3> QED
      BY <3>2, <3>3, <3>4 DEF CoveredBy
  <2> QED
    BY <1>2, <2>1, <2>2
<1>7. FreshOK(tick')
  BY <1>1, <1>2, <1>3 DEF FreshOK, TickInv, TickGood
<1>8. TickGood(config, fleet', tick')
  BY <1>1, <1>2, <1>4, <1>5, <1>6, <1>7 DEF TickGood
<1> QED
  BY <1>8 DEF TickInv

\* What the three outcomes of a visit do to the fleet.
LEMMA OutcomeFacts ==
  ASSUME FleetOf(fleet), NEW c \in Caravans,
         Submits(c) \/ Waits(c) \/ \E n \in 1..MaxLeft : Lands(c, n)
  PROVE  /\ FleetOf(fleet') /\ \A d \in Caravans : Tamed(fleet[d], fleet'[d])
         /\ fleet'[c].left # fleet[c].left \/ fleet'[c].landing # fleet[c].landing => fleet[c].ci = "green"
<1> DEFINE x == fleet[c]
           a == config.github /\ x.armed
           g == config.github
<1>1. CaravanOf(x) /\ Prepared(x) = [x EXCEPT !.based = TRUE, !.armed = a]
  BY DEF FleetOf, Prepared
<1>2. CASE \E n \in 1..MaxLeft : Lands(c, n)
  <2>1. PICK n : n \in 1..fleet[c].left /\ fleet[c].ci = "green" /\ fleet' = Landed(c, n, TRUE)
    BY <1>2 DEF Lands
  <2> QED
    BY <2>1, LandedFacts
<1>3. CASE Submits(c)
  <2> DEFINE y == [Prepared(x) EXCEPT !.landing = "submitted"]
  <2>1. fleet' = [fleet EXCEPT ![c] = y] /\ x.ci = "green"
    BY <1>3 DEF Submits
  <2>2. y = [x EXCEPT !.based = TRUE, !.armed = a, !.landing = "submitted"]
    BY <1>1
  <2> HIDE DEF y, x, a
  <2>3. CaravanOf(y) /\ Tamed(x, y)
    BY <1>1, <2>2 DEF CaravanOf, Tamed
  <2>4. FleetOf(fleet') /\ fleet'[c] = y /\ \A d \in Caravans : d # c => fleet'[d] = fleet[d]
    BY <2>1, <2>3, EditFacts
  <2>5. \A d \in Caravans : Tamed(fleet[d], fleet'[d])
    BY <2>3, <2>4, TamedSelf DEF x
  <2> QED
    BY <2>1, <2>4, <2>5 DEF x
<1>4. CASE Waits(c)
  <2> DEFINE y == [Prepared(x) EXCEPT !.armed = g]
  <2>1. fleet' = [fleet EXCEPT ![c] = y]
    BY <1>4 DEF Waits
  <2>2. y = [x EXCEPT !.based = TRUE, !.armed = g]
    BY <1>1 DEF CaravanOf
  <2> HIDE DEF y, x, a, g
  <2>3. CaravanOf(y) /\ Tamed(x, y) /\ y.left = x.left /\ y.landing = x.landing
    BY <1>1, <2>2 DEF CaravanOf, Tamed
  <2>4. FleetOf(fleet') /\ fleet'[c] = y /\ \A d \in Caravans : d # c => fleet'[d] = fleet[d]
    BY <2>1, <2>3, EditFacts
  <2>5. \A d \in Caravans : Tamed(fleet[d], fleet'[d])
    BY <2>3, <2>4, TamedSelf DEF x
  <2> QED
    BY <2>3, <2>4, <2>5 DEF x
<1> QED
  BY <1>2, <1>3, <1>4

\* A visit to a caravan that the tick selected.
LEMMA ReconcileKeeps ==
  ASSUME TickInv, tick.pc \in {"prefix", "converge", "joined"}, config' = config, NEW c \in Unpaused(tick.seen),
         Reconcile(c, tick.pc)
  PROVE  TickInv'
<1>1. FleetOf(fleet) /\ FleetOf(tick.seen) /\ Running(tick) /\ (tick.calm => PlanAdmission \subseteq tick.plan)
  BY DEF TickInv, TickGood, Running, PlanOK, Later
<1>2. CASE ~Same(c) /\ StaleStop /\ UNCHANGED <<fleet, moved>>
  BY <1>1, <1>2, FailKeeps DEF StaleStop
<1>3. CASE /\ Same(c) /\ fleet' = [fleet EXCEPT ![c] = Prepared(@)] /\ DecisionStop
  <2> DEFINE x == fleet[c]
             a == config.github /\ x.armed
             y == Prepared(x)
  <2>1. c \in Caravans /\ CaravanOf(x) /\ y = [x EXCEPT !.based = TRUE, !.armed = a] /\ fleet' = [fleet EXCEPT ![c] = y]
    BY <1>1, <1>3, FenceFacts DEF Prepared
  <2> HIDE DEF x, a, y
  <2>2. CaravanOf(y)
    BY <2>1 DEF CaravanOf
  <2>3. FleetOf(fleet')
    BY <1>1, <2>1, <2>2, EditFacts
  <2> QED
    BY <1>3, <2>3, FailKeeps DEF DecisionStop
<1> DEFINE more == IF fleet'[c].left # fleet[c].left \/ fleet'[c].landing # fleet[c].landing
                   THEN {"merge"} ELSE IF fleet'[c] # fleet[c] THEN {"promote"} ELSE {}
           kinds == Needs(fleet[c]) \cup more
<1>4. CASE /\ Same(c)
           /\ IF config.native THEN Submits(c) \/ Waits(c) ELSE (\E n \in 1..MaxLeft : ~config.github /\ Lands(c, n)) \/ Waits(c)
           /\ Visited(c, kinds) /\ out' = out
  <2>2. c \in Caravans /\ (tick.calm => CoveredBy(fleet, tick, c))
    BY <1>1, <1>4, FenceFacts
  <2>3. Submits(c) \/ Waits(c) \/ \E n \in 1..MaxLeft : Lands(c, n)
    BY <1>4
  <2>4. /\ FleetOf(fleet') /\ \A d \in Caravans : Tamed(fleet[d], fleet'[d])
        /\ fleet'[c].left # fleet[c].left \/ fleet'[c].landing # fleet[c].landing => fleet[c].ci = "green"
    BY <1>1, <2>2, <2>3, OutcomeFacts
  <2>5. more \subseteq {"promote", "merge"} /\ ("merge" \in more => fleet[c].ci = "green")
    BY <2>4
  <2>6. Needs(fleet[c]) \subseteq {"promote", "disarm"}
    BY DEF Needs
  <2>7. kinds \subseteq {"promote", "disarm", "merge"} /\ ("merge" \in kinds => fleet[c].ci = "green")
    BY <2>5, <2>6
  <2> HIDE DEF kinds
  <2> QED
    BY <1>4, <2>2, <2>4, <2>7, VisitKeeps
<1> QED
  BY <1>2, <1>3, <1>4 DEF Reconcile, Visited

\* The prefix visits selected caravans, and its end says so.
LEMMA PrefixKeeps == ASSUME TickInv, Prefix PROVE TickInv'
<1> DEFINE todo == Unpaused(tick.seen) \ tick.done
<1>1. tick.pc = "prefix" /\ config' = config /\ FleetOf(fleet) /\ FleetOf(tick.seen) /\ TickOf(tick) /\ Running(tick)
  BY DEF Prefix, TickInv, TickGood, Running
<1>2. tick.calm => PlanAdmission \subseteq tick.plan
  BY <1>1 DEF TickInv, TickGood, PlanOK, Later
<1>3. CASE (StaleStop \/ DecisionStop) /\ UNCHANGED fleet
  BY <1>1, <1>3, FailKeeps DEF StaleStop, DecisionStop
<1>4. CASE Go("converge") /\ UNCHANGED <<fleet, out>>
  BY <1>1, <1>2, <1>4, GoKeeps DEF Later
<1>5. CASE tick' = [tick EXCEPT !.pc = "report", !.path = "prefix"] /\ UNCHANGED <<fleet, out>>
  <2>1. /\ TickOf(tick') /\ tick'.pc = "report" /\ tick'.path = "prefix" /\ tick'.seen = tick.seen /\ tick'.plan = tick.plan
        /\ tick'.calm = tick.calm /\ tick'.wrote = tick.wrote /\ tick'.fresh = tick.fresh /\ tick'.steps = tick.steps
    BY <1>1, <1>5 DEF TickOf
  <2>2. PlacesOK(config, tick') /\ PlanOK(config, tick')
    BY <2>1 DEF PlacesOK, PlanOK, Later
  <2>3. CoveredOK(config, fleet, tick')
    BY <1>1, <2>1 DEF CoveredOK, CoveredBy, TickInv, TickGood
  <2>4. NamedOK(tick') /\ FreshOK(tick')
    BY <1>1, <2>1 DEF NamedOK, FreshOK, TickInv, TickGood
  <2>5. TickGood(config, fleet, tick')
    BY <1>1, <2>1, <2>2, <2>3, <2>4 DEF TickGood
  <2> QED
    BY <1>1, <1>5, <2>5 DEF TickInv
<1>6. CASE todo # {} /\ Reconcile(First(todo), "prefix")
  <2>1. First(todo) \in Unpaused(tick.seen)
    <3>1. todo \subseteq Caravans /\ todo \subseteq Unpaused(tick.seen)
      BY GoingFacts
    <3> HIDE DEF todo
    <3> QED
      BY <1>6, <3>1, FirstIn
  <2> QED
    BY <1>1, <1>6, <2>1, ReconcileKeeps
<1> QED
  BY <1>3, <1>4, <1>5, <1>6 DEF Prefix

\* Every chain that is rewritten was behind when the plan was made.
LEMMA RewriteKeeps == ASSUME TickInv, Rewrite PROVE TickInv'
<1> DEFINE cs == Unpaused(tick.seen)
           behind == {c \in cs : ~tick.seen[c].built}
<1>1. tick.pc = "rewrite" /\ config' = config /\ FleetOf(fleet) /\ FleetOf(tick.seen) /\ TickOf(tick) /\ Running(tick)
  BY DEF Rewrite, TickInv, TickGood, Running
<1>2. tick.calm => PlanOrdinary(config, tick.seen, tick.plan) /\ PlanAdmission \subseteq tick.plan
  BY <1>1 DEF TickInv, TickGood, PlanOK, PlanOrdinary
<1>3. CASE (StaleStop \/ DecisionStop) /\ UNCHANGED fleet
  BY <1>1, <1>3, FailKeeps DEF StaleStop, DecisionStop
<1>4. CASE Go("converge") /\ UNCHANGED <<fleet, out>>
  BY <1>1, <1>2, <1>4, GoKeeps DEF Later
<1>5. ASSUME config.rewrite, NEW some \in SUBSET behind,
             fleet' = [c \in Caravans |-> IF c \in some THEN [fleet[c] EXCEPT !.built = TRUE, !.ci = "waiting"] ELSE fleet[c]],
             tick' = ReadAgain([(IF some = {} THEN tick ELSE Wrote("rewrite", some)) EXCEPT
                                  !.path = (IF some = behind THEN "none" ELSE "bounded"), !.done = some], "midpoint", FALSE),
             out' = out
      PROVE  TickInv'
  <2>1. tick.calm => \A c \in some : <<"rewrite", c>> \in tick.plan
    BY <1>2, <1>5, GoingFacts DEF PlanOrdinary
  <2> DEFINE path == IF some = behind THEN "none" ELSE "bounded"
             t == IF some = {} THEN tick ELSE Wrote("rewrite", some)
  <2>2. tick' = ReadAgain([t EXCEPT !.path = path, !.done = some], "midpoint", FALSE)
    BY <1>5
  <2>3. WroteTo(t, "rewrite", some)
    <3>1. CASE some = {}
      BY <1>1, <3>1 DEF WroteTo
    <3>2. CASE some # {}
      <4>1. t = Wrote("rewrite", some)
        BY <3>2
      <4> HIDE DEF t
      <4> QED
        BY <1>1, <4>1 DEF WroteTo, Wrote, TickOf
    <3> QED
      BY <3>1, <3>2
  <2> HIDE DEF behind, path, t
  <2>4. WroteTo(tick', "rewrite", some) /\ tick'.pc = "reread" /\ tick'.then = "midpoint"
    BY <2>2, <2>3 DEF WroteTo, TickOf, ReadAgain
  <2>5. FleetOf(fleet') /\ \A c \in Caravans : Tamed(fleet[c], fleet'[c])
    <3>1. ASSUME NEW c \in Caravans PROVE CaravanOf(fleet'[c]) /\ Tamed(fleet[c], fleet'[c])
      <4> DEFINE x == fleet[c]
      <4>1. (fleet'[c] = x \/ fleet'[c] = [x EXCEPT !.built = TRUE, !.ci = "waiting"]) /\ CaravanOf(x)
        BY <1>1, <1>5 DEF FleetOf
      <4> HIDE DEF x
      <4>2. CaravanOf(fleet'[c]) /\ Tamed(x, fleet'[c])
        BY <4>1 DEF CaravanOf, Tamed
      <4> QED
        BY <4>2 DEF x
    <3>2. fleet' = [c \in Caravans |-> fleet'[c]]
      BY <1>5
    <3> QED
      BY <3>1, <3>2 DEF FleetOf
  <2>6. tick'.calm => tick.calm
    BY <2>4 DEF WroteTo
  <2>7. TickGood(config, fleet', tick')
    BY <1>1, <1>2, <2>1, <2>4, <2>5, <2>6, WriteKeeps DEF Later
  <2> QED
    BY <1>1, <1>5, <2>7 DEF TickInv
<1> QED
  BY <1>3, <1>4, <1>5 DEF Rewrite

\* The midpoint comes after a read.
LEMMA MidpointKeeps == ASSUME TickInv, Midpoint PROVE TickInv'
<1>1. /\ tick.pc = "midpoint" /\ config' = config /\ fleet' = fleet /\ FleetOf(fleet) /\ FleetOf(tick.seen) /\ TickOf(tick)
      /\ Running(tick) /\ tick.fresh
  BY DEF Midpoint, TickInv, TickGood, Running, FreshOK
<1>2. tick.calm => PlanAdmission \subseteq tick.plan
  BY <1>1 DEF TickInv, TickGood, PlanOK, Later
<1>3. CASE StaleStop \/ DecisionStop
  BY <1>1, <1>3, FailKeeps DEF StaleStop, DecisionStop
<1>4. CASE Go("report") /\ UNCHANGED out
  BY <1>1, <1>2, <1>4, GoKeeps DEF Later
<1>5. CASE tick' = [tick EXCEPT !.pc = "converge", !.done = {}] /\ UNCHANGED out
  <2>1. /\ TickOf(tick') /\ tick'.pc = "converge" /\ tick'.seen = tick.seen /\ tick'.plan = tick.plan
        /\ tick'.calm = tick.calm /\ tick'.wrote = tick.wrote /\ tick'.fresh = tick.fresh /\ tick'.steps = tick.steps
    BY <1>1, <1>5 DEF TickOf
  <2>2. PlacesOK(config, tick') /\ PlanOK(config, tick')
    BY <1>2, <2>1 DEF PlacesOK, PlanOK, Later
  <2>3. CoveredOK(config, fleet, tick')
    BY <1>1, <2>1 DEF CoveredOK, CoveredBy, TickInv, TickGood
  <2>4. NamedOK(tick') /\ FreshOK(tick')
    BY <1>1, <2>1 DEF NamedOK, FreshOK, TickInv, TickGood
  <2>5. TickGood(config, fleet, tick')
    BY <1>1, <2>1, <2>2, <2>3, <2>4 DEF TickGood
  <2> QED
    BY <1>1, <1>5, <2>5 DEF TickInv
<1> QED
  BY <1>3, <1>4, <1>5 DEF Midpoint

\* The tick reads again, and has written nothing since.
LEMMA RereadNext ==
  ASSUME TickInv, Running(tick), NEW then \in {"complete", "report"}, tick' = ReadAgain(tick, then, FALSE),
         fleet' = fleet, config' = config, out' = out, tick.calm => PlanAdmission \subseteq tick.plan
  PROVE  TickInv'
<1>1. FleetOf(fleet) /\ TickOf(tick)
  BY DEF TickInv, TickGood
<1>2. WroteTo(tick', "rewrite", {}) /\ tick'.pc = "reread" /\ tick'.then = then /\ tick'.calm = tick.calm
  BY <1>1 DEF WroteTo, TickOf, ReadAgain
<1>3. \A c \in Caravans : Tamed(fleet[c], fleet'[c])
  BY TamedSelf
<1>4. TickGood(config, fleet', tick')
  BY <1>1, <1>2, <1>3, WriteKeeps DEF Later
<1> QED
  BY <1>4 DEF TickInv

\* A convergence visits a selected caravan, stops, or hands over.
LEMMA ConvergenceKeeps ==
  ASSUME TickInv, tick.pc \in {"converge", "joined"}, config' = config, NEW next, Convergence(next),
         ASSUME tick' = next, fleet' = fleet, out' = out PROVE TickInv'
  PROVE  TickInv'
<1> DEFINE todo == Unpaused(tick.seen) \ tick.done
<1>1. FleetOf(fleet)
  BY DEF TickInv, TickGood
<1>2. CASE tick' = next /\ UNCHANGED <<fleet, out, moved>>
  BY <1>2
<1>3. CASE DecisionStop /\ UNCHANGED <<fleet, moved>>
  BY <1>1, <1>3, FailKeeps DEF DecisionStop
<1>4. CASE todo # {} /\ Reconcile(First(todo), tick.pc)
  <2>1. First(todo) \in Unpaused(tick.seen)
    <3>1. todo \subseteq Caravans /\ todo \subseteq Unpaused(tick.seen)
      BY GoingFacts
    <3> HIDE DEF todo
    <3> QED
      BY <1>4, <3>1, FirstIn
  <2> QED
    BY <1>4, <2>1, ReconcileKeeps
<1> QED
  BY <1>2, <1>3, <1>4 DEF Convergence

\* The convergences before and after an admission.
LEMMA ConvergeKeeps == ASSUME TickInv, Converge \/ Joined PROVE TickInv'
<1>1. tick.pc \in {"converge", "joined"} /\ config' = config
  BY DEF Converge, Joined
<1>2. Running(tick) /\ FleetOf(fleet) /\ FleetOf(tick.seen) /\ TickOf(tick) /\ (tick.calm => PlanAdmission \subseteq tick.plan)
  BY <1>1 DEF TickInv, TickGood, Running, PlanOK, Later
<1>3. CASE StaleStop /\ UNCHANGED fleet
  BY <1>1, <1>2, <1>3, FailKeeps DEF StaleStop
<1>4. CASE tick.pc = "converge" /\ Convergence([tick EXCEPT !.pc = "final"])
  <2>1. ASSUME tick' = [tick EXCEPT !.pc = "final"], fleet' = fleet, out' = out PROVE TickInv'
    <3>1. Go("final")
      BY <2>1 DEF Go
    <3> QED
      BY <1>1, <1>2, <2>1, <3>1, GoKeeps DEF Later
  <2> QED
    BY <1>1, <1>4, <2>1, ConvergenceKeeps
<1>5. CASE tick.pc = "joined" /\ Convergence(ReadAgain(tick, "report", FALSE))
  <2>1. ASSUME tick' = ReadAgain(tick, "report", FALSE), fleet' = fleet, out' = out PROVE TickInv'
    BY <1>1, <1>2, <2>1, RereadNext
  <2> QED
    BY <1>1, <1>5, <2>1, ConvergenceKeeps
<1> QED
  BY <1>3, <1>4, <1>5 DEF Converge, Joined

\* A tick that has written reads again before it is complete.
LEMMA FinalKeeps == ASSUME TickInv, Final PROVE TickInv'
<1>1. tick.pc = "final" /\ config' = config /\ fleet' = fleet /\ out' = out /\ Running(tick)
  BY DEF Final, Running
<1>2. (tick.fresh \/ tick.steps) /\ (tick.calm => PlanAdmission \subseteq tick.plan)
  BY <1>1 DEF TickInv, TickGood, FreshOK, PlanOK, Later
<1>3. CASE tick.steps
  <2>1. tick' = ReadAgain(tick, "complete", FALSE)
    BY <1>3 DEF Final, RequiresRediscovery
  <2> QED
    BY <1>1, <1>2, <2>1, RereadNext
<1>4. CASE ~tick.steps
  <2>1. Go("complete")
    BY <1>4 DEF Final, RequiresRediscovery, Go
  <2> QED
    BY <1>1, <1>2, <1>4, <2>1, GoKeeps DEF Later
<1> QED
  BY <1>3, <1>4

\* The completion check reads a fresh status.
LEMMA CompleteKeeps == ASSUME TickInv, Complete PROVE TickInv'
<1>1. tick.pc = "complete" /\ config' = config /\ fleet' = fleet /\ Running(tick)
  BY DEF Complete, Running
<1>2. FleetOf(fleet) /\ tick.fresh /\ (tick.calm => PlanAdmission \subseteq tick.plan)
  BY <1>1 DEF TickInv, TickGood, FreshOK, PlanOK, Later
<1>3. CASE DecisionStop
  BY <1>1, <1>2, <1>3, FailKeeps DEF DecisionStop
<1>4. CASE (Go("admit") \/ Go("report")) /\ UNCHANGED out
  BY <1>1, <1>2, <1>4, GoKeeps DEF Later
<1>5. CASE Go(IF config.all THEN "admit" ELSE "report") /\ UNCHANGED out
  <2>1. CASE config.all
    BY <1>4, <1>5, <2>1
  <2>2. CASE ~config.all
    BY <1>4, <1>5, <2>2
  <2> QED
    BY <2>1, <2>2
<1> QED
  BY <1>3, <1>5 DEF Complete

\* An admitted pull request starts a caravan.
LEMMA NewFacts == CaravanOf(New)
BY DEF CaravanOf, New

\* Room for an admission is a place of the fleet.
LEMMA RoomFacts == Room # {} => First(Room) \in Caravans
<1>1. Room \subseteq Caravans
  BY DEF Room
<1> QED
  BY <1>1, FirstIn

\* The candidate that a tick admits is in no plan by its name, and every place is.
LEMMA AdmitKeeps == ASSUME TickInv, Admit PROVE TickInv'
<1>1. tick.pc = "admit" /\ config' = config /\ out' = out /\ Running(tick) /\ FleetOf(fleet) /\ TickOf(tick)
  BY DEF Admit, TickInv, TickGood, Running
<1>2. tick.fresh /\ (tick.calm => PlanAdmission \subseteq tick.plan)
  BY <1>1 DEF TickInv, TickGood, FreshOK, PlanOK, Later
<1>3. CASE Go("report") /\ fleet' = fleet
  BY <1>1, <1>2, <1>3, GoKeeps DEF Later
<1>4. CASE /\ Room # {} /\ fleet' = [fleet EXCEPT ![First(Room)] = New]
           /\ tick' = ReadAgain([Wrote("admit", {First(Room)}) EXCEPT !.done = {}], "joined", FALSE)
  <2> DEFINE c == First(Room)
  <2>1. c \in Caravans
    BY <1>4, RoomFacts
  <2>2. FleetOf(fleet') /\ \A d \in Caravans : d # c => fleet'[d] = fleet[d]
    BY <1>1, <1>4, <2>1, NewFacts, EditFacts
  <2> HIDE DEF c
  <2>3. WroteTo(tick', "admit", {c}) /\ tick'.pc = "reread" /\ tick'.then = "joined"
    BY <1>1, <1>4 DEF WroteTo, TickOf, ReadAgain, Wrote, c
  <2>4. tick'.calm => tick.calm
    BY <2>3 DEF WroteTo
  <2>5. tick'.calm => \A d \in {c} : <<"admit", d>> \in tick.plan
    <3>1. <<"admit", c>> \in PlanAdmission
      BY <2>1 DEF PlanAdmission
    <3> QED
      BY <1>2, <2>4, <3>1
  <2>6. \A d \in Caravans : ("admit" = "admit" /\ d \in {c}) \/ Tamed(fleet[d], fleet'[d])
    BY <2>2, TamedSelf
  <2>7. TickGood(config, fleet', tick')
    BY <1>1, <1>2, <2>2, <2>3, <2>4, <2>5, <2>6, WriteKeeps DEF Later
  <2> QED
    BY <1>1, <2>7 DEF TickInv
<1> QED
  BY <1>3, <1>4 DEF Admit

\* A report tells what the tick has read.
LEMMA EndKeeps == ASSUME TickInv, End PROVE TickInv'
<1>1. tick.pc = "report" /\ config' = config /\ fleet' = fleet /\ FleetOf(fleet)
  BY DEF End, TickInv, TickGood
<1>2. tick.fresh \/ tick.path \in {"root_first", "prefix"}
  BY <1>1 DEF TickInv, TickGood, FreshOK
<1>3. CASE DecisionStop
  BY <1>1, <1>3, FailKeeps DEF DecisionStop
<1>4. ASSUME NEW d, Report(d) PROVE TickInv'
  <2>1. tick' = IdleTick /\ out'.fresh = tick.fresh /\ out'.path = tick.path
    BY <1>4 DEF Report
  <2>2. OutOK(out')
    BY <1>2, <2>1 DEF OutOK
  <2> QED
    BY <1>1, <2>1, <2>2, EndGood DEF TickInv
<1>5. DecisionStop \/ \E d : Report(d)
  BY DEF End, ClosedLifecycleOutput, NativeAppendOutput, NativeDriftRepairOutput, NativeMembershipRecoveryOutput,
         RootFirstOutput, PrefixOutput, BoundedPrefixOutput, CompleteOutput
<1> QED
  BY <1>3, <1>4, <1>5

\* cara admit reports at once.
LEMMA AdmitOnlyKeeps == ASSUME TickInv, AdmitOnly PROVE TickInv'
<1>1. config' = config /\ FleetOf(fleet)
  BY DEF AdmitOnly, TickInv, TickGood
<1>2. CASE StaleStop /\ fleet' = fleet
  BY <1>1, <1>2, FailKeeps DEF StaleStop
<1>3. CASE BackendHealthy(tick.seen)
  <2> DEFINE d == AdmitDisposition(tick.seen)
  <2>1. /\ fleet' = IF d = "admitted" THEN [fleet EXCEPT ![First(Room)] = New] ELSE fleet
        /\ out' = [ok |-> TRUE, wake |-> d, path |-> "admit", fresh |-> TRUE] /\ tick' = IdleTick
    BY <1>3 DEF AdmitOnly
  <2>2. d = "admitted" => Room # {}
    BY DEF AdmitDisposition, AdmitFleetReadiness
  <2> HIDE DEF d
  <2>3. FleetOf(fleet')
    <3>1. CASE d = "admitted"
      <4>1. fleet' = [fleet EXCEPT ![First(Room)] = New] /\ First(Room) \in Caravans
        BY <2>1, <2>2, <3>1, RoomFacts
      <4> QED
        BY <1>1, <4>1, NewFacts, EditFacts
    <3>2. CASE d # "admitted"
      BY <1>1, <2>1, <3>2
    <3> QED
      BY <3>1, <3>2
  <2>4. OutOK(out')
    BY <2>1 DEF OutOK
  <2> QED
    BY <1>1, <2>1, <2>3, <2>4, EndGood DEF TickInv
<1> QED
  BY <1>2, <1>3 DEF AdmitOnly

\* A tick that dies reports no success.
LEMMA AbortKeeps == ASSUME TickInv, Abort PROVE TickInv'
<1>1. Fail("retry") /\ config' = config /\ FleetOf(fleet')
  BY DEF Abort, TickInv, TickGood
<1> QED
  BY <1>1, FailKeeps

-----------------------------------------------------------------------------
(* CI, GitHub and people: they leave caravans.                             *)

\* A fleet in which one caravan is replaced.
LEMMA FleetEdited ==
  ASSUME FleetOf(fleet), NEW c \in Caravans, NEW y, CaravanOf(y)
  PROVE  FleetOf([fleet EXCEPT ![c] = y])
<1> DEFINE g == [fleet EXCEPT ![c] = y]
<1>1. fleet = [d \in Caravans |-> fleet[d]] /\ \A d \in Caravans : CaravanOf(fleet[d])
  BY DEF FleetOf
<1>2. g = [d \in Caravans |-> g[d]] /\ g[c] = y /\ \A d \in Caravans : d # c => g[d] = fleet[d]
  BY <1>1
<1>3. \A d \in Caravans : CaravanOf(g[d])
  BY <1>1, <1>2
<1> HIDE DEF g
<1>4. FleetOf(g)
  BY <1>2, <1>3 DEF FleetOf
<1> QED
  BY <1>4 DEF g

\* CI changes one field of one caravan.
LEMMA CIKeeps == ASSUME TickInv, NEW c \in Caravans, CIReports(c) PROVE TickInv'
<1> DEFINE x == fleet[c]
<1>1. FleetOf(fleet) /\ CaravanOf(x)
  BY DEF TickInv, TickGood, FleetOf
<1>2. ASSUME NEW v PROVE FleetOf([fleet EXCEPT ![c].ci = v])
  <2> DEFINE y == [x EXCEPT !.ci = v]
  <2>1. CaravanOf(y)
    <3> HIDE DEF x
    <3> QED
      BY <1>1 DEF CaravanOf
  <2>2. [fleet EXCEPT ![c].ci = v] = [fleet EXCEPT ![c] = y]
    BY <1>1
  <2> HIDE DEF y
  <2> QED
    BY <1>1, <2>1, <2>2, FleetEdited
<1>3. PICK v : Outside([fleet EXCEPT ![c].ci = v])
  BY DEF CIReports
<1> QED
  BY <1>2, <1>3, OutsideKeeps

\* GitHub lands members that there are.
LEMMA StackLandsKeeps == ASSUME TickInv, NEW c \in Caravans, StackLands(c) \/ AutoMerges(c) PROVE TickInv'
<1>1. FleetOf(fleet)
  BY DEF TickInv, TickGood
<1>2. PICK n \in 1..fleet[c].left :
        \/ Outside([Landed(c, n, TRUE) EXCEPT ![c].landing = "merged"])
        \/ Outside([Landed(c, n, FALSE) EXCEPT ![c].armed = FALSE])
  <2>1. CASE StackLands(c)
    BY <2>1 DEF StackLands
  <2>2. CASE AutoMerges(c)
    <3>1. CaravanOf(fleet[c])
      BY <1>1 DEF FleetOf
    <3>2. 1 \in 1..fleet[c].left
      BY <2>2, <3>1 DEF AutoMerges, AutoMergeable, CaravanOf
    <3> QED
      BY <2>2, <3>2 DEF AutoMerges
  <2> QED
    BY <2>1, <2>2
<1>3. ASSUME NEW based
      PROVE  /\ FleetOf([Landed(c, n, based) EXCEPT ![c].landing = "merged"])
             /\ FleetOf([Landed(c, n, based) EXCEPT ![c].armed = FALSE])
  <2> DEFINE f == Landed(c, n, based)
             x == f[c]
             y == [x EXCEPT !.landing = "merged"]
             z == [x EXCEPT !.armed = FALSE]
  <2>1. FleetOf(f)
    BY <1>1, LandedFacts
  <2> HIDE DEF f
  <2>2. f = [d \in Caravans |-> f[d]] /\ \A d \in Caravans : CaravanOf(f[d])
    BY <2>1 DEF FleetOf
  <2>3. CaravanOf(y) /\ CaravanOf(z)
    <3>1. CaravanOf(x) /\ y = [x EXCEPT !.landing = "merged"] /\ z = [x EXCEPT !.armed = FALSE]
      BY <2>2
    <3> HIDE DEF x, y, z
    <3>2. CaravanOf(y)
      BY <3>1 DEF CaravanOf
    <3>3. CaravanOf(z)
      BY <3>1 DEF CaravanOf
    <3> QED
      BY <3>2, <3>3
  <2> DEFINE g == [f EXCEPT ![c].landing = "merged"]
             h == [f EXCEPT ![c].armed = FALSE]
  <2>4. /\ g = [d \in Caravans |-> g[d]] /\ g[c] = y /\ \A d \in Caravans : d # c => g[d] = f[d]
        /\ h = [d \in Caravans |-> h[d]] /\ h[c] = z /\ \A d \in Caravans : d # c => h[d] = f[d]
    BY <2>2
  <2> HIDE DEF g, h, y, z
  <2>5. FleetOf(g) /\ FleetOf(h)
    BY <2>2, <2>3, <2>4 DEF FleetOf
  <2> QED
    BY <2>5 DEF g, h, f
<1> QED
  BY <1>2, <1>3, OutsideKeeps

\* People leave a caravan behind.
LEMMA DisturbKeeps == ASSUME TickInv, NEW c \in Caravans, Disturb(c) PROVE TickInv'
<1> DEFINE x == fleet[c]
           m == x.left - 1
<1>1. FleetOf(fleet) /\ CaravanOf(x) /\ m \in Nat
  <2>1. FleetOf(fleet)
    BY DEF TickInv, TickGood
  <2>2. CaravanOf(x)
    BY <2>1 DEF FleetOf
  <2>3. x.left \in Nat /\ x.left > 0
    BY <2>2 DEF CaravanOf, Disturb
  <2> QED
    BY <2>1, <2>2, <2>3
<1>2. PICK y : /\ Outside([fleet EXCEPT ![c] = y])
               /\ \/ y = [x EXCEPT !.ci = "waiting", !.built = FALSE]
                  \/ y = [x EXCEPT !.armed = TRUE]
                  \/ y = [x EXCEPT !.conflict = TRUE]
                  \/ y = [x EXCEPT !.held = ~x.held]
                  \/ \E k : y = [x EXCEPT !.stack = k]
                  \/ y = [x EXCEPT !.left = m, !.closed = TRUE, !.built = FALSE, !.ci = "waiting"]
  BY DEF Disturb
<1>3. CaravanOf(y)
  <2> HIDE DEF x, m
  <2> QED
    BY <1>1, <1>2 DEF CaravanOf
<1>4. FleetOf([fleet EXCEPT ![c] = y])
  BY <1>1, <1>3, FleetEdited
<1> QED
  BY <1>2, <1>4, OutsideKeeps

\* So does an owner who repairs one.
LEMMA RepairedKeeps == ASSUME TickInv, NEW c \in Caravans, Repaired(c) PROVE TickInv'
<1> DEFINE x == fleet[c]
           k == IF x.stack = "broken" THEN "ok" ELSE x.stack
           y == [x EXCEPT !.conflict = FALSE, !.stack = k, !.ci = "waiting"]
<1>1. FleetOf(fleet) /\ CaravanOf(x)
  BY DEF TickInv, TickGood, FleetOf
<1>2. Outside([fleet EXCEPT ![c] = y])
  BY DEF Repaired
<1>3. CaravanOf(y)
  <2>1. y = [x EXCEPT !.conflict = FALSE, !.stack = k, !.ci = "waiting"]
    OBVIOUS
  <2> HIDE DEF x, k, y
  <2> QED
    BY <1>1, <2>1 DEF CaravanOf
<1> HIDE DEF y
<1>4. FleetOf([fleet EXCEPT ![c] = y])
  BY <1>1, <1>3, FleetEdited
<1> QED
  BY <1>2, <1>4, OutsideKeeps

\* A foreign merge leaves every chain behind the default branch.
LEMMA DefaultMovesKeeps == ASSUME TickInv, DefaultMoves PROVE TickInv'
<1> DEFINE g == [c \in Caravans |-> [fleet[c] EXCEPT !.built = FALSE]]
<1>1. FleetOf(fleet) /\ Outside(g)
  BY DEF TickInv, TickGood, DefaultMoves
<1>2. ASSUME NEW c \in Caravans PROVE CaravanOf(g[c])
  <2> DEFINE x == fleet[c]
  <2>1. g[c] = [x EXCEPT !.built = FALSE] /\ CaravanOf(x)
    BY <1>1 DEF FleetOf
  <2> HIDE DEF x, g
  <2> QED
    BY <2>1 DEF CaravanOf
<1>3. g = [c \in Caravans |-> g[c]]
  OBVIOUS
<1> HIDE DEF g
<1>4. FleetOf(g)
  BY <1>2, <1>3 DEF FleetOf
<1> QED
  BY <1>1, <1>4, OutsideKeeps

-----------------------------------------------------------------------------
\* Initially there is no tick.
LEMMA TickBegins == TickInit => TickInv
<1> SUFFICES ASSUME TickInit PROVE TickInv
  OBVIOUS
<1>1. ASSUME NEW c \in Caravans PROVE CaravanOf(fleet[c])
  <2> DEFINE n == IF c = Target THEN MaxLeft ELSE 1
  <2>1. fleet[c] = [New EXCEPT !.left = n]
    BY DEF TickInit
  <2>2. n \in Nat
    BY TickBounds
  <2> HIDE DEF n
  <2> QED
    BY <2>1, <2>2 DEF New, CaravanOf
<1>2. fleet = [c \in Caravans |-> fleet[c]]
  BY DEF TickInit
<1>3. FleetOf(fleet)
  BY <1>1, <1>2 DEF FleetOf
<1>4. tick = IdleTick /\ OutOK(out)
  BY DEF TickInit, NoOutput, OutOK
<1> QED
  BY <1>3, <1>4, EndGood DEF TickInv

\* A step that changes nothing.
LEMMA TickStutters == ASSUME TickInv, UNCHANGED tickVars PROVE TickInv'
<1>1. config' = config /\ fleet' = fleet /\ tick' = tick /\ out' = out
  BY DEF tickVars
<1> QED
  BY <1>1 DEF TickInv

\* Whatever its configuration, its fleet and what others do meanwhile, a tick in progress
\* writes what its dry run named as long as nobody interferes, and it has read the fleet
\* after its last write before it reports (sync_with_lock).
THEOREM TickInvariant == TickSpec => []TickInv
<1>1. TickInit => TickInv
  BY TickBegins
<1>2. TickInv /\ [TickNext]_tickVars => TickInv'
  <2> SUFFICES ASSUME TickInv, [TickNext]_tickVars PROVE TickInv'
    OBVIOUS
  <2>1. CASE Step
    <3>1. CASE Prepare \/ Discover \/ Gate \/ Reread \/ Closed \/ Landing
      BY <3>1, PrepareKeeps, DiscoverKeeps, GateKeeps, RereadKeeps, ClosedKeeps, LandingKeeps
    <3>2. CASE Append \/ History \/ Missing \/ Drift \/ Stale
      BY <3>2, AppendKeeps, RepairKeeps, MissingKeeps, StaleKeeps
    <3>3. CASE RootFirst \/ Parking \/ Prefix \/ Rewrite \/ Midpoint
      BY <3>3, RootFirstKeeps, ParkingKeeps, PrefixKeeps, RewriteKeeps, MidpointKeeps
    <3>4. CASE Converge \/ Final \/ Complete \/ Admit \/ Joined \/ End \/ AdmitOnly
      BY <3>4, ConvergeKeeps, FinalKeeps, CompleteKeeps, AdmitKeeps, EndKeeps, AdmitOnlyKeeps
    <3> QED
      BY <2>1, <3>1, <3>2, <3>3, <3>4 DEF Step
  <2>2. CASE AdmitPrepared \/ Abort
    BY <2>2, PrepareKeeps, AbortKeeps
  <2>3. CASE Environment
    BY <2>3, CIKeeps, StackLandsKeeps, DisturbKeeps, RepairedKeeps, DefaultMovesKeeps DEF Environment
  <2>4. CASE UNCHANGED tickVars
    BY <2>4, TickStutters
  <2> QED
    BY <2>1, <2>2, <2>3, <2>4 DEF TickNext
<1> QED
  BY <1>1, <1>2, PTL DEF TickSpec

\* The two promises of a tick: its report is of a fleet read after its writes, and its dry
\* run names what it writes (the final rediscovery of sync_with_lock, and sync/plan.rs).
THEOREM TicksAreSound == TickSpec => []TickSound
<1>1. TickInv => TickSound
  BY DEF TickInv, TickGood, NamedOK, OutOK, TickSound, ReportIsFresh, PlanNamesWrites
<1> QED
  BY <1>1, TickInvariant, PTL

=============================================================================
