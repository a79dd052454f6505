------------------------- MODULE LeaseProtocolProof -------------------------
(***************************************************************************)
(* Theorems about LeaseProtocol: for every set of missions and leases,     *)
(* every time and every number of requests on the wire, the types, that a  *)
(* motion is covered by a lease, and that the client's belief ends no      *)
(* later than the Supervisor's grant.                                      *)
(***************************************************************************)
EXTENDS LeaseProtocol, TLAPS

USE ProtocolAssumption

Unconfirmed(l) == Supervisor!IsUnconfirmed(sup.lease[l])
MissionOf(l)   == sup.lease[l].mission

\* The mission m is over: it does not run, nor move the robot, and is not offered again.
Over(m) == m \in rt.seen /\ m # rt.mission /\ m # mover

\* Ids are issued once, to a mission the Runtime has admitted; a lease whose stop was
\* confirmed is of a mission that is over.
LeaseInv ==
    \A l \in LeaseId :
        /\ sup.lease[l].st = "free" => sup.lease[l].call = "NONE" /\ l \notin told
        /\ Unconfirmed(l) => MissionOf(l) \in rt.seen
        /\ Unconfirmed(l) /\ (l \in told \/ sup.lease[l].call = "STOPPED") => Over(MissionOf(l))

\* The file has what the memory has.
DiskInv == sup.disk = Supervisor!Durable(sup)

\* The Runtime has admitted what it runs, and its client asks for that mission.
RuntimeInv ==
    /\ (rt.run = "idle") <=> (rt.mission = NoMission)
    /\ rt.run # "idle" => rt.mission \in rt.seen
    /\ mover # NoMission => mover \in rt.seen
    /\ cl.mission = rt.mission
    /\ cl.mission = NoMission => ~cl.waiting /\ cl.lease = NoLeaseId

\* Nobody knows of an epoch to come.
EpochInv == /\ {beat, cl.epoch, cl.leaseEpoch, reply.epoch} \subseteq 0 .. epoch + 1
            /\ up \/ epoch < MaxEpoch

\* A lease that the client was told, and the time that it may count on.
Held(l, time, e) ==
    /\ l \in LeaseId /\ Unconfirmed(l) /\ MissionOf(l) = cl.mission
    /\ up /\ e = epoch + 1 => time <= sup.lease[l].left

ClientInv ==
    /\ cl.lease # NoLeaseId => Held(cl.lease, cl.left, cl.leaseEpoch)
    /\ reply.there => cl.waiting
    /\ reply.there /\ reply.granted => Held(reply.lease, LeaseTime - cl.waited, reply.epoch)

\* What is on the wire: a renewal and a release name the lease of their mission.
Wire(r) ==
    /\ r.kind # "none" => r.mission \in rt.seen
    /\ r.kind \in {"renew", "release"} =>
          /\ r.lease \in LeaseId /\ sup.lease[r.lease].st # "free"
          /\ Unconfirmed(r.lease) => MissionOf(r.lease) = r.mission
    /\ r.kind = "release" => Over(r.mission)

\* The request the client waits for is one of its mission.
Own(r) == r.kind # "none" => r.kind # "release" /\ r.mission = cl.mission

RequestInv ==
    \A n \in 1 .. Slots : /\ Wire(requests[n])
                          /\ cl.waiting /\ cl.call = n => Own(requests[n])

\* A motion has its lease.
MotionInv == mover # NoMission => \E l \in LeaseId : Unconfirmed(l) /\ MissionOf(l) = mover

\* Together: a lease ends only when its mission is over, so neither the mission that moves
\* nor the client's loses one.
Inv == /\ TypeOK /\ LeaseInv /\ DiskInv /\ RuntimeInv /\ EpochInv
       /\ ClientInv /\ RequestInv /\ MotionInv

-----------------------------------------------------------------------------
(* The Supervisor's operators.                                             *)

\* What a lease may become, by a handler that neither issues nor releases it.
Onward(r, q) ==
    /\ q \in Supervisor!Lease
    /\ (q.st = "free") <=> (r.st = "free")
    /\ q.call = "STOPPED" => r.call = "STOPPED"
    /\ r.st = "free" => q.call = r.call
    /\ Supervisor!IsUnconfirmed(q) => Supervisor!IsUnconfirmed(r) /\ q.mission = r.mission
    /\ Supervisor!IsUnconfirmed(r) => Supervisor!IsUnconfirmed(q) \/ r.call = "STOPPED"

\* The Supervisor's record and file after a handler.
Written(s) == s \in Supervisor!Memory /\ s.disk = Supervisor!Durable(s)

\* What the assumptions say of the times and of the empty ids, in the form the steps use.
LEMMA Constants ==
    /\ NoMission \notin Mission /\ NoLeaseId \notin LeaseId
    /\ LeaseTime \in Nat /\ LeaseTime > 0 /\ StopTimeout \in Nat /\ StopTimeout > 0
    /\ MaxEpoch \in Nat /\ HeartbeatTimeout \in Nat /\ Slots \in Nat /\ Slots > 0
    /\ 0 \in 0 .. LeaseTime /\ 0 \in 0 .. StopTimeout /\ 0 \in 0 .. HeartbeatTimeout
    /\ LeaseTime \in 0 .. LeaseTime /\ HeartbeatTimeout \in 0 .. HeartbeatTimeout
    /\ 0 \in 0 .. Slots
  BY ProtocolAssumption

\* A lease that is over, or was never issued, has no call and nobody's motion.
LEMMA NoLeaseType ==
    ASSUME NEW st \in Supervisor!LeaseState
    PROVE  Supervisor!NoLease(st) \in Supervisor!Lease /\ Supervisor!NoLease(st).st = st
           /\ Supervisor!NoLease(st).call = "NONE"
  BY Constants DEF Supervisor!NoLease, Supervisor!Lease, Supervisor!CallState

\* permissions.update revokes, asks for a stop and takes a confirmed one; it never issues a
\* lease, changes its mission or gives it time.
LEMMA UpdatedEffect ==
    ASSUME NEW s \in Supervisor!Memory, NEW l \in LeaseId,
           NEW healthy \in BOOLEAN, NEW reachable \in BOOLEAN
    PROVE  LET q == Supervisor!Updated(s, l, healthy, reachable)
           IN  Onward(s.lease[l], q) /\ (Supervisor!IsUnconfirmed(q) => q.left = s.lease[l].left)
  <1> DEFINE r == s.lease[l]
             revoked == \/ r.st = "revoked"
                        \/ r.st = "granted" /\ (r.left = 0 \/ ~Supervisor!Operable(s, healthy))
             sent == r.dispatched \/ reachable
             call == IF sent /\ ~r.dispatched THEN "RUNNING" ELSE r.call
             q == Supervisor!Updated(s, l, healthy, reachable)
  <1>1. r \in Supervisor!Lease
    BY DEF Supervisor!Memory
  <1>2. /\ sent \in BOOLEAN /\ call \in Supervisor!CallState
        /\ call = "STOPPED" => r.call = "STOPPED"
        /\ revoked => r.st \in {"revoked", "granted"}
    BY <1>1 DEF Supervisor!Lease, Supervisor!CallState
  <1>3. q = IF ~revoked THEN r
            ELSE IF sent /\ call = "STOPPED" THEN Supervisor!NoLease("stopped")
            ELSE [r EXCEPT !.st = "revoked", !.asked = TRUE, !.dispatched = sent, !.call = call]
    BY Zenon DEF Supervisor!Updated
  <1> HIDE DEF revoked, sent, call, q, r
  <1>4. CASE ~revoked
    <2>1. q = r
      BY <1>3, <1>4
    <2> QED BY <1>1, <2>1 DEF Onward, r, q
  <1>5. CASE revoked /\ sent /\ call = "STOPPED"
    <2>1. q = Supervisor!NoLease("stopped")
      BY <1>3, <1>5
    <2>2. q \in Supervisor!Lease /\ q.st = "stopped" /\ q.call = "NONE"
      BY <2>1, NoLeaseType DEF Supervisor!LeaseState
    <2> QED BY <1>2, <1>5, <2>2 DEF Onward, Supervisor!IsUnconfirmed, r, q
  <1>6. CASE revoked /\ ~(sent /\ call = "STOPPED")
    <2>1. q = [r EXCEPT !.st = "revoked", !.asked = TRUE, !.dispatched = sent, !.call = call]
      BY <1>3, <1>6
    <2>2. /\ q \in Supervisor!Lease /\ q.st = "revoked" /\ q.mission = r.mission
          /\ q.left = r.left /\ q.call = call
      BY <1>1, <1>2, <2>1 DEF Supervisor!Lease, Supervisor!LeaseState
    <2> QED BY <1>2, <1>6, <2>2 DEF Onward, Supervisor!IsUnconfirmed, r, q
  <1> QED BY <1>4, <1>5, <1>6

\* What _persist writes has the type of the file.
LEMMA DurableType == ASSUME NEW s \in Supervisor!Memory PROVE Supervisor!Durable(s) \in Supervisor!File
  BY DEF Supervisor!Memory, Supervisor!Durable, Supervisor!File, Supervisor!Lease

\* After a save that succeeds the file has what the memory has, and no lease has changed.
LEMMA PersistEffect ==
    ASSUME NEW s \in Supervisor!Memory
    PROVE  LET p == Supervisor!Persist(s, TRUE) IN Written(p) /\ p.lease = s.lease
  <1> DEFINE p == [s EXCEPT !.disk = Supervisor!Durable(s), !.synced = TRUE, !.saveFailed = FALSE]
  <1>1. \/ Supervisor!Persist(s, TRUE) = s /\ s.disk = Supervisor!Durable(s)
        \/ Supervisor!Persist(s, TRUE) = p
    BY DEF Supervisor!Persist
  <1>2. /\ p \in Supervisor!Memory /\ p.lease = s.lease /\ p.stopFaults = s.stopFaults
        /\ p.stateFault = s.stateFault /\ p.disk = Supervisor!Durable(s)
    BY DurableType DEF Supervisor!Memory
  <1> HIDE DEF p
  <1>3. Supervisor!Durable(p) = Supervisor!Durable(s)
    BY <1>2 DEF Supervisor!Durable
  <1> QED BY <1>1, <1>2, <1>3 DEF Written

\* tick() of the Supervisor moves every lease onward, and saves.
LEMMA TickedEffect ==
    ASSUME NEW s \in Supervisor!Memory, NEW in \in Inputs
    PROVE  LET t == Supervisor!Ticked(s, in)
           IN  /\ Written(t)
               /\ \A l \in LeaseId : /\ Onward(s.lease[l], t.lease[l])
                                     /\ Supervisor!IsUnconfirmed(t.lease[l]) =>
                                           t.lease[l].left = s.lease[l].left
  <1> DEFINE u == Supervisor!Update(s, in.healthy, in.reachable)
             leases == [l \in LeaseId |-> Supervisor!Updated(s, l, in.healthy, in.reachable)]
             p == Supervisor!Prune(u, in.old)
  <1>1. in.healthy \in BOOLEAN /\ in.reachable \in BOOLEAN /\ in.saves = TRUE /\ in.old = {}
    BY DEF Inputs
  <1>2. \A l \in LeaseId : /\ leases[l] \in Supervisor!Lease /\ Onward(s.lease[l], leases[l])
                           /\ Supervisor!IsUnconfirmed(leases[l]) => leases[l].left = s.lease[l].left
    BY <1>1, UpdatedEffect DEF Onward
  <1>3. leases \in [LeaseId -> Supervisor!Lease]
    BY <1>2
  <1> HIDE DEF leases
  <1>4. PICK faults \in SUBSET LeaseId : u = [s EXCEPT !.lease = leases, !.stopFaults = faults]
    <2>1. s.stopFaults \in SUBSET LeaseId
      BY DEF Supervisor!Memory
    <2> QED BY <2>1 DEF Supervisor!Update, leases
  <1> HIDE DEF u
  <1>5. u \in Supervisor!Memory /\ u.lease = leases
    BY <1>3, <1>4 DEF Supervisor!Memory
  <1>6. p = [u EXCEPT !.lease = [l \in LeaseId |-> u.lease[l]]]
    BY <1>1, <1>5 DEF Supervisor!Prune, Supervisor!Memory
  <1>7. [l \in LeaseId |-> u.lease[l]] = leases
    BY <1>3, <1>5
  <1> HIDE DEF p
  <1>8. p \in Supervisor!Memory /\ p.lease = leases
    BY <1>3, <1>5, <1>6, <1>7 DEF Supervisor!Memory
  <1>9. Supervisor!Ticked(s, in) = Supervisor!Persist(p, TRUE)
    BY <1>1 DEF Supervisor!Ticked, Supervisor!Settled, p, u
  <1> QED BY <1>2, <1>8, <1>9, PersistEffect

\* What the disk says of s is read from nothing but its leases and faults.
LEMMA DurableOf ==
    ASSUME NEW s \in Supervisor!Memory, NEW t \in Supervisor!Memory,
           t.disk = s.disk, t.stopFaults = s.stopFaults, t.stateFault = s.stateFault,
           s.disk = Supervisor!Durable(s),
           \A l \in LeaseId :
              /\ t.lease[l].mission = s.lease[l].mission
              /\ Supervisor!IsUnconfirmed(t.lease[l]) <=> Supervisor!IsUnconfirmed(s.lease[l])
    PROVE  Written(t)
  <1>1. Supervisor!Durable(t) = Supervisor!Durable(s)
    BY DEF Supervisor!Durable
  <1> QED BY <1>1 DEF Written

\* The answer to a stop call changes nothing but the call of that lease.
LEMMA CallEffect ==
    ASSUME Written(sup), NEW l \in LeaseId, NEW c \in Supervisor!CallState,
           Answered(l, c)
    PROVE  /\ Written(sup') /\ sup'.lease[l].call = c /\ sup'.lease[l].st = sup.lease[l].st
           /\ sup'.lease[l].mission = sup.lease[l].mission
           /\ \A k \in LeaseId : /\ k # l => sup'.lease[k] = sup.lease[k]
                                 /\ sup'.lease[k].left = sup.lease[k].left
  <1> DEFINE t == [sup EXCEPT !.lease[l].call = c]
             q == [sup.lease[l] EXCEPT !.call = c]
             leases == [sup.lease EXCEPT ![l] = q]
  <1>1. sup \in Supervisor!Memory /\ sup.lease \in [LeaseId -> Supervisor!Lease]
        /\ sup.lease[l] \in Supervisor!Lease
    BY DEF Written, Supervisor!Memory
  <1>2. t = [sup EXCEPT !.lease = leases]
    BY <1>1 DEF Supervisor!Memory
  <1>3. /\ q \in Supervisor!Lease /\ q.call = c /\ q.st = sup.lease[l].st
        /\ q.mission = sup.lease[l].mission /\ q.left = sup.lease[l].left
    BY <1>1 DEF Supervisor!Lease
  <1> HIDE DEF q, t
  <1>4. /\ leases \in [LeaseId -> Supervisor!Lease] /\ leases[l] = q
        /\ \A k \in LeaseId : k # l => leases[k] = sup.lease[k]
    BY <1>1, <1>3
  <1> HIDE DEF leases
  <1>5. /\ t \in Supervisor!Memory /\ t.lease = leases /\ t.disk = sup.disk
        /\ t.stopFaults = sup.stopFaults /\ t.stateFault = sup.stateFault
    BY <1>1, <1>2, <1>4 DEF Supervisor!Memory
  <1>6. \A k \in LeaseId : /\ t.lease[k].mission = sup.lease[k].mission
                           /\ t.lease[k].st = sup.lease[k].st
    BY <1>3, <1>4, <1>5
  <1>7. Written(t)
    BY <1>1, <1>5, <1>6, DurableOf DEF Written, Supervisor!IsUnconfirmed
  <1>8. sup' = t
    BY DEF Answered, t
  <1> QED BY <1>3, <1>4, <1>5, <1>6, <1>7, <1>8

\* A unit of time ends no lease by itself; it only takes time from each.
LEMMA OlderEffect ==
    ASSUME Written(sup)
    PROVE  LET t == Supervisor!Older(sup)
           IN  /\ Written(t)
               /\ \A l \in LeaseId : /\ Onward(sup.lease[l], t.lease[l])
                                     /\ t.lease[l].left = Sooner(sup.lease[l].left)
  <1> DEFINE aged(l) == [sup.lease[l] EXCEPT
                !.left = IF @ > 0 THEN @ - 1 ELSE @,
                !.waited = IF sup.lease[l].asked /\ @ < StopTimeout THEN @ + 1 ELSE @]
             leases == [l \in LeaseId |-> aged(l)]
             t == Supervisor!Older(sup)
  <1>1. sup \in Supervisor!Memory /\ \A l \in LeaseId : sup.lease[l] \in Supervisor!Lease
    BY DEF Written, Supervisor!Memory
  <1>2. ASSUME NEW l \in LeaseId
        PROVE  /\ aged(l) \in Supervisor!Lease /\ aged(l).st = sup.lease[l].st
               /\ aged(l).call = sup.lease[l].call /\ aged(l).mission = sup.lease[l].mission
               /\ aged(l).left = Sooner(sup.lease[l].left)
    <2> DEFINE r == sup.lease[l]
               left == IF r.left > 0 THEN r.left - 1 ELSE r.left
               waited == IF r.asked /\ r.waited < StopTimeout THEN r.waited + 1 ELSE r.waited
    <2>1. r \in Supervisor!Lease
      BY <1>1
    <2>2. left \in 0 .. LeaseTime /\ waited \in 0 .. StopTimeout /\ left = Sooner(r.left)
      BY <2>1, Constants DEF Supervisor!Lease, Sooner
    <2>3. aged(l) = [r EXCEPT !.left = left, !.waited = waited]
      BY <2>1 DEF Supervisor!Lease
    <2> HIDE DEF aged, left, waited, r
    <2>4. [r EXCEPT !.left = left, !.waited = waited] \in Supervisor!Lease
      BY <2>1, <2>2 DEF Supervisor!Lease
    <2>5. /\ aged(l).st = r.st /\ aged(l).call = r.call /\ aged(l).mission = r.mission
          /\ aged(l).left = left
      BY <2>1, <2>3 DEF Supervisor!Lease
    <2> QED BY <2>2, <2>3, <2>4, <2>5 DEF r
  <1>3. t = [sup EXCEPT !.lease = leases]
    BY Zenon DEF Supervisor!Older
  <1> HIDE DEF aged, t
  <1>4. leases \in [LeaseId -> Supervisor!Lease] /\ \A l \in LeaseId : leases[l] = aged(l)
    BY <1>2
  <1> HIDE DEF leases
  <1>5. /\ t \in Supervisor!Memory /\ t.lease = leases /\ t.disk = sup.disk
        /\ t.stopFaults = sup.stopFaults /\ t.stateFault = sup.stateFault
    BY <1>1, <1>3, <1>4 DEF Supervisor!Memory
  <1>6. Written(t)
    BY <1>1, <1>2, <1>4, <1>5, DurableOf DEF Written, Supervisor!IsUnconfirmed
  <1> QED BY <1>2, <1>4, <1>5, <1>6 DEF Onward, Supervisor!IsUnconfirmed, t

\* A grant, or a confirmed end, of one lease and its save.
LEMMA ReplaceEffect ==
    ASSUME NEW s \in Supervisor!Memory, NEW l \in LeaseId, NEW q \in Supervisor!Lease
    PROVE  LET t == Supervisor!Persist([s EXCEPT !.lease[l] = q], TRUE)
           IN  /\ Written(t) /\ t.lease[l] = q
               /\ \A k \in LeaseId : k # l => t.lease[k] = s.lease[k]
  <1> DEFINE leases == [s.lease EXCEPT ![l] = q]
             u == [s EXCEPT !.lease[l] = q]
  <1>1. s.lease \in [LeaseId -> Supervisor!Lease] /\ u = [s EXCEPT !.lease = leases]
    BY DEF Supervisor!Memory
  <1>2. /\ leases \in [LeaseId -> Supervisor!Lease] /\ leases[l] = q
        /\ \A k \in LeaseId : k # l => leases[k] = s.lease[k]
    BY <1>1
  <1> HIDE DEF leases, u
  <1>3. u \in Supervisor!Memory /\ u.lease = leases
    BY <1>1, <1>2 DEF Supervisor!Memory
  <1>4. Written(Supervisor!Persist(u, TRUE)) /\ Supervisor!Persist(u, TRUE).lease = leases
    BY <1>3, PersistEffect
  <1> QED BY <1>2, <1>4 DEF u

\* t is s with the lease l granted to m and saved.
Grants(t, s, l, m) ==
    /\ Written(t)
    /\ t.lease[l].st = "granted" /\ t.lease[l].mission = m
    /\ t.lease[l].left = LeaseTime /\ t.lease[l].call = s.lease[l].call
    /\ \A k \in LeaseId : k # l => t.lease[k] = s.lease[k]

\* A grant that is saved: the lease is its mission's, for its whole time.
LEMMA GrantedEffect ==
    ASSUME NEW s \in Supervisor!Memory, NEW l \in LeaseId, NEW m \in Mission,
           NEW t, t = Supervisor!Persist(Supervisor!Granted(s, l, m), TRUE)
    PROVE  Grants(t, s, l, m)
  <1> DEFINE q == [s.lease[l] EXCEPT !.st = "granted", !.mission = m, !.left = LeaseTime]
  <1>1. s.lease[l] \in Supervisor!Lease
    BY DEF Supervisor!Memory
  <1>2. /\ q \in Supervisor!Lease /\ q.st = "granted" /\ q.mission = m
        /\ q.left = LeaseTime /\ q.call = s.lease[l].call
    BY <1>1, Constants DEF Supervisor!Lease, Supervisor!LeaseState
  <1>3. Supervisor!Granted(s, l, m) = [s EXCEPT !.lease[l] = q]
    BY DEF Supervisor!Granted, Supervisor!Memory
  <1> DEFINE w == Supervisor!Persist([s EXCEPT !.lease[l] = q], TRUE)
  <1>4. t = w
    BY <1>3
  <1> HIDE DEF q
  <1>5. /\ Written(w) /\ w.lease[l] = q
        /\ \A k \in LeaseId : k # l => w.lease[k] = s.lease[k]
    BY <1>2, ReplaceEffect
  <1> HIDE DEF w
  <1> QED BY <1>2, <1>4, <1>5 DEF Grants

\* A process that starts again finds every lease that is not over in its file.
LEMMA StartEffect ==
    ASSUME Written(sup), \A l \in LeaseId : Unconfirmed(l) => MissionOf(l) # NoMission
    PROVE  LET t == Supervisor!Start(TRUE)
           IN  /\ Written(t)
               /\ \A l \in LeaseId :
                     /\ t.lease[l].call = "NONE"
                     /\ (t.lease[l].st = "free") <=> (sup.lease[l].st = "free")
                     /\ Supervisor!IsUnconfirmed(t.lease[l]) <=> Unconfirmed(l)
                     /\ Unconfirmed(l) => t.lease[l].mission = MissionOf(l)
  <1> DEFINE t == Supervisor!Start(TRUE)
             q(l) == Supervisor!Restored(l, sup.disk)
             leases == [l \in LeaseId |-> q(l)]
  <1>1. /\ sup \in Supervisor!Memory /\ sup.disk \in Supervisor!File
        /\ sup.disk = Supervisor!Durable(sup)
        /\ \A l \in LeaseId : sup.lease[l] \in Supervisor!Lease
    BY DEF Written, Supervisor!Memory
  <1>2. \A l \in LeaseId : /\ sup.disk.leases[l] = IF Unconfirmed(l) THEN MissionOf(l) ELSE NoMission
                           /\ l \in Supervisor!Saved(sup.disk) <=> Unconfirmed(l)
    BY <1>1 DEF Supervisor!Durable, Supervisor!Saved, Unconfirmed, MissionOf
  <1>3. /\ t.lease = leases /\ t.stopFaults = sup.disk.stopFaults
        /\ t.stateFault = sup.disk.stateFault /\ t.disk = sup.disk
        /\ t = [lease |-> leases, stopFaults |-> sup.disk.stopFaults,
                 stateFault |-> sup.disk.stateFault, synced |-> FALSE, saveFailed |-> FALSE,
                 disk |-> sup.disk]
    BY DEF Supervisor!Start
  <1> HIDE DEF t
  <1>4. ASSUME NEW l \in LeaseId
        PROVE  /\ q(l) \in Supervisor!Lease /\ q(l).call = "NONE"
               /\ (q(l).st = "free") <=> (sup.lease[l].st = "free")
               /\ Supervisor!IsUnconfirmed(q(l)) <=> Unconfirmed(l)
               /\ q(l).mission = IF Unconfirmed(l) THEN MissionOf(l) ELSE NoMission
    <2>1. CASE Unconfirmed(l)
      <3>1. q(l) = [Supervisor!NoLease("revoked") EXCEPT !.mission = MissionOf(l)]
        BY <1>2, <2>1 DEF Supervisor!Restored
      <3>2. MissionOf(l) \in Mission \cup {NoMission} /\ sup.lease[l].st # "free"
        BY <1>1, <2>1 DEF Supervisor!Lease, MissionOf, Unconfirmed, Supervisor!IsUnconfirmed
      <3>3. /\ q(l) \in Supervisor!Lease /\ q(l).call = "NONE" /\ q(l).st = "revoked"
            /\ q(l).mission = MissionOf(l)
        BY <3>1, <3>2, Constants
           DEF Supervisor!NoLease, Supervisor!Lease, Supervisor!LeaseState, Supervisor!CallState
      <3> HIDE DEF q
      <3> QED BY <2>1, <3>2, <3>3 DEF Supervisor!IsUnconfirmed
    <2>2. CASE ~Unconfirmed(l)
      <3> l \notin Supervisor!Saved(sup.disk)
        BY <1>1, <2>2
           DEF Supervisor!Durable, Supervisor!Saved, Unconfirmed
      <3>1. q(l) = IF sup.lease[l].st = "free" THEN Supervisor!NoLease("free")
                   ELSE Supervisor!NoLease("gone")
        BY DEF Supervisor!Restored
      <3>2. Supervisor!NoLease("free").mission = NoMission
            /\ Supervisor!NoLease("gone").mission = NoMission
        BY DEF Supervisor!NoLease
      <3> HIDE DEF q
      <3>3. /\ q(l) \in Supervisor!Lease /\ q(l).call = "NONE" /\ q(l).mission = NoMission
            /\ (q(l).st = "free") <=> (sup.lease[l].st = "free")
            /\ q(l).st \in {"free", "gone"}
        BY <3>1, <3>2, NoLeaseType DEF Supervisor!LeaseState
      <3> QED BY <2>2, <3>3 DEF Supervisor!IsUnconfirmed
    <2> QED BY <2>1, <2>2
  <1> HIDE DEF q
  <1>5. leases \in [LeaseId -> Supervisor!Lease] /\ \A l \in LeaseId : leases[l] = q(l)
    BY <1>4
  <1> HIDE DEF leases
  <1>6. t \in Supervisor!Memory
    <2>1. sup.disk.stopFaults \in SUBSET LeaseId /\ sup.disk.stateFault \in BOOLEAN
      BY <1>1 DEF Supervisor!File
    <2> QED BY <1>1, <1>3, <1>5, <2>1 DEF Supervisor!Memory
  <1>7. Supervisor!Durable(t) = Supervisor!Durable(sup)
    <2>1. /\ \A l \in LeaseId : (IF Supervisor!IsUnconfirmed(t.lease[l])
                                 THEN t.lease[l].mission ELSE NoMission)
                              = (IF Unconfirmed(l) THEN MissionOf(l) ELSE NoMission)
      BY <1>3, <1>4, <1>5
    <2>2. t.stopFaults = sup.stopFaults /\ t.stateFault = sup.stateFault
      BY <1>1, <1>3 DEF Supervisor!Durable
    <2> QED BY <2>1, <2>2 DEF Supervisor!Durable, Unconfirmed, MissionOf
  <1>8. Written(t)
    BY <1>1, <1>3, <1>6, <1>7 DEF Written
  <1> QED BY <1>3, <1>4, <1>5, <1>8 DEF t

-----------------------------------------------------------------------------
(* A step as one lease sees it.                                            *)

\* The stop of the lease was confirmed, here or on its way.
Stopped(l) == l \in told \/ sup.lease[l].call = "STOPPED"

\* The lease is not issued: it stays what it is, or ends because its mission is over.
Kept(l) ==
    /\ (sup'.lease[l].st = "free") <=> (sup.lease[l].st = "free")
    /\ sup'.lease[l].st = "free" => sup'.lease[l].call = "NONE" /\ l \notin told'
    /\ Unconfirmed(l)' => Unconfirmed(l) /\ MissionOf(l)' = MissionOf(l)
    /\ Unconfirmed(l) => Unconfirmed(l)' \/ Over(MissionOf(l))
    /\ Unconfirmed(l)' /\ Stopped(l)' => Over(MissionOf(l))

\* The lease is issued, to a mission that was admitted.
Issued(l) ==
    /\ sup.lease[l].st = "free" /\ sup'.lease[l].st = "granted"
    /\ MissionOf(l)' \in rt.seen
    /\ sup'.lease[l].call = "NONE" /\ l \notin told'

\* All that a step may do to a lease.
Moves(l) == Kept(l) \/ Issued(l)

\* What is over stays over, and the missions that were admitted are remembered.
Ahead == /\ rt.seen \subseteq rt'.seen
         /\ \A m \in Mission \cup {NoMission} : Over(m) => Over(m)'

\* A lease whose mission is not over lasts.
Lasting ==
    \A l \in LeaseId : Unconfirmed(l) /\ ~Over(MissionOf(l)) =>
                         Unconfirmed(l)' /\ MissionOf(l)' = MissionOf(l)

\* The types of a lease's fields.
LEMMA LeaseTypes ==
    ASSUME TypeOK
    PROVE  /\ sup \in Supervisor!Memory
           /\ \A l \in LeaseId : /\ sup.lease[l] \in Supervisor!Lease
                                 /\ MissionOf(l) \in Mission \cup {NoMission}
                                 /\ sup.lease[l].left \in 0 .. LeaseTime
  BY DEF TypeOK, Supervisor!TypeOK, Supervisor!Memory, Supervisor!Lease, MissionOf

\* A lease that a handler moves onward is kept or ends with its mission.
LEMMA OnwardKept ==
    ASSUME LeaseInv, told' \subseteq told, NEW l \in LeaseId, Onward(sup.lease[l], sup'.lease[l])
    PROVE  Kept(l)
  BY DEF LeaseInv, Onward, Kept, Unconfirmed, MissionOf, Stopped

\* When every lease moves like this, ids stay issued once, a confirmed lease is of a mission
\* that is over, and a lease whose mission is not over lasts.
LEMMA Frame ==
    ASSUME TypeOK, TypeOK', LeaseInv, Ahead, \A l \in LeaseId : Moves(l)
    PROVE  LeaseInv' /\ Lasting
  <1> DEFINE ends(m) == m \in rt'.seen /\ m # rt'.mission /\ m # mover'
             Good(l) ==
                /\ sup'.lease[l].st = "free" => sup'.lease[l].call = "NONE" /\ l \notin told'
                /\ Unconfirmed(l)' => MissionOf(l)' \in rt'.seen
                /\ Unconfirmed(l)' /\ Stopped(l)' => ends(MissionOf(l)')
                /\ Unconfirmed(l) /\ ~Over(MissionOf(l)) =>
                     Unconfirmed(l)' /\ MissionOf(l)' = MissionOf(l)
  <1>1. ASSUME NEW l \in LeaseId, Kept(l)
        PROVE  Good(l)
    <2>1. PICK m \in Mission \cup {NoMission} : m = MissionOf(l)
      BY LeaseTypes
    <2>2. Over(m) => ends(m)
      BY DEF Ahead, Over
    <2>3. Unconfirmed(l)' => Unconfirmed(l) /\ MissionOf(l)' = m
      BY <1>1, <2>1 DEF Kept
    <2>4. Unconfirmed(l)' /\ Stopped(l)' => Over(m)
      BY <1>1, <2>1 DEF Kept
    <2>5. Unconfirmed(l) => Unconfirmed(l)' \/ Over(m)
      BY <1>1, <2>1 DEF Kept
    <2>6. Unconfirmed(l) => m \in rt.seen
      BY <2>1 DEF LeaseInv
    <2>7. sup'.lease[l].st = "free" => sup'.lease[l].call = "NONE" /\ l \notin told'
      BY <1>1 DEF Kept
    <2>8. Unconfirmed(l)' => MissionOf(l)' \in rt'.seen
      BY <2>3, <2>6 DEF Ahead
    <2>9. Unconfirmed(l) /\ ~Over(MissionOf(l)) => Unconfirmed(l)' /\ MissionOf(l)' = MissionOf(l)
      BY <2>1, <2>3, <2>5
    <2>10. Unconfirmed(l)' /\ Stopped(l)' => ends(MissionOf(l)')
      BY <2>2, <2>3, <2>4
    <2> QED BY <2>7, <2>8, <2>9, <2>10
  <1>2. ASSUME NEW l \in LeaseId, Issued(l)
        PROVE  Good(l)
    BY <1>2 DEF Issued, Ahead, Unconfirmed, Supervisor!IsUnconfirmed, Stopped
  <1>3. \A l \in LeaseId : Good(l)
    BY <1>1, <1>2 DEF Moves
  <1>4. LeaseInv'
    BY <1>3 DEF LeaseInv, Stopped, Over
  <1> QED BY <1>3, <1>4 DEF Lasting

\* What is on the wire stays true.
LEMMA WireKept ==
    ASSUME Ahead, \A l \in LeaseId : Moves(l)
    PROVE  \A r \in Request : Wire(r) => Wire(r)'
  <1> SUFFICES ASSUME NEW r \in Request, Wire(r)
               PROVE  Wire(r)'
    OBVIOUS
  <1>1. r.mission \in Mission \cup {NoMission}
    BY DEF Request, MaybeMission
  <1>2. r.kind # "none" => r.mission \in rt'.seen
    BY DEF Wire, Ahead
  <1>3. r.kind = "release" => Over(r.mission)'
    BY <1>1 DEF Wire, Ahead
  <1>4. ASSUME r.kind \in {"renew", "release"}
        PROVE  /\ r.lease \in LeaseId /\ sup'.lease[r.lease].st # "free"
               /\ Unconfirmed(r.lease)' => MissionOf(r.lease)' = r.mission
    <2>1. /\ r.lease \in LeaseId /\ sup.lease[r.lease].st # "free"
          /\ Unconfirmed(r.lease) => MissionOf(r.lease) = r.mission
      BY <1>4 DEF Wire
    <2>2. Kept(r.lease)
      BY <2>1 DEF Moves, Issued
    <2> QED BY <2>1, <2>2 DEF Kept
  <1> QED BY <1>2, <1>3, <1>4 DEF Wire

\* The motion keeps its lease, unless another begins.
LEMMA MotionKept ==
    ASSUME TypeOK, Lasting, MotionInv, mover' \in {mover, NoMission}
    PROVE  MotionInv'
  BY DEF Lasting, MotionInv, Over

\* The client's mission is not over, so what it was told stands.
LEMMA HeldKept ==
    ASSUME RuntimeInv, Lasting, cl'.mission = cl.mission,
           NEW l, NEW time, NEW e, Held(l, time, e), NEW later,
           up' /\ e = epoch' + 1 => later <= sup'.lease[l].left
    PROVE  /\ l \in LeaseId /\ Unconfirmed(l)' /\ MissionOf(l)' = cl'.mission
           /\ up' /\ e = epoch' + 1 => later <= sup'.lease[l].left
  BY DEF Held, Lasting, RuntimeInv, Over

-----------------------------------------------------------------------------
(* A step that leaves the client alone.                                    *)

\* The clock of the Supervisor stands, and it grants no shorter time than before.
Generous ==
    \/ epoch' = epoch + 1
    \/ /\ epoch' = epoch /\ (up' => up)
       /\ \A l \in LeaseId : Unconfirmed(l)' => sup'.lease[l].left >= sup.lease[l].left

\* A reply that arrives is for a request the client waits for, and true.
Truthful ==
    \/ reply' = reply
    \/ reply' = NoReply
    \/ /\ cl.waiting /\ reply'.epoch \in 0 .. epoch' + 1
       /\ reply'.granted => Held(reply.lease, LeaseTime - cl.waited, reply.epoch)'

\* The client, the mission and the epochs to come are left alone.
Quiet ==
    /\ cl' = cl /\ mover' \in {mover, NoMission}
    /\ rt'.mission = rt.mission /\ rt'.seen = rt.seen
    /\ (rt'.run = "idle") <=> (rt.run = "idle")
    /\ up' \/ epoch' < MaxEpoch
    /\ beat' \in 0 .. epoch' + 1
    /\ \A n \in 1 .. Slots : requests'[n] = requests[n] \/ requests'[n] = NoRequest

\* A step of the Supervisor or of the robot: the client still holds what it held, since its
\* mission is not over and its time is not shortened by others.
LEMMA QuietStep ==
    ASSUME Inv, TypeOK', DiskInv', Quiet, Generous, Truthful, \A l \in LeaseId : Moves(l)
    PROVE  Inv'
  <1>1. /\ TypeOK /\ LeaseInv /\ RuntimeInv /\ EpochInv /\ ClientInv /\ RequestInv /\ MotionInv
        /\ epoch \in Nat /\ epoch' \in Nat /\ epoch' \in {epoch, epoch + 1}
        /\ cl \in Client /\ requests \in [1 .. Slots -> Request] /\ reply \in Reply
        /\ NoMission \notin rt.seen
    BY Constants DEF Inv, TypeOK, Supervisor!TypeOK, Generous, Runtime
  <1>2. Ahead
    BY <1>1 DEF Ahead, Over, Quiet
  <1>3. LeaseInv' /\ Lasting
    BY <1>1, <1>2, Frame
  <1>4. MotionInv'
    BY <1>1, <1>3, MotionKept DEF Quiet
  <1>5. RuntimeInv'
    BY <1>1 DEF RuntimeInv, Quiet
  <1>6. EpochInv'
    <2>1. reply'.epoch \in 0 .. epoch' + 1
      BY <1>1 DEF Truthful, EpochInv, NoReply
    <2>2. cl'.epoch \in 0 .. epoch' + 1 /\ cl'.leaseEpoch \in 0 .. epoch' + 1
      BY <1>1 DEF EpochInv, Quiet
    <2> QED BY <2>1, <2>2 DEF EpochInv, Quiet
  <1>7. ASSUME NEW l, NEW time \in 0 .. LeaseTime, NEW e \in 0 .. epoch + 1, Held(l, time, e)
        PROVE  /\ l \in LeaseId /\ Unconfirmed(l)' /\ MissionOf(l)' = cl'.mission
               /\ up' /\ e = epoch' + 1 => time <= sup'.lease[l].left
    <2>1. l \in LeaseId /\ Unconfirmed(l)' /\ MissionOf(l)' = cl'.mission
      BY <1>1, <1>3, <1>7 DEF Held, Lasting, RuntimeInv, Over, Quiet
    <2>2. ASSUME up', e = epoch' + 1 PROVE time <= sup'.lease[l].left
      <3>0. epoch' # epoch + 1
        BY <1>1, <1>7, <2>2
      <3>1. epoch' = epoch /\ up /\ sup'.lease[l].left >= sup.lease[l].left
        BY <2>1, <2>2, <3>0, Zenon DEF Generous
      <3>2. time <= sup.lease[l].left
        BY <1>7, <2>2, <3>1 DEF Held
      <3>3. sup.lease[l].left \in Nat /\ sup'.lease[l].left \in Nat
        BY <1>1, <2>1, LeaseTypes, Constants
           DEF TypeOK, Supervisor!TypeOK, Supervisor!Memory, Supervisor!Lease
      <3> QED BY <3>1, <3>2, <3>3, Constants
    <2> QED BY <2>1, <2>2
  <1>8. ClientInv'
    <2>1. cl'.lease # NoLeaseId => Held(cl.lease, cl.left, cl.leaseEpoch)'
      <3>1. cl.left \in 0 .. LeaseTime /\ cl.leaseEpoch \in 0 .. epoch + 1
        BY <1>1 DEF Client, EpochInv
      <3> QED BY <1>1, <1>7, <3>1 DEF ClientInv, Held, Quiet
    <2>2. reply'.there => cl'.waiting
      BY <1>1 DEF Truthful, Quiet, ClientInv, NoReply
    <2>3. reply'.there /\ reply'.granted => Held(reply.lease, LeaseTime - cl.waited, reply.epoch)'
      <3>1. CASE reply' = reply
        <4>1. LeaseTime - cl.waited \in 0 .. LeaseTime /\ reply.epoch \in 0 .. epoch + 1
          BY <1>1, Constants DEF Client, EpochInv
        <4> QED BY <1>1, <1>7, <3>1, <4>1 DEF ClientInv, Held, Quiet
      <3> QED BY <3>1 DEF Truthful, NoReply
    <2> QED BY <2>1, <2>2, <2>3 DEF ClientInv
  <1>9. RequestInv'
    <2> SUFFICES ASSUME NEW n \in 1 .. Slots
                 PROVE  /\ Wire(requests[n])'
                        /\ cl'.waiting /\ cl'.call = n => Own(requests[n])'
      BY DEF RequestInv
    <2>1. CASE requests'[n] = requests[n]
      <3>1. Wire(requests[n]) /\ requests[n] \in Request
        BY <1>1 DEF RequestInv
      <3>2. Wire(requests[n])'
        BY <1>2, <2>1, <3>1, WireKept DEF Wire
      <3> QED BY <1>1, <2>1, <3>2 DEF RequestInv, Own, Quiet
    <2>2. CASE requests'[n] = NoRequest
      BY <2>2 DEF NoRequest, Wire, Own
    <2> QED BY <2>1, <2>2 DEF Quiet
  <1> QED BY <1>3, <1>4, <1>5, <1>6, <1>8, <1>9 DEF Inv

\* What the invariant says of the single variables.
LEMMA Basics ==
    ASSUME Inv
    PROVE  /\ Written(sup) /\ LeaseInv
           /\ epoch \in 0 .. MaxEpoch /\ up \in BOOLEAN /\ handed \subseteq LeaseId
           /\ cl \in Client /\ requests \in [1 .. Slots -> Request] /\ reply \in Reply
           /\ beat \in Epoch \cup {0} /\ rt \in Runtime /\ mover \in MaybeMission
           /\ told \subseteq LeaseId
           /\ beat \in 0 .. epoch + 1 /\ (up \/ epoch < MaxEpoch)
           /\ \A l \in LeaseId : sup.lease[l] \in Supervisor!Lease
  BY LeaseTypes DEF Inv, TypeOK, Supervisor!TypeOK, DiskInv, Written, EpochInv

\* A step that leaves the Supervisor alone moves no lease.
LEMMA Still ==
    ASSUME LeaseInv, sup' = sup, told' \subseteq told
    PROVE  \A l \in LeaseId : Moves(l) /\ Unconfirmed(l)' = Unconfirmed(l)
  BY DEF LeaseInv, Moves, Kept, Unconfirmed, MissionOf, Stopped

\* A handler that answers nobody.
LEMMA SupervisorStep ==
    ASSUME Inv, Written(sup'), \A l \in LeaseId : Moves(l), told' \subseteq LeaseId,
           epoch' = epoch, up' = up, handed' = handed, UNCHANGED <<cl, requests, reply>>,
           \A l \in LeaseId : Unconfirmed(l)' => sup'.lease[l].left = sup.lease[l].left,
           rt' \in Runtime, rt'.mission = rt.mission, rt'.seen = rt.seen,
           (rt'.run = "idle") <=> (rt.run = "idle"),
           mover' \in {mover, NoMission}, beat' \in {beat, epoch + 1}
    PROVE  Inv'
  <1>1. TypeOK'
    BY Basics, Constants DEF TypeOK, Supervisor!TypeOK, Written, Epoch, MaybeMission
  <1>2. Quiet
    BY Basics, Constants DEF Quiet
  <1>3. Generous
    BY Basics, <1>1, LeaseTypes DEF Generous, Written, Supervisor!Memory, Supervisor!Lease
  <1> QED BY <1>1, <1>2, <1>3, QuietStep DEF Truthful, DiskInv, Written

\* The node's timer.
LEMMA SupervisorTickGood == ASSUME Inv, SupervisorTick PROVE Inv'
  <1>1. PICK in \in Inputs : sup' = Supervisor!Ticked(sup, in)
    BY DEF SupervisorTick
  <1>2. Written(sup')
    BY <1>1, Basics, TickedEffect DEF Written
  <1>3. \A l \in LeaseId : /\ Onward(sup.lease[l], sup'.lease[l])
                           /\ Unconfirmed(l)' => sup'.lease[l].left = sup.lease[l].left
    BY <1>1, Basics, TickedEffect DEF Written, Unconfirmed
  <1>4. /\ UNCHANGED <<cl, requests, reply>> /\ epoch' = epoch /\ up' = up
        /\ handed' = handed /\ told' = told /\ rt' = rt /\ mover' = mover
        /\ beat' = epoch + 1
    BY DEF SupervisorTick
  <1>5. \A l \in LeaseId : Moves(l)
    <2>1. LeaseInv /\ told' \subseteq told
      BY <1>4, Basics
    <2> QED BY <1>3, <2>1, OnwardKept DEF Moves
  <1>6. rt' \in Runtime /\ told' \subseteq LeaseId
    BY <1>4, Basics
  <1> QED BY <1>2, <1>3, <1>4, <1>5, <1>6, SupervisorStep

\* The answer to a stop call; a confirmed one is of a mission that is over.
LEMMA CallStep ==
    ASSUME Inv, NEW l \in LeaseId, NEW c \in Supervisor!CallState, Answered(l, c),
           sup.lease[l].st # "free",
           c = "STOPPED" => (Unconfirmed(l) => Over(MissionOf(l))),
           told' \subseteq told, epoch' = epoch, up' = up, handed' = handed,
           UNCHANGED <<cl, requests, reply>>,
           rt' \in Runtime, rt'.mission = rt.mission, rt'.seen = rt.seen,
           (rt'.run = "idle") <=> (rt.run = "idle"),
           mover' = mover, beat' = beat
    PROVE  Inv'
  <1>1. /\ Written(sup') /\ sup'.lease[l].call = c /\ sup'.lease[l].st = sup.lease[l].st
        /\ sup'.lease[l].mission = sup.lease[l].mission
        /\ \A k \in LeaseId : /\ k # l => sup'.lease[k] = sup.lease[k]
                              /\ sup'.lease[k].left = sup.lease[k].left
    BY Basics, CallEffect
  <1>2. Kept(l)
    BY <1>1, Basics
       DEF Kept, LeaseInv, Unconfirmed, MissionOf, Stopped, Supervisor!IsUnconfirmed
  <1>3. ASSUME NEW k \in LeaseId, k # l PROVE Kept(k)
    BY <1>1, <1>3, Basics DEF Kept, LeaseInv, Unconfirmed, MissionOf, Stopped
  <1>4. \A k \in LeaseId : Moves(k)
    BY <1>2, <1>3 DEF Moves
  <1> QED BY <1>1, <1>4, Basics, SupervisorStep

\* A stopped result was sent when its mission was over, and it still is.
LEMMA StopResultGood == ASSUME Inv, NEW l \in LeaseId, StopResult(l) PROVE Inv'
  <1>1. /\ sup.lease[l].st # "free" /\ (Unconfirmed(l) => Over(MissionOf(l)))
        /\ "STOPPED" \in Supervisor!CallState
    BY Basics DEF LeaseInv, StopResult, Supervisor!CallState
  <1> QED BY <1>1, Basics, CallStep DEF StopResult, wire, supervisor

\* A stop that failed confirms nothing.
LEMMA StopFailedGood == ASSUME Inv, NEW l \in LeaseId, StopFailed(l) PROVE Inv'
  <1>1. sup.lease[l].st # "free" /\ "FAILED" \in Supervisor!CallState
    BY Basics DEF LeaseInv, StopFailed, Supervisor!CallState
  <1> QED BY <1>1, Basics, CallStep DEF StopFailed, wire

\* The operator's reset asks again and confirms nothing.
LEMMA AskAgainGood == ASSUME Inv, NEW l \in LeaseId, AskAgain(l) PROVE Inv'
  <1>1. sup.lease[l].st # "free" /\ "RUNNING" \in Supervisor!CallState
    BY DEF AskAgain, Supervisor!ResetStopFault, Supervisor!Unconfirmed,
           Supervisor!IsUnconfirmed, Supervisor!CallState
  <1> QED BY <1>1, Basics, CallStep DEF AskAgain, Supervisor!ResetStopFault, Answered, wire

\* A stop goal is accepted or refused, and stops the mission that runs.
LEMMA StopGoalGood == ASSUME Inv, NEW l \in LeaseId, StopGoal(l) PROVE Inv'
  <1>1. sup.lease[l].st # "free"
    BY Basics DEF LeaseInv, StopGoal
  <1>2. PICK c \in {"ACCEPTED", "FAILED"} : Answered(l, c)
    BY DEF StopGoal
  <1>3. rt' \in Runtime /\ rt'.mission = rt.mission /\ rt'.seen = rt.seen
        /\ ((rt'.run = "idle") <=> (rt.run = "idle"))
    BY Basics DEF StopGoal, Runtime
  <1> QED BY <1>1, <1>2, <1>3, Basics, CallStep DEF StopGoal, wire, Supervisor!CallState

\* An idle Runtime at rest: every mission it admitted is over.
LEMMA StopConfirmedGood == ASSUME Inv, NEW l \in LeaseId, StopConfirmed(l) PROVE Inv'
  <1>1. /\ sup' = sup /\ epoch' = epoch /\ up' = up /\ handed' = handed /\ rt' = rt
        /\ UNCHANGED <<cl, requests, reply>> /\ mover' = mover /\ beat' = beat
        /\ told' = told \cup {l}
    BY DEF StopConfirmed, supervisor, wire
  <1>2. RuntimeInv
    BY DEF Inv
  <1>3. sup.lease[l].st # "free" /\ (Unconfirmed(l) => Over(MissionOf(l)))
    <2>1. rt.mission = NoMission /\ mover = NoMission /\ NoMission \notin rt.seen
      BY <1>2, Basics, Constants DEF StopConfirmed, RuntimeInv, Runtime
    <2> QED BY <2>1, Basics DEF LeaseInv, StopConfirmed, Over
  <1>4. ASSUME NEW k \in LeaseId PROVE Kept(k)
    BY <1>1, <1>3, Basics DEF LeaseInv, Kept, Unconfirmed, MissionOf, Stopped
  <1>5. \A k \in LeaseId : Moves(k)
    BY <1>4 DEF Moves
  <1> QED BY <1>1, <1>5, Basics, SupervisorStep

\* The operator's cancel changes what the Runtime does, not its mission.
LEMMA CancelGood == ASSUME Inv, Cancel PROVE Inv'
  <1>1. /\ sup' = sup /\ epoch' = epoch /\ up' = up /\ handed' = handed
        /\ UNCHANGED <<cl, requests, reply>> /\ mover' = mover /\ beat' = beat
        /\ told' = told
    BY DEF Cancel, supervisor, wire
  <1>2. rt' \in Runtime /\ rt'.mission = rt.mission /\ rt'.seen = rt.seen
        /\ ((rt'.run = "idle") <=> (rt.run = "idle"))
    BY Basics DEF Cancel, Runtime
  <1> QED BY <1>1, <1>2, Basics, Still, SupervisorStep

\* The robot at rest needs no lease.
LEMMA MotionEndsGood == ASSUME Inv, MotionEnds PROVE Inv'
  <1>1. /\ sup' = sup /\ epoch' = epoch /\ up' = up /\ handed' = handed
        /\ UNCHANGED <<cl, requests, reply>> /\ mover' = NoMission /\ beat' = beat
        /\ told' = told /\ rt' = rt
    BY DEF MotionEnds, supervisor, wire
  <1> QED BY <1>1, Basics, Still, SupervisorStep

\* A lost request asks for nothing.
LEMMA LoseRequestGood == ASSUME Inv, NEW n \in 1 .. Slots, LoseRequest(n) PROVE Inv'
  <1>1. /\ sup' = sup /\ epoch' = epoch /\ up' = up /\ handed' = handed
        /\ cl' = cl /\ reply' = reply /\ mover' = mover /\ beat' = beat
        /\ told' = told /\ rt' = rt /\ requests' = [requests EXCEPT ![n] = NoRequest]
    BY DEF LoseRequest, supervisor
  <1>2. \A l \in LeaseId : Moves(l)
    BY <1>1, Basics, Still
  <1>3. requests' \in [1 .. Slots -> Request]
    BY <1>1, Basics DEF Request, NoRequest, MaybeMission, MaybeLease
  <1>4. TypeOK' /\ DiskInv'
    BY <1>1, <1>3, Basics DEF TypeOK, Supervisor!TypeOK, DiskInv, Written
  <1>5. Quiet
    BY <1>1, Basics DEF Quiet
  <1>6. Generous
    BY <1>1, Basics, Constants DEF Generous, Supervisor!Lease
  <1> QED BY <1>1, <1>2, <1>4, <1>5, <1>6, QuietStep DEF Truthful

\* A Supervisor that is down changes no lease; the client's time runs on.
LEMMA SupervisorCrashGood == ASSUME Inv, SupervisorCrash PROVE Inv'
  <1>1. /\ sup' = sup /\ epoch' = epoch /\ up' = FALSE /\ epoch < MaxEpoch /\ handed' = handed
        /\ UNCHANGED <<cl, requests, reply>> /\ mover' = mover /\ beat' = beat
        /\ told' = told /\ rt' = rt
    BY DEF SupervisorCrash, Supervisor!Crash, wire
  <1>2. \A l \in LeaseId : Moves(l)
    BY <1>1, Basics, Still
  <1>3. TypeOK' /\ DiskInv'
    BY <1>1, Basics DEF TypeOK, Supervisor!TypeOK, DiskInv, Written
  <1>4. Quiet
    BY <1>1, Basics DEF Quiet
  <1>5. Generous
    BY <1>1, Basics, Constants DEF Generous, Supervisor!Lease
  <1> QED BY <1>1, <1>2, <1>3, <1>4, <1>5, QuietStep DEF Truthful

\* A restart finds every unconfirmed lease in the file; a new epoch answers for none of the old time.
LEMMA SupervisorRestartGood == ASSUME Inv, SupervisorRestart PROVE Inv'
  <1>1. /\ sup' = Supervisor!Start(TRUE) /\ epoch' = epoch + 1 /\ ~up /\ up' = TRUE
        /\ handed' = handed /\ UNCHANGED <<cl, requests, reply>> /\ mover' = mover
        /\ beat' = beat /\ told' = {} /\ rt' = rt
    BY DEF SupervisorRestart, wire
  <1>2. /\ Written(sup')
        /\ \A l \in LeaseId :
              /\ sup'.lease[l].call = "NONE"
              /\ (sup'.lease[l].st = "free") <=> (sup.lease[l].st = "free")
              /\ Unconfirmed(l)' <=> Unconfirmed(l)
              /\ Unconfirmed(l) => MissionOf(l)' = MissionOf(l)
    <2>1. \A l \in LeaseId : Unconfirmed(l) => MissionOf(l) # NoMission
      BY Basics, Constants DEF LeaseInv, Runtime
    <2> QED BY <1>1, <2>1, Basics, StartEffect DEF Unconfirmed, MissionOf
  <1>3. \A l \in LeaseId : Moves(l)
    BY <1>1, <1>2 DEF Moves, Kept, Stopped
  <1>4. TypeOK' /\ DiskInv'
    <2>1. epoch < MaxEpoch
      BY <1>1, Basics
    <2>2. epoch' \in 0 .. MaxEpoch /\ up' \in BOOLEAN
      BY <1>1, <2>1, Basics, Constants
    <2> QED BY <1>1, <1>2, <2>2, Basics DEF TypeOK, Supervisor!TypeOK, DiskInv, Written
  <1>5. Quiet
    BY <1>1, Basics, Constants DEF Quiet
  <1> QED BY <1>1, <1>3, <1>4, <1>5, QuietStep DEF Truthful, Generous

(* Serve: the request is taken off the wire, and only the one that asks for *)
(* the client's mission is answered with a lease.                           *)
LEMMA ServeStep ==
    ASSUME Inv, NEW n \in 1 .. Slots, Written(sup'), \A l \in LeaseId : Moves(l),
           NEW granted \in BOOLEAN, NEW l \in MaybeLease, Answer(n, granted, l),
           granted => /\ l \in LeaseId /\ Unconfirmed(l)' /\ MissionOf(l)' = requests[n].mission
                      /\ sup'.lease[l].left = LeaseTime,
           requests[n].kind # "none",
           \A k \in LeaseId : Unconfirmed(k)' => sup'.lease[k].left >= sup.lease[k].left,
           epoch' = epoch, up' = up, handed' \subseteq LeaseId,
           UNCHANGED <<cl, beat, rt, mover, told>>
    PROVE  Inv'
  <1>1. requests' = [requests EXCEPT ![n] = NoRequest] /\ requests' \in [1 .. Slots -> Request]
    BY Basics DEF Answer, Request, NoRequest, MaybeMission, MaybeLease
  <1>2. \/ reply' = reply
        \/ /\ reply' = [there |-> TRUE, granted |-> granted, lease |-> l, epoch |-> epoch + 1]
           /\ cl.waiting /\ cl.call = n
    BY DEF Answer
  <1>3. reply' \in Reply
    <2>1. epoch + 1 \in Epoch \cup {0}
      BY Basics, Constants DEF Epoch
    <2>2. reply \in Reply
      BY Basics
    <2>3. [there |-> TRUE, granted |-> granted, lease |-> l, epoch |-> epoch + 1] \in Reply
      BY <2>1 DEF Reply
    <2> QED BY <1>2, <2>2, <2>3
  <1>4. TypeOK' /\ DiskInv'
    BY <1>1, <1>3, Basics DEF TypeOK, Supervisor!TypeOK, DiskInv, Written
  <1>5. Quiet
    BY <1>1, Basics DEF Quiet
  <1>6. Truthful
    <2>1. ASSUME reply' # reply PROVE Truthful
      <3>1. /\ reply' = [there |-> TRUE, granted |-> granted, lease |-> l, epoch |-> epoch + 1]
            /\ cl.waiting /\ cl.call = n
        BY <1>2, <2>1
      <3>2. requests[n].mission = cl.mission
        BY <3>1 DEF Inv, RequestInv, Own
      <3>3. granted => Held(reply.lease, LeaseTime - cl.waited, reply.epoch)'
        <4>1. LeaseTime - cl.waited <= LeaseTime
          BY Basics, Constants DEF Client
        <4> QED BY <3>1, <3>2, <4>1 DEF Held
      <3>4. reply'.granted = granted /\ reply'.epoch = epoch + 1
        BY <3>1
      <3> QED BY <3>1, <3>3, <3>4, Basics DEF Truthful
    <2> QED BY <2>1 DEF Truthful
  <1>7. Generous
    BY DEF Generous
  <1> QED BY <1>4, <1>5, <1>6, <1>7, QuietStep

\* A request gives a lease to the mission it names, renews one that stands, or ends one of a
\* mission that is over; a late or lost one does no more.
LEMMA ServeGood == ASSUME Inv, NEW n \in 1 .. Slots, Serve(n) PROVE Inv'
  <1> DEFINE r == requests[n]
  <1>1. PICK in \in Inputs :
          LET s == Supervisor!Ticked(sup, in)
              could == Grantable(s, in.healthy, r)
          IN  IF r.kind = "release"
              THEN /\ sup' = IF r.epoch = epoch + 1 /\ s.lease[r.lease].st = "granted"
                             THEN Supervisor!Persist([s EXCEPT !.lease[r.lease] =
                                                        Supervisor!NoLease("stopped")], TRUE)
                             ELSE s
                   /\ Answer(n, FALSE, NoLeaseId)
                   /\ UNCHANGED handed
              ELSE IF could = {}
              THEN /\ sup' = s
                   /\ Answer(n, FALSE, NoLeaseId)
                   /\ UNCHANGED handed
              ELSE \E l \in could :
                   /\ sup' = Supervisor!Persist(
                                Supervisor!Granted(s, l, r.mission), TRUE)
                   /\ handed' = handed \cup {l}
                   /\ Answer(n, TRUE, l)
    BY Zenon DEF Serve
  <1> DEFINE s == Supervisor!Ticked(sup, in)
             could == Grantable(s, in.healthy, r)
  <1>2. /\ epoch' = epoch /\ up' = up /\ UNCHANGED <<cl, beat, rt, mover, told>>
        /\ r.kind # "none"
    BY DEF Serve
  <1>3. /\ Written(s)
        /\ \A l \in LeaseId :
              /\ Onward(sup.lease[l], s.lease[l])
              /\ Supervisor!IsUnconfirmed(s.lease[l]) => s.lease[l].left = sup.lease[l].left
    BY Basics, TickedEffect DEF Written
  <1>4. /\ r \in Request /\ Wire(r) /\ told' = told /\ LeaseInv
        /\ NoLeaseId \in MaybeLease
        /\ \A l \in LeaseId : s.lease[l] \in Supervisor!Lease
    BY <1>2, <1>3, Basics DEF Inv, RequestInv, MaybeLease, Written, Supervisor!Memory
  <1> HIDE DEF s, r
  <1>5. ASSUME NEW l \in LeaseId, sup'.lease[l] = s.lease[l]
        PROVE  /\ Moves(l)
               /\ Unconfirmed(l)' => sup'.lease[l].left >= sup.lease[l].left
    <2>1. Onward(sup.lease[l], sup'.lease[l])
      BY <1>3, <1>5
    <2>2. Kept(l)
      BY <1>4, <2>1, OnwardKept
    <2>3. Unconfirmed(l)' => sup'.lease[l].left = sup.lease[l].left
      BY <1>3, <1>5 DEF Unconfirmed
    <2>4. sup.lease[l].left \in Nat
      BY Basics, Constants DEF Supervisor!Lease
    <2> QED BY <2>2, <2>3, <2>4 DEF Moves
  <1>6. CASE sup' = s /\ Answer(n, FALSE, NoLeaseId) /\ UNCHANGED handed
    <2>1. Written(sup') /\ handed' \subseteq LeaseId
      BY <1>3, <1>6, Basics
    <2>2. \A l \in LeaseId : Moves(l) /\ (Unconfirmed(l)' => sup'.lease[l].left >= sup.lease[l].left)
      BY <1>5, <1>6
    <2> QED BY <1>2, <1>4, <1>6, <2>1, <2>2, ServeStep DEF r
  <1>7. CASE /\ r.kind = "release" /\ s.lease[r.lease].st = "granted"
             /\ sup' = Supervisor!Persist([s EXCEPT !.lease[r.lease] =
                                                        Supervisor!NoLease("stopped")], TRUE)
             /\ Answer(n, FALSE, NoLeaseId) /\ UNCHANGED handed
    <2> DEFINE q == Supervisor!NoLease("stopped")
    <2>0. PICK k \in LeaseId : k = r.lease
      BY <1>4, <1>7 DEF Wire
    <2>1. /\ k \in LeaseId /\ sup.lease[k].st # "free" /\ Over(r.mission)
          /\ Unconfirmed(k) => MissionOf(k) = r.mission
      BY <1>4, <1>7, <2>0 DEF Wire
    <2>2. q \in Supervisor!Lease /\ q.st = "stopped" /\ q.call = "NONE"
      BY NoLeaseType DEF Supervisor!LeaseState
    <2>3. /\ Written(sup') /\ sup'.lease[k] = q
          /\ \A l \in LeaseId : l # k => sup'.lease[l] = s.lease[l]
      <3>1. sup' = Supervisor!Persist([s EXCEPT !.lease[k] = q], TRUE)
        BY <1>7, <2>0
      <3>2. s \in Supervisor!Memory
        BY <1>3 DEF Written
      <3> DEFINE w == Supervisor!Persist([s EXCEPT !.lease[k] = q], TRUE)
      <3> HIDE DEF q
      <3>3. /\ Written(w) /\ w.lease[k] = q
            /\ \A l \in LeaseId : l # k => w.lease[l] = s.lease[l]
        BY <2>2, <3>2, ReplaceEffect
      <3> HIDE DEF w
      <3>4. sup' = w
        BY <3>1 DEF w
      <3> QED BY <3>3, <3>4
    <2> HIDE DEF q
    <2>4. ~Unconfirmed(k)' /\ Kept(k)
      <3>1. ~Unconfirmed(k)' /\ sup'.lease[k].st # "free"
        BY <2>2, <2>3 DEF Unconfirmed, Supervisor!IsUnconfirmed
      <3> QED BY <2>1, <3>1 DEF Kept
    <2>5. \A l \in LeaseId : Moves(l) /\ (Unconfirmed(l)' => sup'.lease[l].left >= sup.lease[l].left)
      BY <1>5, <2>1, <2>3, <2>4 DEF Moves
    <2>6. handed' \subseteq LeaseId
      BY <1>7, Basics
    <2> QED BY <1>2, <1>4, <1>7, <2>3, <2>5, <2>6, ServeStep DEF r
  <1>8. ASSUME NEW l \in could, r.kind # "release",
               sup' = Supervisor!Persist(Supervisor!Granted(s, l, r.mission), TRUE),
               handed' = handed \cup {l}, Answer(n, TRUE, l)
        PROVE  Inv'
    <2>1. l \in LeaseId /\ r.mission \in Mission /\ r.mission \in rt.seen
      BY <1>2, <1>4, <1>8, Basics DEF Grantable, Wire, Runtime, r
    <2>2. /\ Written(sup')
          /\ sup'.lease[l].st = "granted" /\ sup'.lease[l].mission = r.mission
          /\ sup'.lease[l].left = LeaseTime /\ sup'.lease[l].call = s.lease[l].call
          /\ \A k \in LeaseId : k # l => sup'.lease[k] = s.lease[k]
      <3>1. s \in Supervisor!Memory /\ r.mission \in Mission
        BY <1>3, <2>1 DEF Written
      <3>2. Grants(sup', s, l, r.mission)
        BY <1>8, <2>1, <3>1, GrantedEffect
      <3> QED BY <3>2 DEF Grants
    <2>3. Onward(sup.lease[l], s.lease[l])
      BY <1>3, <2>1
    <2>4. Moves(l)
      <3>1. CASE r.kind = "acquire"
        <4>1. s.lease[l].st = "free"
          BY <1>8, <3>1 DEF Grantable
        <4>2. sup.lease[l].st = "free" /\ s.lease[l].call = "NONE" /\ l \notin told
          BY <1>4, <2>1, <2>3, <4>1 DEF Onward, LeaseInv
        <4> QED BY <1>4, <2>1, <2>2, <4>2 DEF Moves, Issued, MissionOf
      <3>2. CASE r.kind # "acquire"
        <4>1. r.kind = "renew" /\ l = r.lease /\ s.lease[l].st = "granted"
          BY <1>2, <1>4, <1>8, <3>2 DEF Grantable, Request
        <4>2. Unconfirmed(l) /\ MissionOf(l) = r.mission /\ sup.lease[l].st # "free"
          BY <1>4, <2>3, <4>1 DEF Onward, Unconfirmed, Supervisor!IsUnconfirmed, Wire
        <4>3. Unconfirmed(l)' /\ MissionOf(l)' = MissionOf(l) /\ sup'.lease[l].st # "free"
          BY <2>2, <4>2 DEF Unconfirmed, MissionOf, Supervisor!IsUnconfirmed
        <4>4. Stopped(l)' => Stopped(l)
          BY <1>4, <2>2, <2>3 DEF Stopped, Onward
        <4>5. Stopped(l)' => Over(MissionOf(l))
          BY <1>4, <2>1, <4>2, <4>4 DEF LeaseInv, Stopped
        <4> QED BY <4>2, <4>3, <4>5 DEF Moves, Kept
      <3> QED BY <3>1, <3>2
    <2>5. sup.lease[l].left \in 0 .. LeaseTime
      BY <2>1, Basics DEF Supervisor!Lease
    <2>6. \A k \in LeaseId : Moves(k) /\ (Unconfirmed(k)' => sup'.lease[k].left >= sup.lease[k].left)
      BY <1>5, <2>2, <2>4, <2>5, Constants
    <2>7. Unconfirmed(l)' /\ MissionOf(l)' = r.mission /\ handed' \subseteq LeaseId
          /\ l \in MaybeLease
      BY <1>8, <2>1, <2>2, Basics DEF Unconfirmed, MissionOf, Supervisor!IsUnconfirmed, MaybeLease
    <2> QED BY <1>2, <1>8, <2>1, <2>2, <2>6, <2>7, ServeStep DEF r
  <1> QED BY <1>1, <1>6, <1>7, <1>8 DEF s

-----------------------------------------------------------------------------
(* A step of the client or of the Runtime: the Supervisor does nothing.    *)

\* What the client holds, waits for and has sent after the step is true.
Sound ==
    /\ cl' \in Client /\ requests' \in [1 .. Slots -> Request]
    /\ {cl'.epoch, cl'.leaseEpoch} \subseteq 0 .. epoch + 1
    /\ cl'.lease # NoLeaseId => Held(cl.lease, cl.left, cl.leaseEpoch)'
    /\ \/ reply' = NoReply
       \/ /\ reply' = reply /\ cl'.mission = cl.mission
          /\ cl'.waiting = cl.waiting /\ cl'.waited = cl.waited
    /\ \A n \in 1 .. Slots : /\ requests'[n] = requests[n] \/ Wire(requests[n])'
                             /\ cl'.waiting /\ cl'.call = n => Own(requests[n])'

\* A step of the client or the Runtime keeps the invariant when what the client says is true.
LEMMA ClientStep ==
    ASSUME Inv, Sound, Ahead, RuntimeInv', MotionInv', UNCHANGED <<supervisor, told>>,
           rt' \in Runtime, mover' \in MaybeMission, beat' \in {beat, 0}
    PROVE  Inv'
  <1>1. /\ epoch' = epoch /\ up' = up /\ sup' = sup /\ handed' = handed /\ told' = told
    BY DEF supervisor
  <1>2. \A l \in LeaseId : Moves(l)
    BY <1>1, Basics, Still
  <1>3. reply' \in Reply /\ reply'.epoch \in 0 .. epoch + 1
    <2>1. NoReply \in Reply /\ NoReply.epoch \in 0 .. epoch + 1
      BY Basics, Constants DEF NoReply, Reply, MaybeLease
    <2> QED BY <2>1, Basics DEF Sound, Inv, EpochInv
  <1>4. TypeOK' /\ DiskInv'
    BY <1>1, <1>3, Basics DEF TypeOK, Supervisor!TypeOK, DiskInv, Written, Sound
  <1>5. LeaseInv'
    BY <1>2, <1>4, Basics, Frame DEF Inv
  <1>6. EpochInv'
    <2>1. beat' \in 0 .. epoch + 1
      BY Basics
    <2> QED BY <1>1, <1>3, <2>1, Basics DEF EpochInv, Sound
  <1>7. ClientInv'
    <2>1. reply' = NoReply => ~reply'.there
      BY DEF NoReply
    <2>2. reply' = reply /\ cl'.mission = cl.mission /\ cl'.waited = cl.waited
            /\ reply'.there /\ reply'.granted => Held(reply.lease, LeaseTime - cl.waited, reply.epoch)'
      BY <1>1 DEF Inv, ClientInv, Held, Unconfirmed, MissionOf
    <2>3. reply'.there => cl'.waiting
      BY <2>1 DEF Inv, ClientInv, Sound
    <2> QED BY <2>1, <2>2, <2>3 DEF ClientInv, Sound
  <1>8. RequestInv'
    <2> SUFFICES ASSUME NEW n \in 1 .. Slots
                 PROVE  /\ Wire(requests[n])'
                        /\ cl'.waiting /\ cl'.call = n => Own(requests[n])'
      BY DEF RequestInv
    <2>1. ASSUME requests'[n] = requests[n] PROVE Wire(requests[n])'
      <3>1. Wire(requests[n]) /\ requests[n] \in Request
        BY Basics DEF Inv, RequestInv
      <3> QED BY <1>2, <2>1, <3>1, WireKept DEF Wire
    <2> QED BY <2>1 DEF Sound
  <1> QED BY <1>4, <1>5, <1>6, <1>7, <1>8 DEF Inv

\* A handler of the client: the Runtime and the wire do nothing either.
LEMMA HandlerStep ==
    ASSUME Inv, UNCHANGED <<supervisor, requests, rt, mover, told>>, beat' \in {beat, 0},
           cl' \in Client, cl'.mission = cl.mission,
           {cl'.epoch, cl'.leaseEpoch} \subseteq 0 .. epoch + 1,
           cl'.lease # NoLeaseId => Held(cl'.lease, cl'.left, cl'.leaseEpoch),
           cl'.waiting => cl.waiting, cl'.waiting => cl'.call = cl.call,
           cl'.mission = NoMission => cl'.lease = NoLeaseId,
           \/ reply' = NoReply
           \/ reply' = reply /\ cl'.waiting = cl.waiting /\ cl'.waited = cl.waited
    PROVE  Inv'
  <1>1. /\ epoch' = epoch /\ up' = up /\ sup' = sup /\ told' = told /\ rt' = rt /\ mover' = mover
        /\ requests' = requests
    BY DEF supervisor
  <1>2. cl'.lease # NoLeaseId => Held(cl.lease, cl.left, cl.leaseEpoch)'
    BY <1>1 DEF Held, Unconfirmed, MissionOf
  <1>3. \A n \in 1 .. Slots : cl'.waiting /\ cl'.call = n => Own(requests[n])'
    BY <1>1 DEF Inv, RequestInv, Own
  <1>4. Sound
    BY <1>1, <1>2, <1>3, Basics DEF Sound
  <1>5. Ahead /\ MotionInv' /\ RuntimeInv'
    BY <1>1 DEF Inv, Ahead, Over, MotionInv, RuntimeInv, Unconfirmed, MissionOf
  <1> QED BY <1>1, <1>4, <1>5, Basics, ClientStep

\* A heartbeat gives the client no time.
LEMMA HeartbeatGood == ASSUME Inv, Heartbeat PROVE Inv'
  <1> DEFINE left == IF beat = cl.epoch THEN cl.left ELSE 0
  <1>1. cl \in Client /\ beat \in Epoch \cup {0} /\ left \in 0 .. LeaseTime
    BY Basics, Constants DEF Client
  <1>2. cl' = [cl EXCEPT !.epoch = beat, !.left = left, !.fresh = HeartbeatTimeout]
    BY <1>1 DEF Heartbeat, Client
  <1> HIDE DEF left
  <1>3. /\ cl' \in Client /\ cl'.mission = cl.mission /\ cl'.lease = cl.lease
        /\ cl'.leaseEpoch = cl.leaseEpoch /\ cl'.epoch = beat /\ cl'.waiting = cl.waiting
        /\ cl'.call = cl.call /\ cl'.waited = cl.waited /\ cl'.left = left
    BY <1>1, <1>2, Constants DEF Client
  <1>4. left <= cl.left
    BY <1>1, Constants DEF left, Client
  <1>5. cl.lease # NoLeaseId => Held(cl.lease, left, cl.leaseEpoch)
    <2>1. cl.lease # NoLeaseId => sup.lease[cl.lease].left \in Nat
      BY Basics, Constants DEF Inv, ClientInv, Held, Supervisor!Lease
    <2>2. cl.left \in Nat /\ left \in Nat
      BY <1>1, Constants DEF Client
    <2> QED BY <1>4, <2>1, <2>2 DEF Inv, ClientInv, Held
  <1> QED BY <1>3, <1>5, Basics, HandlerStep DEF Heartbeat, Inv, RuntimeInv, EpochInv

\* A snapshot only takes time from the client.
LEMMA SnapshotGood == ASSUME Inv, Snapshot PROVE Inv'
  <1>1. cl \in Client /\ cl' = [cl EXCEPT !.left = 0, !.denied = TRUE]
    BY Basics DEF Snapshot
  <1>2. /\ cl' \in Client /\ cl'.mission = cl.mission /\ cl'.lease = cl.lease
        /\ cl'.leaseEpoch = cl.leaseEpoch /\ cl'.epoch = cl.epoch /\ cl'.waiting = cl.waiting
        /\ cl'.call = cl.call /\ cl'.waited = cl.waited /\ cl'.left = 0
    BY <1>1, Constants DEF Client
  <1>3. cl.lease # NoLeaseId => Held(cl.lease, 0, cl.leaseEpoch)
    <2>1. cl.lease # NoLeaseId => 0 <= sup.lease[cl.lease].left
      BY Basics, Constants DEF Inv, ClientInv, Held, Supervisor!Lease
    <2> QED BY <2>1 DEF Inv, ClientInv, Held
  <1> QED BY <1>2, <1>3, Basics, HandlerStep DEF Snapshot, wire, Inv, RuntimeInv, EpochInv

\* An answer leaves the client its lease, or the one granted for what is left since the request.
LEMMA RepliedEffect ==
    ASSUME NEW c \in Client, NEW a \in Reply
    PROVE  LET d == Replied(c, a)
           IN  /\ d \in Client /\ d.mission = c.mission /\ d.epoch = c.epoch
               /\ \/ /\ d.lease = c.lease /\ d.leaseEpoch = c.leaseEpoch /\ d.left <= c.left
                  \/ /\ a.granted /\ d.lease = a.lease /\ d.leaseEpoch = a.epoch
                     /\ d.left = LeaseTime - c.waited
  <1>1. LeaseTime - c.waited \in 0 .. LeaseTime /\ 0 <= c.left /\ c.left <= c.left
    BY Constants DEF Client
  <1> DEFINE time == LeaseTime - c.waited
             d1 == [c EXCEPT !.denied = TRUE, !.left = 0]
             d2 == [c EXCEPT !.lease = a.lease, !.leaseEpoch = a.epoch, !.left = time]
  <1>2. Replied(c, a) = IF ~a.granted \/ a.epoch # c.epoch THEN d1
                        ELSE IF c.lease # NoLeaseId /\ c.left = 0 THEN c ELSE d2
    BY DEF Replied
  <1>3. /\ d1 \in Client /\ d1.mission = c.mission /\ d1.epoch = c.epoch
        /\ d1.lease = c.lease /\ d1.leaseEpoch = c.leaseEpoch /\ d1.left = 0
    BY Constants DEF Client
  <1> HIDE DEF time
  <1>4. a.lease \in MaybeLease /\ a.epoch \in Epoch \cup {0} /\ time \in 0 .. LeaseTime
    BY <1>1 DEF Reply, time
  <1>5. /\ d2 \in Client /\ d2.mission = c.mission /\ d2.epoch = c.epoch
        /\ d2.lease = a.lease /\ d2.leaseEpoch = a.epoch /\ d2.left = time
    BY <1>4 DEF Client
  <1> HIDE DEF d1, d2
  <1> QED BY <1>1, <1>2, <1>3, <1>5 DEF time

\* The answer the client waited for is for its mission, and its time is counted from the request.
LEMMA ReceiveReplyGood == ASSUME Inv, ReceiveReply PROVE Inv'
  <1> DEFINE d == Replied(cl, reply)
  <1>1. /\ d \in Client /\ d.mission = cl.mission /\ d.epoch = cl.epoch
        /\ \/ /\ d.lease = cl.lease /\ d.leaseEpoch = cl.leaseEpoch /\ d.left <= cl.left
           \/ /\ reply.granted /\ d.lease = reply.lease /\ d.leaseEpoch = reply.epoch
              /\ d.left = LeaseTime - cl.waited
    BY Basics, RepliedEffect
  <1>2. cl' = [d EXCEPT !.waiting = FALSE, !.call = 0, !.waited = 0]
    BY DEF ReceiveReply
  <1> HIDE DEF d
  <1>3. /\ cl' \in Client /\ cl'.mission = cl.mission /\ cl'.epoch = cl.epoch
        /\ cl'.lease = d.lease /\ cl'.leaseEpoch = d.leaseEpoch /\ cl'.left = d.left
        /\ ~cl'.waiting
    BY <1>1, <1>2, Constants DEF Client
  <1>4. cl.mission # NoMission
    BY DEF Inv, ClientInv, RuntimeInv, ReceiveReply
  <1>5. d.lease # NoLeaseId => Held(d.lease, d.left, d.leaseEpoch)
    <2>1. CASE /\ d.lease = cl.lease /\ d.leaseEpoch = cl.leaseEpoch /\ d.left <= cl.left
      <3>1. cl.lease # NoLeaseId => sup.lease[cl.lease].left \in Nat
        BY Basics, Constants DEF Inv, ClientInv, Held, Supervisor!Lease
      <3>2. cl.left \in Nat /\ d.left \in Nat
        BY <1>1, Basics, Constants DEF Client
      <3> QED BY <2>1, <3>1, <3>2 DEF Inv, ClientInv, Held
    <2>2. CASE /\ reply.granted /\ d.lease = reply.lease /\ d.leaseEpoch = reply.epoch
               /\ d.left = LeaseTime - cl.waited
      BY <2>2 DEF Inv, ClientInv, Held, ReceiveReply
    <2> QED BY <1>1, <2>1, <2>2
  <1>6. {cl'.epoch, cl'.leaseEpoch} \subseteq 0 .. epoch + 1
    BY <1>1, <1>3 DEF Inv, EpochInv
  <1> QED BY <1>3, <1>4, <1>5, <1>6, Basics, HandlerStep DEF ReceiveReply

\* A client that starts again holds nothing and waits for nothing.
LEMMA NoClientType ==
    /\ NoClient \in Client /\ NoClient.mission = NoMission /\ NoClient.lease = NoLeaseId
    /\ NoClient.epoch = 0 /\ NoClient.leaseEpoch = 0 /\ ~NoClient.waiting
  BY Constants DEF NoClient, Client, MaybeMission, MaybeLease

\* The goals a crash leaves unanswered.
LEMMA UnknownEffect ==
    ASSUME Inv,
           sup' = [sup EXCEPT !.lease = [l \in LeaseId |->
                      IF sup.lease[l].call \in {"RUNNING", "ACCEPTED"} /\ l \notin told
                      THEN [sup.lease[l] EXCEPT !.call = "UNKNOWN"] ELSE sup.lease[l]]]
    PROVE  Written(sup') /\ \A l \in LeaseId : Onward(sup.lease[l], sup'.lease[l])
  <1> DEFINE q(l) == IF sup.lease[l].call \in {"RUNNING", "ACCEPTED"} /\ l \notin told
                     THEN [sup.lease[l] EXCEPT !.call = "UNKNOWN"] ELSE sup.lease[l]
             leases == [l \in LeaseId |-> q(l)]
  <1>1. sup \in Supervisor!Memory /\ sup.disk = Supervisor!Durable(sup)
    BY Basics DEF Written
  <1>2. ASSUME NEW l \in LeaseId
        PROVE  /\ q(l) \in Supervisor!Lease /\ q(l).st = sup.lease[l].st
               /\ q(l).mission = sup.lease[l].mission
               /\ q(l).call = "STOPPED" => sup.lease[l].call = "STOPPED"
               /\ sup.lease[l].call = "NONE" => q(l).call = "NONE"
    BY Basics DEF Supervisor!Lease, Supervisor!CallState
  <1>3. sup' = [sup EXCEPT !.lease = leases]
    OBVIOUS
  <1> HIDE DEF q
  <1>4. leases \in [LeaseId -> Supervisor!Lease] /\ \A l \in LeaseId : leases[l] = q(l)
    BY <1>2
  <1> HIDE DEF leases
  <1>5. /\ sup' \in Supervisor!Memory /\ sup'.lease = leases /\ sup'.disk = sup.disk
        /\ sup'.stopFaults = sup.stopFaults /\ sup'.stateFault = sup.stateFault
    BY <1>1, <1>3, <1>4 DEF Supervisor!Memory
  <1>6. Written(sup')
    <2>1. \A l \in LeaseId : /\ sup'.lease[l].mission = sup.lease[l].mission
                             /\ sup'.lease[l].st = sup.lease[l].st
      BY <1>2, <1>4, <1>5
    <2> QED BY <1>1, <1>5, <2>1, DurableOf DEF Supervisor!IsUnconfirmed
  <1> QED BY <1>2, <1>4, <1>5, <1>6, Basics DEF Onward, Supervisor!IsUnconfirmed, LeaseInv

\* The Runtime dies: its mission is over unless the robot still moves, and that keeps its lease.
LEMMA RuntimeCrashGood == ASSUME Inv, RuntimeCrash PROVE Inv'
  <1>1. /\ cl' = NoClient /\ reply' = NoReply /\ rt' = Idle /\ epoch' = epoch /\ up' = up
        /\ handed' = handed /\ requests' = requests /\ beat' = beat /\ mover' = mover
        /\ told' = told
    BY DEF RuntimeCrash
  <1>2. Written(sup') /\ \A l \in LeaseId : Onward(sup.lease[l], sup'.lease[l])
    BY Zenon, UnknownEffect DEF RuntimeCrash
  <1>3. \A l \in LeaseId : Moves(l)
    BY <1>1, <1>2, Basics, OnwardKept DEF Moves
  <1>4. /\ rt' \in Runtime /\ rt'.run = "idle" /\ rt'.mission = NoMission /\ rt'.seen = rt.seen
    BY <1>1, Basics DEF Idle, Runtime, MaybeMission
  <1>5. NoReply \in Reply /\ NoReply.epoch = 0 /\ ~NoReply.there
    BY DEF NoReply, Reply, MaybeLease
  <1>6. TypeOK' /\ DiskInv'
    BY <1>1, <1>2, <1>4, <1>5, NoClientType, Basics
       DEF TypeOK, Supervisor!TypeOK, DiskInv, Written
  <1>7. Ahead
    <2>1. NoMission \notin rt.seen
      BY Basics, Constants DEF Runtime
    <2> QED BY <1>1, <1>4, <2>1 DEF Ahead, Over
  <1>8. LeaseInv' /\ Lasting
    BY <1>3, <1>6, <1>7, Frame DEF Inv
  <1>9. MotionInv'
    BY <1>1, <1>8, MotionKept DEF Inv
  <1>10. RuntimeInv'
    BY <1>1, <1>4, NoClientType DEF Inv, RuntimeInv
  <1>11. EpochInv' /\ ClientInv'
    BY <1>1, <1>5, NoClientType, Basics DEF Inv, EpochInv, ClientInv
  <1>12. RequestInv'
    <2>1. \A n \in 1 .. Slots : Wire(requests[n])'
      <3> SUFFICES ASSUME NEW n \in 1 .. Slots PROVE Wire(requests[n])'
        OBVIOUS
      <3>1. Wire(requests[n]) /\ requests[n] \in Request
        BY Basics DEF Inv, RequestInv
      <3> QED BY <1>1, <1>3, <1>7, <3>1, WireKept DEF Wire
    <2> QED BY <1>1, <2>1, NoClientType DEF RequestInv
  <1> QED BY <1>6, <1>8, <1>9, <1>10, <1>11, <1>12 DEF Inv

\* Time passes for the client and the Supervisor alike, also for an answer on its way.
LEMMA ElapseGood == ASSUME Inv, Elapse PROVE Inv'
  <1> DEFINE left == Sooner(cl.left)
             fresh == Sooner(cl.fresh)
             waited == IF cl.waiting /\ cl.waited < LeaseTime THEN cl.waited + 1 ELSE cl.waited
  <1>1. /\ epoch' = epoch /\ up' = up /\ handed' = handed /\ requests' = requests
        /\ reply' = reply /\ beat' = beat /\ rt' = rt /\ mover' = mover /\ told' = told
    BY DEF Elapse, wire
  <1>2. cl' = [cl EXCEPT !.left = left, !.fresh = fresh, !.waited = waited]
    BY Basics DEF Elapse, Client
  <1>3. /\ left \in 0 .. LeaseTime /\ fresh \in 0 .. HeartbeatTimeout
        /\ waited \in 0 .. LeaseTime
    BY Basics, Constants DEF Client, Sooner
  <1> HIDE DEF left, fresh, waited
  <1>4. /\ cl' \in Client /\ cl'.mission = cl.mission /\ cl'.lease = cl.lease
        /\ cl'.leaseEpoch = cl.leaseEpoch /\ cl'.epoch = cl.epoch /\ cl'.waiting = cl.waiting
        /\ cl'.call = cl.call /\ cl'.waited = waited /\ cl'.left = left
    BY <1>2, <1>3, Basics DEF Client
  <1>5. /\ Written(sup')
        /\ \A l \in LeaseId : /\ Moves(l)
                              /\ up => sup'.lease[l].left = Sooner(sup.lease[l].left)
    <2>1. CASE up
      <3>1. sup' = Supervisor!Older(sup)
        BY <2>1 DEF Elapse
      <3>2. /\ Written(sup')
            /\ \A l \in LeaseId : /\ Onward(sup.lease[l], sup'.lease[l])
                                  /\ sup'.lease[l].left = Sooner(sup.lease[l].left)
        BY <3>1, Basics, OlderEffect
      <3> QED BY <1>1, <3>2, Basics, OnwardKept DEF Moves
    <2>2. CASE ~up
      <3>1. sup' = sup
        BY <2>2 DEF Elapse
      <3> QED BY <1>1, <2>2, <3>1, Basics, Still
    <2> QED BY <2>1, <2>2
  <1>6. TypeOK' /\ DiskInv'
    BY <1>1, <1>4, <1>5, Basics DEF TypeOK, Supervisor!TypeOK, DiskInv, Written
  <1>7. Ahead
    BY <1>1 DEF Ahead, Over
  <1>8. LeaseInv' /\ Lasting
    BY <1>5, <1>6, <1>7, Frame DEF Inv
  <1>9. MotionInv'
    BY <1>1, <1>8, MotionKept DEF Inv
  <1>10. RuntimeInv' /\ EpochInv'
    BY <1>1, <1>4 DEF Inv, RuntimeInv, EpochInv
  <1>11. ClientInv'
    <2>1. ASSUME NEW l \in LeaseId, NEW e, NEW time \in 0 .. LeaseTime,
                 NEW later \in 0 .. LeaseTime, later <= Sooner(time), Held(l, time, e)
          PROVE  /\ Unconfirmed(l)' /\ MissionOf(l)' = cl'.mission
                 /\ up' /\ e = epoch' + 1 => later <= sup'.lease[l].left
      <3>1. Unconfirmed(l)' /\ MissionOf(l)' = cl'.mission
        BY <1>4, <1>8, <2>1 DEF Inv, RuntimeInv, Held, Lasting, Over
      <3>2. ASSUME up, e = epoch + 1 PROVE later <= sup'.lease[l].left
        <4>1. time <= sup.lease[l].left /\ sup'.lease[l].left = Sooner(sup.lease[l].left)
          BY <1>5, <2>1, <3>2 DEF Held
        <4>2. sup.lease[l].left \in 0 .. LeaseTime
          BY Basics DEF Supervisor!Lease
        <4> QED BY <2>1, <4>1, <4>2, Constants DEF Sooner
      <3> QED BY <1>1, <3>1, <3>2
    <2>2. cl'.lease # NoLeaseId => Held(cl.lease, cl.left, cl.leaseEpoch)'
      <3>1. cl.left \in 0 .. LeaseTime /\ left <= Sooner(cl.left)
        BY <1>3, Basics, Constants DEF Client, left
      <3>2. cl.lease # NoLeaseId =>
              cl.lease \in LeaseId /\ Held(cl.lease, cl.left, cl.leaseEpoch)
        BY DEF Inv, ClientInv, Held
      <3> QED BY <1>3, <1>4, <2>1, <3>1, <3>2 DEF Held
    <2>3. reply'.there /\ reply'.granted => Held(reply.lease, LeaseTime - cl.waited, reply.epoch)'
      <3> SUFFICES ASSUME reply.there, reply.granted
                   PROVE  Held(reply.lease, LeaseTime - cl.waited, reply.epoch)'
        BY <1>1
      <3>1. cl.waiting /\ Held(reply.lease, LeaseTime - cl.waited, reply.epoch)
            /\ reply.lease \in LeaseId
        BY DEF Inv, ClientInv, Held
      <3>2. /\ LeaseTime - cl.waited \in 0 .. LeaseTime /\ LeaseTime - waited \in 0 .. LeaseTime
            /\ LeaseTime - waited <= Sooner(LeaseTime - cl.waited)
        BY <1>3, <3>1, Basics, Constants DEF Client, waited, Sooner
      <3>3. /\ Unconfirmed(reply.lease)' /\ MissionOf(reply.lease)' = cl'.mission
            /\ up' /\ reply.epoch = epoch' + 1 => LeaseTime - waited <= sup'.lease[reply.lease].left
        BY <1>1, <2>1, <3>1, <3>2
      <3> QED BY <1>1, <1>4, <3>1, <3>3 DEF Held
    <2>4. reply'.there => cl'.waiting
      BY <1>1, <1>4 DEF Inv, ClientInv
    <2> QED BY <2>2, <2>3, <2>4 DEF ClientInv
  <1>12. RequestInv'
    <2>1. \A n \in 1 .. Slots : Wire(requests[n])'
      <3> SUFFICES ASSUME NEW n \in 1 .. Slots PROVE Wire(requests[n])'
        OBVIOUS
      <3>1. Wire(requests[n]) /\ requests[n] \in Request
        BY Basics DEF Inv, RequestInv
      <3> QED BY <1>1, <1>5, <1>7, <3>1, WireKept DEF Wire
    <2> QED BY <1>1, <1>4, <2>1 DEF Inv, RequestInv, Own
  <1> QED BY <1>6, <1>8, <1>9, <1>10, <1>11, <1>12 DEF Inv

-----------------------------------------------------------------------------
(* What the client sends.                                                  *)

\* What may be on the wire.
Requests == [1 .. Slots -> Request]

\* The part of a client that only the Supervisor's answers change.
Alike(c, d) == /\ d.epoch = c.epoch /\ d.mission = c.mission /\ d.lease = c.lease
               /\ d.leaseEpoch = c.leaseEpoch /\ d.left = c.left

\* A request of the client c.
Asks(c, kind, r) == r.kind = kind /\ r.mission = c.mission /\ r.lease = c.lease

\* A request names the client's mission and lease, and the client waits for that one.
LEMMA SentEffect ==
    ASSUME NEW c \in Client, NEW reqs \in Requests, NEW kind \in {"acquire", "renew", "release"}
    PROVE  LET q == Sent(Side(c, reqs), kind)
           IN  /\ q.cl \in Client /\ q.requests \in Requests /\ Alike(c, q.cl)
               /\ \A n \in 1 .. Slots : \/ q.requests[n] = reqs[n]
                                        \/ Asks(c, kind, q.requests[n])
               /\ kind = "release" => q.cl = c
               /\ kind # "release" => \A n \in 1 .. Slots :
                                         q.cl.call = n => Asks(c, kind, q.requests[n])
  <1> DEFINE r == [kind |-> kind, mission |-> c.mission, lease |-> c.lease, epoch |-> c.epoch]
  <1>1. r \in Request /\ Asks(c, kind, r)
    BY DEF Request, Client, Asks
  <1>2. Vacant(reqs) \subseteq 1 .. Slots
    BY DEF Vacant
  <1>3. PICK k \in 0 .. Slots :
          Sent(Side(c, reqs), kind) =
             Side(IF kind = "release" THEN c
                  ELSE [c EXCEPT !.waiting = TRUE, !.call = k, !.waited = 0],
                  IF k = 0 THEN reqs ELSE [reqs EXCEPT ![k] = r])
    <2> DEFINE k == IF Vacant(reqs) = {} THEN 0 ELSE CHOOSE n \in Vacant(reqs) : TRUE
    <2>1. k \in 0 .. Slots
      BY <1>2, Constants
    <2>2. Side(c, reqs).cl = c /\ Side(c, reqs).requests = reqs
      BY DEF Side
    <2>3. Sent(Side(c, reqs), kind) =
             Side(IF kind = "release" THEN c
                  ELSE [c EXCEPT !.waiting = TRUE, !.call = k, !.waited = 0],
                  IF k = 0 THEN reqs ELSE [reqs EXCEPT ![k] = r])
      BY <2>2, Zenon DEF Sent
    <2> HIDE DEF k
    <2> QED BY <2>1, <2>3
  <1> HIDE DEF r
  <1> DEFINE d == [c EXCEPT !.waiting = TRUE, !.call = k, !.waited = 0]
             reqs1 == IF k = 0 THEN reqs ELSE [reqs EXCEPT ![k] = r]
  <1>4. d \in Client /\ Alike(c, d) /\ d.call = k
    BY Constants DEF Client, Alike
  <1>5. Alike(c, c)
    BY DEF Alike
  <1>6. /\ reqs1 \in Requests
        /\ \A n \in 1 .. Slots : reqs1[n] = IF n = k THEN r ELSE reqs[n]
    BY <1>1, Constants DEF Requests
  <1> HIDE DEF d, reqs1
  <1>7. Sent(Side(c, reqs), kind) = Side(IF kind = "release" THEN c ELSE d, reqs1)
    BY <1>3 DEF d, reqs1
  <1>8. /\ Sent(Side(c, reqs), kind).cl = IF kind = "release" THEN c ELSE d
        /\ Sent(Side(c, reqs), kind).requests = reqs1
    BY <1>7 DEF Side
  <1> QED BY <1>1, <1>4, <1>5, <1>6, <1>8

\* A client that forgets its mission, and one that begins another.
LEMMA ClearedType ==
    ASSUME NEW c \in Client, NEW m \in MaybeMission
    PROVE  LET d == [Cleared(c) EXCEPT !.mission = m]
           IN  /\ Cleared(c) \in Client /\ d \in Client
               /\ Cleared(c).mission = NoMission /\ Cleared(c).lease = NoLeaseId
               /\ Cleared(c).leaseEpoch = 0 /\ Cleared(c).epoch = c.epoch /\ ~Cleared(c).waiting
               /\ d.mission = m /\ d.lease = NoLeaseId /\ d.leaseEpoch = 0
               /\ d.epoch = c.epoch /\ ~d.waiting
  <1> DEFINE e == [c EXCEPT !.mission = NoMission, !.lease = NoLeaseId, !.leaseEpoch = 0, !.left = 0]
             f == [e EXCEPT !.waiting = FALSE, !.call = 0, !.waited = 0, !.denied = FALSE]
  <1>1. e \in Client /\ e.mission = NoMission /\ e.lease = NoLeaseId /\ e.leaseEpoch = 0
        /\ e.epoch = c.epoch
    BY Constants DEF Client, MaybeMission, MaybeLease
  <1>2. Cleared(c) = f
    BY DEF Cleared
  <1> HIDE DEF e
  <1>3. f \in Client /\ f.mission = NoMission /\ f.lease = NoLeaseId /\ f.leaseEpoch = 0
        /\ f.epoch = c.epoch /\ ~f.waiting
    BY <1>1, Constants DEF Client
  <1> HIDE DEF f
  <1> DEFINE d == [f EXCEPT !.mission = m]
  <1>4. d \in Client /\ d.mission = m /\ d.lease = NoLeaseId /\ d.leaseEpoch = 0
        /\ d.epoch = c.epoch /\ ~d.waiting
    BY <1>3 DEF Client
  <1> QED BY <1>2, <1>3, <1>4

\* The Runtime's view of a side after maintain(): the client is the same but for its request.
Going(q) ==
    /\ q.cl \in Client /\ q.requests \in Requests /\ Alike(cl, q.cl)
    /\ \A n \in 1 .. Slots :
          \/ q.requests[n] = requests[n]
          \/ Asks(cl, "acquire", q.requests[n])
          \/ Asks(cl, "renew", q.requests[n]) /\ cl.lease # NoLeaseId
    /\ \/ q.cl = cl /\ q.requests = requests
       \/ ~q.cl.waiting
       \/ /\ ~(cl.waiting /\ Dropped(cl) = cl)
          /\ \A n \in 1 .. Slots :
                q.cl.call = n => q.requests[n].kind # "release" /\ q.requests[n].mission = cl.mission

\* maintain() sends at most one request of the client's mission and changes nothing else it knows.
LEMMA MaintainedEffect ==
    ASSUME Inv, NEW ready \in BOOLEAN
    PROVE  Going(Maintained(Side(cl, requests), ready))
  <1> DEFINE c == Dropped(cl)
             q == Maintained(Side(cl, requests), ready)
  <1>1. cl \in Client /\ requests \in Requests
    BY Basics DEF Requests
  <1>2. /\ c \in Client /\ Alike(cl, c)
        /\ c = cl \/ ~c.waiting
    BY <1>1, Constants DEF Dropped, Client, Alike
  <1>3. Side(cl, requests).cl = cl /\ Side(cl, requests).requests = requests
    BY DEF Side
  <1>4. q = IF Needed(c) = "none" \/ ~ready \/ c.epoch = 0 THEN Side(c, requests)
            ELSE Sent(Side(c, requests), Needed(c))
    BY <1>3 DEF Maintained
  <1> HIDE DEF c, q
  <1>5. ASSUME q = Side(c, requests) PROVE Going(q)
    <2>1. q.cl = c /\ q.requests = requests
      BY <1>5 DEF Side
    <2>2. \A n \in 1 .. Slots : q.requests[n] = requests[n]
      BY <2>1
    <2>3. q.cl \in Client /\ q.requests \in Requests /\ Alike(cl, q.cl)
      BY <1>1, <1>2, <2>1
    <2>4. (q.cl = cl /\ q.requests = requests) \/ ~q.cl.waiting
      BY <1>2, <2>1
    <2> QED BY <2>2, <2>3, <2>4, Zenon DEF Going
  <1>6. ASSUME Needed(c) # "none", q = Sent(Side(c, requests), Needed(c)) PROVE Going(q)
    <2>1. /\ ~c.waiting /\ Needed(c) \in {"acquire", "renew"}
          /\ Needed(c) = "renew" => c.lease # NoLeaseId
      BY <1>6 DEF Needed
    <2>2. /\ q.cl \in Client /\ q.requests \in Requests /\ Alike(c, q.cl)
          /\ \A n \in 1 .. Slots : \/ q.requests[n] = requests[n]
                                   \/ Asks(c, Needed(c), q.requests[n])
          /\ \A n \in 1 .. Slots : q.cl.call = n => Asks(c, Needed(c), q.requests[n])
      BY <1>1, <1>2, <1>6, <2>1, SentEffect
    <2>3. ~(cl.waiting /\ Dropped(cl) = cl)
      BY <2>1 DEF c
    <2>4. Alike(cl, q.cl) /\ c.mission = cl.mission /\ c.lease = cl.lease
      BY <1>2, <2>2 DEF Alike
    <2>5. ASSUME NEW n \in 1 .. Slots
          PROVE  /\ \/ q.requests[n] = requests[n]
                    \/ Asks(cl, "acquire", q.requests[n])
                    \/ Asks(cl, "renew", q.requests[n]) /\ cl.lease # NoLeaseId
                 /\ q.cl.call = n =>
                       q.requests[n].kind # "release" /\ q.requests[n].mission = cl.mission
      BY <2>1, <2>2, <2>4 DEF Asks
    <2> QED BY <2>2, <2>3, <2>4, <2>5, Zenon DEF Going
  <1> QED BY <1>4, <1>5, <1>6 DEF q

\* The side after the mission is left: the client has forgotten it, and a lease may be returned.
Left(q, returns) ==
    /\ q.cl \in Client /\ q.requests \in Requests
    /\ q.cl.mission = NoMission /\ q.cl.lease = NoLeaseId /\ q.cl.leaseEpoch = 0
    /\ q.cl.epoch = cl.epoch /\ ~q.cl.waiting
    /\ \A n \in 1 .. Slots :
          \/ q.requests[n] = requests[n]
          \/ Asks(cl, "acquire", q.requests[n])
          \/ Asks(cl, "renew", q.requests[n]) /\ cl.lease # NoLeaseId
          \/ Asks(cl, "release", q.requests[n]) /\ cl.lease # NoLeaseId /\ returns

\* The mission is left: only a confirmed stop returns its lease.
LEMMA FinishedEffect ==
    ASSUME Inv, NEW s, Going(s), s = Side(s.cl, s.requests), NEW ready \in BOOLEAN
    PROVE  Left(Finished(s, ready), mover = NoMission)
  <1> DEFINE q == Finished(s, ready)
             w == Sent(s, "release")
  <1>1. /\ s.cl \in Client /\ s.requests \in Requests /\ Alike(cl, s.cl)
        /\ NoMission \in MaybeMission
    BY DEF Going, MaybeMission
  <1>2. \/ q = Side(Cleared(s.cl), s.requests)
        \/ /\ Valid(s.cl) /\ mover = NoMission /\ q = Side(Cleared(w.cl), w.requests)
    BY DEF Finished, Released, Abandoned
  <1>3. /\ w.cl = s.cl /\ w.requests \in Requests
        /\ \A n \in 1 .. Slots : w.requests[n] = s.requests[n] \/ Asks(s.cl, "release", w.requests[n])
    <2>1. Sent(Side(s.cl, s.requests), "release") = w
      OBVIOUS
    <2> HIDE DEF w
    <2> QED BY <1>1, <2>1, SentEffect
  <1> HIDE DEF w, q
  <1>4. /\ q.cl = Cleared(s.cl)
        /\ \/ q.requests = s.requests
           \/ Valid(s.cl) /\ mover = NoMission /\ q.requests = w.requests
    BY <1>2, <1>3 DEF Side
  <1>5. /\ q.cl \in Client /\ q.requests \in Requests
        /\ q.cl.mission = NoMission /\ q.cl.lease = NoLeaseId /\ q.cl.leaseEpoch = 0
        /\ q.cl.epoch = s.cl.epoch /\ ~q.cl.waiting
    <2>1. /\ Cleared(s.cl) \in Client /\ Cleared(s.cl).mission = NoMission
          /\ Cleared(s.cl).lease = NoLeaseId /\ Cleared(s.cl).leaseEpoch = 0
          /\ Cleared(s.cl).epoch = s.cl.epoch /\ ~Cleared(s.cl).waiting
      BY <1>1, ClearedType
    <2> QED BY <1>1, <1>3, <1>4, <2>1
  <1>6. ASSUME NEW n \in 1 .. Slots
        PROVE  \/ q.requests[n] = s.requests[n]
               \/ Asks(cl, "release", q.requests[n]) /\ cl.lease # NoLeaseId /\ mover = NoMission
    BY <1>1, <1>3, <1>4 DEF Valid, Asks, Alike
  <1>7. q.cl.epoch = cl.epoch
    BY <1>1, <1>5 DEF Alike
  <1> QED BY <1>5, <1>6, <1>7 DEF Left, Going, q

\* What the client asks for its mission is true when it is sent.
LEMMA AskedIsTrue ==
    ASSUME Inv, rt.run # "idle", sup' = sup, Ahead,
           NEW r \in Request, NEW kind \in {"acquire", "renew"}, Asks(cl, kind, r),
           kind # "acquire" => cl.lease # NoLeaseId
    PROVE  Wire(r)'
  <1>1. r.kind = kind /\ r.mission = cl.mission /\ r.lease = cl.lease
    BY DEF Asks
  <1>2. cl.mission \in rt'.seen
    BY DEF Inv, RuntimeInv, Ahead
  <1>3. kind # "acquire" =>
          /\ cl.lease \in LeaseId /\ sup'.lease[cl.lease].st # "free"
          /\ sup'.lease[cl.lease].mission = cl.mission
    BY DEF Inv, ClientInv, Held, Unconfirmed, MissionOf, Supervisor!IsUnconfirmed
  <1>4. PICK l : l = r.lease
    OBVIOUS
  <1>5. PICK m : m = r.mission
    OBVIOUS
  <1>6. m = cl.mission
    BY <1>1, <1>5
  <1>7. kind # "acquire" => l \in LeaseId /\ sup'.lease[l].st # "free" /\ sup'.lease[l].mission = m
    BY <1>1, <1>3, <1>4, <1>6
  <1> QED BY <1>1, <1>2, <1>4, <1>5, <1>6, <1>7 DEF Wire, MissionOf

\* A tick of an active mission: what it sent is true, and a motion that begins has the
\* client's lease.
LEMMA GoingStep ==
    ASSUME Inv, NEW q, Going(q), Becomes(q), UNCHANGED <<supervisor, beat, told>>,
           rt' \in Runtime, rt'.mission = rt.mission, rt'.seen = rt.seen,
           rt.run # "idle", rt'.run # "idle",
           mover' = mover \/ (mover' = rt.mission /\ cl.lease # NoLeaseId)
    PROVE  Inv'
  <1>1. /\ epoch' = epoch /\ up' = up /\ sup' = sup /\ handed' = handed /\ told' = told
        /\ beat' = beat
    BY DEF supervisor
  <1>2. /\ cl' = q.cl /\ requests' = q.requests
        /\ reply' = IF q.cl.waiting /\ cl.waiting /\ Dropped(cl) = cl THEN reply ELSE NoReply
    BY DEF Becomes
  <1>3. /\ cl' \in Client /\ requests' \in [1 .. Slots -> Request] /\ Alike(cl, cl')
        /\ cl.mission = rt.mission /\ rt.mission # NoMission /\ rt.mission \in rt.seen
    BY <1>2 DEF Going, Requests, Inv, RuntimeInv
  <1>4. Ahead
    BY <1>1 DEF Ahead, Over
  <1>5. cl'.lease # NoLeaseId => Held(cl.lease, cl.left, cl.leaseEpoch)'
    BY <1>1, <1>3 DEF Alike, Inv, ClientInv, Held, Unconfirmed, MissionOf
  <1>6. \/ reply' = NoReply
        \/ reply' = reply /\ cl' = cl
    BY <1>2 DEF Going
  <1>7. ASSUME NEW n \in 1 .. Slots PROVE requests'[n] = requests[n] \/ Wire(requests[n])'
    <2>1. PICK r \in Request : r = requests'[n]
      BY <1>3
    <2>2. \/ r = requests[n]
          \/ Asks(cl, "acquire", r)
          \/ Asks(cl, "renew", r) /\ cl.lease # NoLeaseId
      BY <1>2, <2>1 DEF Going
    <2>3. r # requests[n] => Wire(r)'
      BY <1>1, <1>4, <2>2, AskedIsTrue
    <2> QED BY <2>1, <2>3 DEF Wire
  <1>8. ASSUME NEW n \in 1 .. Slots, cl'.waiting, cl'.call = n PROVE Own(requests[n])'
    <2>1. CASE q.cl = cl /\ q.requests = requests
      BY <1>2, <1>8, <2>1 DEF Inv, RequestInv, Own
    <2>2. CASE \A k \in 1 .. Slots :
                 q.cl.call = k => q.requests[k].kind # "release" /\ q.requests[k].mission = cl.mission
      BY <1>2, <1>3, <1>8, <2>2 DEF Own, Alike
    <2> QED BY <1>2, <1>8, <2>1, <2>2 DEF Going
  <1>9. Sound
    <2>1. {cl'.epoch, cl'.leaseEpoch} \subseteq 0 .. epoch + 1
      BY <1>3 DEF Alike, Inv, EpochInv
    <2>2. \/ reply' = NoReply
          \/ /\ reply' = reply /\ cl'.mission = cl.mission
             /\ cl'.waiting = cl.waiting /\ cl'.waited = cl.waited
      BY <1>6
    <2> QED BY <1>3, <1>5, <1>7, <1>8, <2>1, <2>2 DEF Sound
  <1>10. RuntimeInv'
    BY <1>3 DEF Inv, RuntimeInv, Alike
  <1>11. MotionInv'
    BY <1>1, <1>3 DEF Inv, MotionInv, ClientInv, Held, Unconfirmed, MissionOf
  <1> QED BY <1>1, <1>3, <1>4, <1>9, <1>10, <1>11, Basics, ClientStep DEF Runtime, MaybeMission

\* A tick that leaves the mission: a lease that is returned is of a mission that is over.
LEMMA LeftStep ==
    ASSUME Inv, NEW q, Left(q, mover = NoMission), Becomes(q),
           UNCHANGED <<supervisor, beat, told, mover>>, rt' = Idle, rt.run # "idle"
    PROVE  Inv'
  <1>1. /\ epoch' = epoch /\ up' = up /\ sup' = sup /\ handed' = handed /\ told' = told
        /\ beat' = beat /\ mover' = mover
    BY DEF supervisor
  <1>2. /\ cl' = q.cl /\ requests' = q.requests /\ reply' = NoReply
        /\ cl' \in Client /\ requests' \in [1 .. Slots -> Request]
        /\ cl'.mission = NoMission /\ cl'.lease = NoLeaseId /\ cl'.leaseEpoch = 0
        /\ cl'.epoch = cl.epoch /\ ~cl'.waiting
    BY DEF Becomes, Left, Requests
  <1>3. /\ rt' \in Runtime /\ rt'.run = "idle" /\ rt'.mission = NoMission /\ rt'.seen = rt.seen
        /\ NoMission \notin rt.seen
    BY Basics, Constants DEF Idle, Runtime, MaybeMission
  <1>4. Ahead
    BY <1>1, <1>3 DEF Ahead, Over
  <1>5. ASSUME NEW n \in 1 .. Slots PROVE requests'[n] = requests[n] \/ Wire(requests[n])'
    <2>1. PICK r \in Request : r = requests'[n]
      BY <1>2
    <2>2. \/ r = requests[n]
          \/ Asks(cl, "acquire", r)
          \/ Asks(cl, "renew", r) /\ cl.lease # NoLeaseId
          \/ Asks(cl, "release", r) /\ cl.lease # NoLeaseId /\ mover = NoMission
      BY <1>2, <2>1 DEF Left
    <2>3. r # requests[n] => Wire(r)'
      <3>1. PICK m : m = cl.mission
        OBVIOUS
      <3>2. mover = NoMission => m \in rt'.seen /\ m # rt'.mission /\ m # mover'
        BY <1>1, <1>3, <3>1 DEF Inv, RuntimeInv
      <3>3. CASE Asks(cl, "release", r) /\ cl.lease # NoLeaseId /\ mover = NoMission
        <4>1. r.mission = m /\ r.kind = "release" /\ r.lease = cl.lease
          BY <3>1, <3>3 DEF Asks
        <4>2. /\ cl.lease \in LeaseId /\ sup'.lease[cl.lease].st # "free"
              /\ sup'.lease[cl.lease].mission = cl.mission
          BY <1>1, <3>3 DEF Inv, ClientInv, Held, Unconfirmed, MissionOf, Supervisor!IsUnconfirmed
        <4>3. r.lease \in LeaseId /\ sup'.lease[r.lease].st # "free"
              /\ sup'.lease[r.lease].mission = r.mission
          BY <3>1, <4>1, <4>2
        <4> QED BY <3>2, <3>3, <4>1, <4>3 DEF Wire, Over, MissionOf
      <3>4. CASE Asks(cl, "acquire", r) \/ (Asks(cl, "renew", r) /\ cl.lease # NoLeaseId)
        BY <1>1, <1>4, <3>4, AskedIsTrue
      <3> QED BY <2>2, <3>3, <3>4
    <2> QED BY <2>1, <2>3 DEF Wire
  <1>6. Sound
    BY <1>2, <1>5, Basics DEF Sound, Inv, EpochInv
  <1>7. RuntimeInv' /\ MotionInv'
    BY <1>1, <1>2, <1>3 DEF Inv, RuntimeInv, MotionInv, Unconfirmed, MissionOf
  <1> QED BY <1>1, <1>3, <1>4, <1>6, <1>7, Basics, ClientStep

\* A new mission: it was never admitted before, hence is not over, and has no lease yet.
LEMMA OfferGood == ASSUME Inv, NEW m \in Mission, Offer(m) PROVE Inv'
  <1>1. PICK ready \in BOOLEAN : Becomes(Acquiring(Side(cl, requests), m, ready))
    BY DEF Offer
  <1> DEFINE c == [Cleared(cl) EXCEPT !.mission = m]
             q == Acquiring(Side(cl, requests), m, ready)
             w == Sent(Side(c, requests), "acquire")
  <1>2. /\ c \in Client /\ c.mission = m /\ c.lease = NoLeaseId /\ c.leaseEpoch = 0
        /\ c.epoch = cl.epoch /\ ~c.waiting
    BY Basics, ClearedType DEF MaybeMission
  <1>3. /\ Side(cl, requests).cl = cl /\ Side(cl, requests).requests = requests
        /\ Side(c, requests).cl = c /\ Side(c, requests).requests = requests
    BY DEF Side
  <1>4. q = w \/ q = Side(c, requests)
    BY <1>3 DEF Acquiring
  <1> HIDE DEF c
  <1>5. /\ w.cl \in Client /\ w.requests \in Requests /\ Alike(c, w.cl)
        /\ \A n \in 1 .. Slots : \/ w.requests[n] = requests[n]
                                 \/ Asks(c, "acquire", w.requests[n])
        /\ \A n \in 1 .. Slots : w.cl.call = n => Asks(c, "acquire", w.requests[n])
    BY <1>2, Basics, SentEffect DEF Requests
  <1> HIDE DEF q, w
  <1>6. /\ q.cl \in Client /\ q.requests \in Requests /\ Alike(c, q.cl)
        /\ \A n \in 1 .. Slots : \/ q.requests[n] = requests[n]
                                 \/ Asks(c, "acquire", q.requests[n])
        /\ q.cl.waiting => \A n \in 1 .. Slots :
                              q.cl.call = n => Asks(c, "acquire", q.requests[n])
    <2>1. CASE q = w
      BY <1>5, <2>1
    <2>2. CASE q = Side(c, requests)
      <3>1. q.cl = c /\ q.requests = requests
        BY <1>3, <2>2
      <3> QED BY <1>2, <3>1, Basics DEF Requests, Alike
    <2> QED BY <1>4, <2>1, <2>2
  <1>7. /\ epoch' = epoch /\ up' = up /\ sup' = sup /\ handed' = handed /\ told' = told
        /\ beat' = beat /\ mover' = mover
        /\ rt' = [run |-> "asking", mission |-> m, seen |-> rt.seen \cup {m}]
        /\ m \notin rt.seen /\ mover = NoMission /\ cl.mission = NoMission /\ ~cl.waiting
    BY DEF Offer, supervisor, Inv, RuntimeInv
  <1>8. cl' = q.cl /\ requests' = q.requests /\ reply' = NoReply
    BY <1>1, <1>7 DEF Becomes, q
  <1>9. /\ cl' \in Client /\ requests' \in [1 .. Slots -> Request]
        /\ cl'.mission = m /\ cl'.lease = NoLeaseId /\ cl'.leaseEpoch = 0 /\ cl'.epoch = cl.epoch
    BY <1>2, <1>6, <1>8 DEF Alike, Requests
  <1>10. /\ rt' \in Runtime /\ rt'.run = "asking" /\ rt'.mission = m /\ rt'.seen = rt.seen \cup {m}
    BY <1>7, Basics DEF Runtime, MaybeMission
  <1>11. Ahead
    BY <1>7, <1>10 DEF Ahead, Over
  <1>12. ASSUME NEW n \in 1 .. Slots
         PROVE  /\ requests'[n] = requests[n] \/ Wire(requests[n])'
                /\ cl'.waiting /\ cl'.call = n => Own(requests[n])'
    <2>1. Asks(c, "acquire", requests'[n]) => Wire(requests[n])' /\ Own(requests[n])'
      BY <1>2, <1>9, <1>10 DEF Asks, Wire, Own
    <2> QED BY <1>6, <1>8, <2>1
  <1>13. Sound
    BY <1>8, <1>9, <1>12, Basics DEF Sound, Inv, EpochInv
  <1>14. RuntimeInv' /\ MotionInv'
    BY <1>7, <1>9, <1>10, Constants DEF Inv, RuntimeInv, MotionInv
  <1> QED BY <1>7, <1>10, <1>11, <1>13, <1>14, Basics, ClientStep DEF supervisor

\* A side is its client and its requests.
LEMMA SideEta == ASSUME NEW ready, NEW side, side = Maintained(Side(cl, requests), ready)
                 PROVE  side = Side(side.cl, side.requests)
  BY DEF Maintained, Sent, Side

\* The tick of an active state, with its authorization gate.
LEMMA TickActiveGood == ASSUME Inv, TickActive PROVE Inv'
  <1>1. PICK ready \in BOOLEAN :
          LET side   == Maintained(Side(cl, requests), ready)
              answer == Authorization(side.cl)
          IN  \/ /\ answer = "GRANTED"
                 /\ mover' \in {rt.mission, mover}
                 /\ rt' = [rt EXCEPT !.run = "moving"]
                 /\ Becomes(side)
              \/ /\ answer = "GRANTED"
                 /\ rt' = [rt EXCEPT !.run = "stopping"]
                 /\ Becomes(side) /\ UNCHANGED mover
              \/ /\ answer = "GRANTED" /\ mover = NoMission /\ rt.run = "moving"
                 /\ rt' = Idle
                 /\ Becomes(Finished(side, ready)) /\ UNCHANGED mover
              \/ /\ answer = "PENDING" /\ rt.run = "asking"
                 /\ Becomes(side) /\ UNCHANGED <<rt, mover>>
              \/ /\ answer # "GRANTED"
                 /\ rt' = [rt EXCEPT !.run = "revoked"]
                 /\ Becomes(side) /\ UNCHANGED mover
    BY Zenon DEF TickActive
  <1> PICK side : side = Maintained(Side(cl, requests), ready)
    OBVIOUS
  <1>2. Going(side) /\ side = Side(side.cl, side.requests)
    BY MaintainedEffect, SideEta
  <1>3. /\ UNCHANGED <<supervisor, beat, told>> /\ rt.run # "idle" /\ rt \in Runtime
    BY Basics DEF TickActive
  <1>4. Authorization(side.cl) = "GRANTED" => cl.lease # NoLeaseId
    BY <1>2 DEF Authorization, Valid, Going, Alike
  <1>5. ASSUME NEW run \in {"moving", "stopping", "revoked"}, rt' = [rt EXCEPT !.run = run]
        PROVE  /\ rt' \in Runtime /\ rt'.mission = rt.mission /\ rt'.seen = rt.seen
               /\ rt'.run # "idle"
    BY <1>3, <1>5 DEF Runtime
  <1>6. CASE /\ Authorization(side.cl) = "GRANTED" /\ mover' \in {rt.mission, mover}
             /\ rt' = [rt EXCEPT !.run = "moving"] /\ Becomes(side)
    BY <1>2, <1>3, <1>4, <1>5, <1>6, GoingStep
  <1>7. CASE /\ mover' = mover /\ Becomes(side)
             /\ \/ rt' = [rt EXCEPT !.run = "stopping"]
                \/ rt' = [rt EXCEPT !.run = "revoked"]
    BY <1>2, <1>3, <1>5, <1>7, GoingStep
  <1>8. CASE mover' = mover /\ Becomes(side) /\ rt' = rt
    BY <1>2, <1>3, <1>8, GoingStep
  <1>9. CASE mover' = mover /\ Becomes(Finished(side, ready)) /\ rt' = Idle
    <2>1. Left(Finished(side, ready), mover = NoMission)
      BY <1>2, FinishedEffect
    <2> QED BY <1>3, <1>9, <2>1, LeftStep
  <1> QED BY <1>1, <1>6, <1>7, <1>8, <1>9

\* The tick of a stop.
LEMMA TickStoppingGood == ASSUME Inv, TickStopping PROVE Inv'
  <1>1. PICK ready \in BOOLEAN :
          LET side == Maintained(Side(cl, requests), ready)
          IN  \/ /\ rt' = rt /\ Becomes(side)
              \/ /\ mover = NoMission /\ rt.run = "stopping"
                 /\ rt' = [rt EXCEPT !.run = "moving"] /\ Becomes(side)
              \/ /\ rt' = Idle
                 /\ Becomes(Finished(side, ready))
    BY Zenon DEF TickStopping
  <1> PICK side : side = Maintained(Side(cl, requests), ready)
    OBVIOUS
  <1>2. Going(side) /\ side = Side(side.cl, side.requests)
    BY MaintainedEffect, SideEta
  <1>3. /\ UNCHANGED <<supervisor, beat, told>> /\ rt.run # "idle" /\ rt \in Runtime
        /\ mover' = mover
    BY Basics DEF TickStopping
  <1>4. CASE rt' = rt /\ Becomes(side)
    BY <1>2, <1>3, <1>4, GoingStep
  <1>5. CASE rt' = [rt EXCEPT !.run = "moving"] /\ Becomes(side)
    <2>1. /\ rt' \in Runtime /\ rt'.mission = rt.mission /\ rt'.seen = rt.seen
          /\ rt'.run # "idle"
      BY <1>3, <1>5 DEF Runtime
    <2> QED BY <1>2, <1>3, <1>5, <2>1, GoingStep
  <1>6. CASE rt' = Idle /\ Becomes(Finished(side, ready))
    <2>1. Left(Finished(side, ready), mover = NoMission)
      BY <1>2, FinishedEffect
    <2> QED BY <1>3, <1>6, <2>1, LeftStep
  <1> QED BY <1>1, <1>4, <1>5, <1>6

-----------------------------------------------------------------------------
\* At the start nothing is issued, sent or moving.
LEMMA InitGood == Init => Inv
  <1> SUFFICES ASSUME Init PROVE Inv
    OBVIOUS
  <1>1. /\ epoch = 0 /\ up = TRUE /\ handed = {} /\ cl = NoClient /\ reply = NoReply
        /\ requests = [n \in 1 .. Slots |-> NoRequest] /\ beat = 0 /\ mover = NoMission
        /\ told = {} /\ rt = [run |-> "idle", mission |-> NoMission, seen |-> {}]
        /\ sup = [lease |-> [l \in LeaseId |-> Supervisor!NoLease("free")], stopFaults |-> {},
                  stateFault |-> FALSE, synced |-> FALSE, saveFailed |-> FALSE,
                  disk |-> Supervisor!NoFile]
    BY DEF Init, Supervisor!Init
  <1>2. /\ Supervisor!NoLease("free") \in Supervisor!Lease
        /\ Supervisor!NoLease("free").st = "free" /\ Supervisor!NoLease("free").call = "NONE"
    BY NoLeaseType DEF Supervisor!LeaseState
  <1>3. Supervisor!NoFile \in Supervisor!File
    BY DEF Supervisor!NoFile, Supervisor!File
  <1>4. sup \in Supervisor!Memory
    BY <1>1, <1>2, <1>3 DEF Supervisor!Memory
  <1>5. \A l \in LeaseId : sup.lease[l].st = "free" /\ sup.lease[l].call = "NONE" /\ ~Unconfirmed(l)
    BY <1>1, <1>2 DEF Unconfirmed, Supervisor!IsUnconfirmed
  <1>6. DiskInv
    BY <1>1, <1>5 DEF DiskInv, Supervisor!Durable, Supervisor!NoFile, Unconfirmed
  <1>7. /\ NoReply \in Reply /\ NoReply.epoch = 0 /\ ~NoReply.there
        /\ NoRequest \in Request /\ NoRequest.kind = "none" /\ rt \in Runtime
    BY <1>1 DEF NoReply, Reply, MaybeLease, NoRequest, Request, MaybeMission, Runtime
  <1>8. TypeOK
    BY <1>1, <1>4, <1>7, NoClientType, Constants
       DEF TypeOK, Supervisor!TypeOK, MaybeMission
  <1>9. LeaseInv /\ RuntimeInv /\ MotionInv
    BY <1>1, <1>5, NoClientType DEF LeaseInv, RuntimeInv, MotionInv
  <1>10. ClientInv /\ EpochInv
    <2>1. up \/ epoch < MaxEpoch
      BY <1>1
    <2> QED BY <1>1, <1>7, <2>1, NoClientType DEF ClientInv, EpochInv
  <1>11. RequestInv
    BY <1>1, <1>7, NoClientType DEF RequestInv, Wire
  <1> QED BY <1>6, <1>8, <1>9, <1>10, <1>11 DEF Inv

\* Every step of either process, the wire and the clocks keeps the invariant.
LEMMA NextGood == Inv /\ [Next]_vars => Inv'
  <1> SUFFICES ASSUME Inv, [Next]_vars PROVE Inv'
    OBVIOUS
  <1>1. CASE UNCHANGED vars
    <2>1. UNCHANGED <<supervisor, requests, rt, mover, told, beat, cl, reply>>
      BY <1>1 DEF vars, supervisor
    <2>2. cl \in Client
      BY Basics
    <2> QED BY <2>1, <2>2, HandlerStep DEF Inv, ClientInv, EpochInv, RuntimeInv
  <1>2. CASE ClientSteps
    BY <1>2, HeartbeatGood, SnapshotGood, ReceiveReplyGood DEF ClientSteps
  <1>3. CASE RuntimeSteps
    BY <1>3, OfferGood, TickActiveGood, TickStoppingGood, CancelGood, MotionEndsGood,
       RuntimeCrashGood, StopGoalGood, StopConfirmedGood, StopFailedGood, Zenon DEF RuntimeSteps
  <1>4. CASE SupervisorSteps
    <2>1. ASSUME NEW l \in LeaseId, AskAgain(l) PROVE Inv'
      BY <2>1, AskAgainGood
    <2> QED BY <1>4, <2>1, SupervisorTickGood, SupervisorCrashGood, SupervisorRestartGood,
               ServeGood, StopResultGood, Zenon DEF SupervisorSteps
  <1>5. CASE WireSteps
    BY <1>5, LoseRequestGood DEF WireSteps
  <1>6. CASE Elapse
    BY <1>6, ElapseGood
  <1> QED BY <1>1, <1>2, <1>3, <1>4, <1>5, <1>6 DEF Next

-----------------------------------------------------------------------------
\* The inductive invariant: a lease ends only with a mission that is over, on the wire
\* too, so a motion and a client keep the lease they rest on.
THEOREM Invariance == Spec => []Inv
  BY InitGood, NextGood, PTL DEF Spec

\* The Supervisor's record and file, the client, the wire and the Runtime keep their types
\* through lost and late messages and restarts of both processes.
THEOREM TypesHold == Spec => []TypeOK
  <1>1. Inv => TypeOK
    BY DEF Inv
  <1> QED BY <1>1, Invariance, PTL

\* While the robot executes a motion, an unconfirmed lease of its mission is in the
\* Supervisor's memory and in its file (supervision.py, permissions.py, supervisor.py).
THEOREM MotionsAreCovered == Spec => []MotionIsCovered
  <1>1. Inv => MotionIsCovered
    <2> SUFFICES ASSUME Inv, mover # NoMission
                 PROVE  \E l \in Supervisor!Unconfirmed(sup) :
                           sup.lease[l].mission = mover /\ l \in Supervisor!Saved(sup.disk)
      BY DEF MotionIsCovered
    <2>1. PICK l \in LeaseId : Unconfirmed(l) /\ MissionOf(l) = mover
      BY DEF Inv, MotionInv
    <2>2. l \in Supervisor!Unconfirmed(sup) /\ sup.lease[l].mission = mover
      BY <2>1 DEF Unconfirmed, MissionOf, Supervisor!Unconfirmed
    <2>3. l \in Supervisor!Saved(sup.disk)
      BY <2>1, <2>2 DEF Inv, DiskInv, Supervisor!Durable, Supervisor!Saved, Unconfirmed
    <2> QED BY <2>2, <2>3
  <1> QED BY <1>1, Invariance, PTL

\* The client never counts on a lease that is over, of another mission, or longer than the
\* Supervisor does: delays and losses only shorten an authority (_reply, check).
THEOREM ClientIsWithin == Spec => []ClientWithinSupervisor
  <1>1. Inv => ClientWithinSupervisor
    BY DEF Inv, ClientInv, ClientWithinSupervisor, Valid, Held, Unconfirmed, MissionOf,
           Supervisor!Unconfirmed
  <1> QED BY <1>1, Invariance, PTL

=============================================================================
