----------------------- MODULE MissionPermissionProof -----------------------
(***************************************************************************)
(* Theorems about MissionPermission: for every set of leases and missions, *)
(* every number of restarts and every history of failed saves, the types,  *)
(* the write-ahead rule, the rules of a stop fault, and the refinement of  *)
(* LeaseContract.                                                          *)
(*                                                                         *)
(* The Supervisor's state is one record, and a handler a composition of    *)
(* operators on it.  Each operator has a lemma about its effect; Kept and  *)
(* Served say what a handler as a whole may do, and carry the invariant    *)
(* and the step of the contract.                                           *)
(***************************************************************************)
EXTENDS MissionPermission, TLAPS

USE PermissionAssumption

\* What a handler may do to a lease that was issued before.
Onward(r, q) ==
    \/ q.st = r.st /\ (IsUnconfirmed(r) => q.mission = r.mission)
    \/ IsUnconfirmed(r) /\ q.st = "stopped"
    \/ r.st = "granted" /\ q.st = "revoked" /\ q.mission = r.mission
    \/ r.st = "stopped" /\ q.st = "gone"

\* The file has the leases and the stop faults of s.
Written(s) ==
    /\ s.disk.stopFaults = s.stopFaults
    /\ \A l \in LeaseId :
          s.disk.leases[l] = IF IsUnconfirmed(s.lease[l]) THEN s.lease[l].mission ELSE NoMission

\* From s to t, by a handler that issues no lease.
Kept(s, t) ==
    /\ t \in Memory
    /\ \A l \in LeaseId : Onward(s.lease[l], t.lease[l])
    /\ \A l \in t.stopFaults : t.lease[l].st = "revoked"
    /\ \A l \in s.stopFaults : l \in t.stopFaults \/ t.lease[l].st = "stopped"
    /\ t.disk = s.disk \/ Written(t)

-----------------------------------------------------------------------------
(* The operators on the record.                                            *)

\* The types of the fields.
LEMMA MemoryFields ==
    ASSUME NEW s \in Memory
    PROVE  /\ s.lease \in [LeaseId -> Lease] /\ s.stopFaults \in SUBSET LeaseId
           /\ s.stateFault \in BOOLEAN /\ s.synced \in BOOLEAN /\ s.saveFailed \in BOOLEAN
           /\ s.disk \in File
  BY DEF Memory

\* Writing one lease of the record.
LEMMA OneLease ==
    ASSUME NEW s \in Memory, NEW l \in LeaseId, NEW r \in Lease
    PROVE  LET t == [s EXCEPT !.lease[l] = r]
           IN  /\ t \in Memory /\ t.lease[l] = r
               /\ \A k \in LeaseId \ {l} : t.lease[k] = s.lease[k]
               /\ t.stopFaults = s.stopFaults /\ t.disk = s.disk
               /\ t.saveFailed = s.saveFailed
  BY DEF Memory

LEMMA NoLeaseType ==
    ASSUME NEW st \in LeaseState
    PROVE  NoLease(st) \in Lease /\ NoLease(st).st = st
  BY DEF NoLease, Lease, CallState

\* update of one lease: it stays, is revoked, or is confirmed stopped.
LEMMA UpdatedEffect ==
    ASSUME NEW s \in Memory, NEW l \in LeaseId,
           NEW healthy \in BOOLEAN, NEW reachable \in BOOLEAN
    PROVE  LET q == Updated(s, l, healthy, reachable)
           IN  q \in Lease /\ Onward(s.lease[l], q)
  <1> DEFINE r == s.lease[l]
  <1>1. r \in Lease
    BY DEF Memory
  <1>2. \A sent \in BOOLEAN, call \in CallState :
          LET n == [r EXCEPT !.st = "revoked", !.asked = TRUE, !.dispatched = sent, !.call = call]
          IN n \in Lease /\ n.st = "revoked" /\ n.mission = r.mission
    BY <1>1 DEF Lease, LeaseState
  <1> DEFINE sent == r.dispatched \/ reachable
             call == IF sent /\ ~r.dispatched THEN "RUNNING" ELSE r.call
             n    == [r EXCEPT !.st = "revoked", !.asked = TRUE, !.dispatched = sent,
                               !.call = call]
             q    == Updated(s, l, healthy, reachable)
  <1>3. sent \in BOOLEAN /\ call \in CallState
    BY <1>1 DEF Lease, CallState
  <1>4. NoLease("stopped") \in Lease /\ NoLease("stopped").st = "stopped"
    BY NoLeaseType DEF LeaseState
  <1>5. n \in Lease /\ n.st = "revoked" /\ n.mission = r.mission
    <2> HIDE DEF sent, call
    <2> QED BY <1>2, <1>3
  <1> DEFINE revoked == \/ r.st = "revoked"
                        \/ r.st = "granted" /\ (r.left = 0 \/ ~Operable(s, healthy))
  <1>6. q = IF ~revoked THEN r
            ELSE IF sent /\ call = "STOPPED" THEN NoLease("stopped") ELSE n
    BY DEF Updated
  <1>7. q \in Lease /\ Onward(r, q)
    <2> HIDE DEF q, n, r, sent, call
    <2> QED BY <1>1, <1>4, <1>5, <1>6 DEF Onward, IsUnconfirmed
  <1> QED BY <1>7

\* update of all leases: what it confirms leaves the stop faults, what times out joins them.
LEMMA UpdateEffect ==
    ASSUME NEW s \in Memory, NEW healthy \in BOOLEAN, NEW reachable \in BOOLEAN,
           \A l \in s.stopFaults : s.lease[l].st = "revoked"
    PROVE  LET t == Update(s, healthy, reachable)
           IN  Kept(s, t) /\ t.disk = s.disk
  <1> DEFINE n == [l \in LeaseId |-> Updated(s, l, healthy, reachable)]
             confirmed == {l \in LeaseId : n[l].st = "stopped"}
             escalated == {l \in LeaseId : /\ n[l].st = "revoked"
                                           /\ \/ n[l].dispatched /\ n[l].call = "FAILED"
                                              \/ n[l].waited = StopTimeout}
             faults    == (s.stopFaults \ confirmed) \cup escalated
             t == [s EXCEPT !.lease = n, !.stopFaults = faults]
  <1>1. n \in [LeaseId -> Lease] /\ \A l \in LeaseId : Onward(s.lease[l], n[l])
    BY UpdatedEffect
  <1>2. faults \in SUBSET LeaseId
    BY MemoryFields
  <1>3. /\ t \in Memory /\ t.disk = s.disk /\ t.lease = n /\ t.stopFaults = faults
    <2>1. \A f \in [LeaseId -> Lease], g \in SUBSET LeaseId :
             LET u == [s EXCEPT !.lease = f, !.stopFaults = g]
             IN  u \in Memory /\ u.disk = s.disk /\ u.lease = f /\ u.stopFaults = g
      BY DEF Memory
    <2> HIDE DEF n, faults
    <2> QED BY <1>1, <1>2, <2>1
  <1>4. \A l \in faults : n[l].st = "revoked"
    <2> HIDE DEF n
    <2> QED BY <1>1, MemoryFields DEF Onward, IsUnconfirmed
  <1>5. \A l \in s.stopFaults : l \in faults \/ n[l].st = "stopped"
    <2> HIDE DEF n
    <2> QED BY MemoryFields
  <1>6. Update(s, healthy, reachable) = t
    BY DEF Update
  <1> QED
    <2> HIDE DEF n, faults, t
    <2> QED BY <1>1, <1>3, <1>4, <1>5, <1>6 DEF Kept

\* prune forgets stopped leases only.
LEMMA PruneEffect ==
    ASSUME NEW s \in Memory, NEW old \in SUBSET LeaseId
    PROVE  LET t == Prune(s, old)
           IN  /\ t \in Memory /\ t.disk = s.disk /\ t.stopFaults = s.stopFaults
               /\ \A l \in LeaseId : \/ t.lease[l] = s.lease[l]
                                     \/ l \in old /\ t.lease[l].st = "gone"
  <1> DEFINE f == [l \in LeaseId |-> IF l \in old THEN NoLease("gone") ELSE s.lease[l]]
  <1>1. f \in [LeaseId -> Lease]
    BY MemoryFields, NoLeaseType DEF LeaseState
  <1>2. \A g \in [LeaseId -> Lease] :
           LET t == [s EXCEPT !.lease = g]
           IN t \in Memory /\ t.lease = g /\ t.disk = s.disk /\ t.stopFaults = s.stopFaults
    BY DEF Memory
  <1>3. Prune(s, old) = [s EXCEPT !.lease = f]
    BY DEF Prune
  <1>4. \A l \in LeaseId : f[l] = s.lease[l] \/ (l \in old /\ f[l].st = "gone")
    BY NoLeaseType DEF LeaseState
  <1> QED
    <2> HIDE DEF f
    <2> QED BY <1>1, <1>2, <1>3, <1>4

\* A save writes the whole of memory, or nothing.
LEMMA PersistEffect ==
    ASSUME NEW s \in Memory, NEW saves \in BOOLEAN
    PROVE  LET t == Persist(s, saves)
           IN  /\ t \in Memory /\ t.lease = s.lease /\ t.stopFaults = s.stopFaults
               /\ \/ t.disk = s.disk /\ t.saveFailed
                  \/ Written(t)
  <1> DEFINE d == Durable(s)
  <1>1. d \in File /\ d.stopFaults = s.stopFaults
        /\ \A l \in LeaseId : d.leases[l] = IF IsUnconfirmed(s.lease[l])
                                            THEN s.lease[l].mission ELSE NoMission
    BY MemoryFields DEF Durable, File, Lease
  <1> HIDE DEF d
  <1>2. LET t == [s EXCEPT !.disk = d, !.synced = TRUE, !.saveFailed = FALSE]
        IN  t \in Memory /\ t.lease = s.lease /\ t.stopFaults = s.stopFaults /\ t.disk = d
    BY <1>1 DEF Memory
  <1>3. LET t == [s EXCEPT !.stateFault = TRUE, !.saveFailed = TRUE]
        IN  t \in Memory /\ t.lease = s.lease /\ t.stopFaults = s.stopFaults /\ t.disk = s.disk
            /\ t.saveFailed
    BY DEF Memory
  <1>4. \/ Persist(s, saves) = s /\ d = s.disk
        \/ Persist(s, saves) = [s EXCEPT !.disk = d, !.synced = TRUE, !.saveFailed = FALSE]
        \/ Persist(s, saves) = [s EXCEPT !.stateFault = TRUE, !.saveFailed = TRUE]
    <2> USE DEF d
    <2> QED BY DEF Persist
  <1> QED BY <1>1, <1>2, <1>3, <1>4 DEF Written

\* The whole tick, with its save.
LEMMA TickedEffect ==
    ASSUME NEW s \in Memory, \A l \in s.stopFaults : s.lease[l].st = "revoked",
           NEW in, in.healthy \in BOOLEAN, in.reachable \in BOOLEAN, in.saves \in BOOLEAN,
           in.old \subseteq {l \in LeaseId : s.lease[l].st = "stopped"}
    PROVE  Kept(s, Ticked(s, in))
  <1> DEFINE u == Update(s, in.healthy, in.reachable)
             p == Prune(u, in.old)
             t == Persist(p, in.saves)
  <1>1. Kept(s, u) /\ u.disk = s.disk
    BY UpdateEffect
  <1>2. in.old \in SUBSET LeaseId
    OBVIOUS
  <1>3. /\ p \in Memory /\ p.disk = u.disk /\ p.stopFaults = u.stopFaults
        /\ \A l \in LeaseId : \/ p.lease[l] = u.lease[l]
                              \/ l \in in.old /\ p.lease[l].st = "gone"
    <2> HIDE DEF u
    <2>1. u \in Memory
      BY <1>1 DEF Kept
    <2> QED BY <1>2, <2>1, PruneEffect
  <1>4. /\ t \in Memory /\ t.lease = p.lease /\ t.stopFaults = p.stopFaults
        /\ t.disk = p.disk \/ Written(t)
    <2> HIDE DEF p
    <2> QED BY <1>3, PersistEffect
  <1>5. Kept(s, t)
    <2> HIDE DEF u, p, t
    <2>1. \A l \in LeaseId : Onward(s.lease[l], t.lease[l])
      BY <1>1, <1>3, <1>4 DEF Kept, Onward, IsUnconfirmed
    <2>2. u.stopFaults \subseteq LeaseId /\ s.stopFaults \subseteq LeaseId
      BY <1>1, MemoryFields DEF Kept
    <2>3. \A l \in t.stopFaults : t.lease[l].st = "revoked"
      BY <1>1, <1>3, <1>4, <2>2 DEF Kept, Onward, IsUnconfirmed
    <2>4. \A l \in s.stopFaults : l \in t.stopFaults \/ t.lease[l].st = "stopped"
      BY <1>1, <1>3, <1>4, <2>2 DEF Kept
    <2> QED BY <1>1, <1>3, <1>4, <2>1, <2>3, <2>4 DEF Kept
  <1> QED BY <1>5 DEF Ticked, Settled

\* Issuing or renewing a lease: when the save fails the lease is revoked in memory.
LEMMA GrantEffect ==
    ASSUME NEW t \in Memory, NEW l \in LeaseId, NEW m \in Mission \cup {NoMission},
           NEW saves \in BOOLEAN
    PROVE  LET u == Withdrawn(Persist(Granted(t, l, m), saves), l)
           IN  /\ u \in Memory /\ u.stopFaults = t.stopFaults
               /\ \A k \in LeaseId \ {l} : u.lease[k] = t.lease[k]
               /\ u.lease[l].st \in {"granted", "revoked"} /\ u.lease[l].mission = m
               /\ \/ u.disk = t.disk /\ u.lease[l].st = "revoked"
                  \/ Written(u)
  <1> DEFINE r == [t.lease[l] EXCEPT !.st = "granted", !.mission = m, !.left = LeaseTime]
             g == [t EXCEPT !.lease[l] = r]
             p == Persist(g, saves)
             q == [p.lease[l] EXCEPT !.st = "revoked"]
             w == [p EXCEPT !.lease[l] = q]
  <1>1. r \in Lease /\ r.st = "granted" /\ r.mission = m
    <2>1. t.lease[l] \in Lease
      BY MemoryFields
    <2>2. \A x \in Lease :
             LET y == [x EXCEPT !.st = "granted", !.mission = m, !.left = LeaseTime]
             IN  y \in Lease /\ y.st = "granted" /\ y.mission = m
      <3>1. LeaseTime \in 0 .. LeaseTime /\ "granted" \in LeaseState
        BY DEF LeaseState
      <3> QED BY <3>1 DEF Lease
    <2> QED BY <2>1, <2>2
  <1>2. /\ g \in Memory /\ g.lease[l] = r /\ g.stopFaults = t.stopFaults /\ g.disk = t.disk
        /\ \A k \in LeaseId \ {l} : g.lease[k] = t.lease[k]
    <2> HIDE DEF r
    <2> QED BY <1>1, OneLease
  <1>3. /\ p \in Memory /\ p.lease = g.lease /\ p.stopFaults = g.stopFaults
        /\ \/ p.disk = g.disk /\ p.saveFailed
           \/ Written(p)
    <2> HIDE DEF g
    <2> QED BY <1>2, PersistEffect
  <1>4. q \in Lease /\ q.st = "revoked" /\ q.mission = m
    <2> HIDE DEF p, g, r
    <2>1. p.lease[l] \in Lease /\ p.lease[l].mission = m
      BY <1>1, <1>2, <1>3, MemoryFields
    <2> QED BY <2>1 DEF Lease, LeaseState
  <1>5. /\ w \in Memory /\ w.lease[l] = q /\ w.stopFaults = p.stopFaults /\ w.disk = p.disk
        /\ \A k \in LeaseId \ {l} : w.lease[k] = p.lease[k]
    <2> HIDE DEF q, p, g, r
    <2> QED BY <1>3, <1>4, OneLease
  <1>6. Written(p) => Written(w)
    <2> HIDE DEF q, p, w, g, r
    <2> QED BY <1>1, <1>2, <1>3, <1>4, <1>5 DEF Written, IsUnconfirmed
  <1>7. Granted(t, l, m) = g
    BY DEF Granted
  <1>8. Withdrawn(p, l) = IF p.saveFailed THEN w ELSE p
    <2> HIDE DEF p
    <2> QED BY DEF Withdrawn
  <1>9. LET u == IF p.saveFailed THEN w ELSE p
        IN  /\ u \in Memory /\ u.stopFaults = t.stopFaults
            /\ \A k \in LeaseId \ {l} : u.lease[k] = t.lease[k]
            /\ u.lease[l].st \in {"granted", "revoked"} /\ u.lease[l].mission = m
            /\ \/ u.disk = t.disk /\ u.lease[l].st = "revoked"
               \/ Written(u)
    <2> HIDE DEF q, p, w, g, r
    <2> QED BY <1>1, <1>2, <1>3, <1>4, <1>5, <1>6
  <1> QED BY <1>7, <1>8, <1>9

\* Time that passes changes no state of a lease.
LEMMA OlderEffect ==
    ASSUME NEW s \in Memory, \A l \in s.stopFaults : s.lease[l].st = "revoked"
    PROVE  Kept(s, Older(s))
  <1> DEFINE f == [l \in LeaseId |->
                     [s.lease[l] EXCEPT
                        !.left = IF @ > 0 THEN @ - 1 ELSE @,
                        !.waited = IF s.lease[l].asked /\ @ < StopTimeout THEN @ + 1 ELSE @]]
             t == [s EXCEPT !.lease = f]
  <1>1. \A l \in LeaseId : f[l] \in Lease /\ f[l].st = s.lease[l].st
                           /\ f[l].mission = s.lease[l].mission
    <2> SUFFICES ASSUME NEW l \in LeaseId
                 PROVE  f[l] \in Lease /\ f[l].st = s.lease[l].st
                        /\ f[l].mission = s.lease[l].mission
      OBVIOUS
    <2> DEFINE r == s.lease[l]
               x == IF r.left > 0 THEN r.left - 1 ELSE r.left
               y == IF r.asked /\ r.waited < StopTimeout THEN r.waited + 1 ELSE r.waited
    <2>1. r \in Lease
      BY MemoryFields
    <2>2. x \in 0 .. LeaseTime /\ y \in 0 .. StopTimeout
      BY <2>1 DEF Lease
    <2>3. f[l] = [r EXCEPT !.left = x, !.waited = y]
      OBVIOUS
    <2>4. \A a \in 0 .. LeaseTime, b \in 0 .. StopTimeout :
             LET q == [r EXCEPT !.left = a, !.waited = b]
             IN  q \in Lease /\ q.st = r.st /\ q.mission = r.mission
      BY <2>1 DEF Lease
    <2> QED
      <3> DEFINE q == [r EXCEPT !.left = x, !.waited = y]
      <3>1. q \in Lease /\ q.st = r.st /\ q.mission = r.mission
        <4> HIDE DEF x, y, r
        <4> QED BY <2>2, <2>4
      <3>2. f[l] = q
        BY <2>3
      <3> HIDE DEF q, f
      <3> QED BY <3>1, <3>2
  <1>2. t \in Memory /\ t.lease = f /\ t.disk = s.disk /\ t.stopFaults = s.stopFaults
    <2>1. f \in [LeaseId -> Lease]
      BY <1>1
    <2>2. \A g \in [LeaseId -> Lease] :
             LET u == [s EXCEPT !.lease = g]
             IN  u \in Memory /\ u.lease = g /\ u.disk = s.disk /\ u.stopFaults = s.stopFaults
      BY DEF Memory
    <2> HIDE DEF f
    <2> QED BY <2>1, <2>2
  <1>3. Older(s) = t
    BY DEF Older
  <1> QED
    <2> HIDE DEF f, t
    <2> QED BY <1>1, <1>2, <1>3, MemoryFields DEF Kept, Onward

\* Nor does the progress of the stop call.
LEMMA CallEffect ==
    ASSUME NEW s \in Memory, \A l \in s.stopFaults : s.lease[l].st = "revoked",
           NEW l \in LeaseId, NEW c \in CallState
    PROVE  Kept(s, [s EXCEPT !.lease[l].call = c])
  <1> DEFINE r == [s.lease[l] EXCEPT !.call = c]
             t == [s EXCEPT !.lease[l] = r]
  <1>1. r \in Lease /\ r.st = s.lease[l].st /\ r.mission = s.lease[l].mission
    <2>1. \A x \in Lease : LET y == [x EXCEPT !.call = c]
                           IN  y \in Lease /\ y.st = x.st /\ y.mission = x.mission
      BY DEF Lease
    <2> QED BY <2>1, MemoryFields
  <1>2. /\ t \in Memory /\ t.lease[l] = r /\ t.stopFaults = s.stopFaults /\ t.disk = s.disk
        /\ \A k \in LeaseId \ {l} : t.lease[k] = s.lease[k]
    <2> HIDE DEF r
    <2> QED BY <1>1, OneLease
  <1>3. [s EXCEPT !.lease[l].call = c] = t
    OBVIOUS
  <1>4. Kept(s, t)
    <2> HIDE DEF r, t
    <2> QED BY <1>1, <1>2, MemoryFields DEF Kept, Onward
  <1> QED BY <1>3, <1>4

\* A release forgets the lease, or, unsaved, keeps it revoked.
LEMMA ReleaseEffect ==
    ASSUME NEW t \in Memory, NEW l \in LeaseId, NEW saves \in BOOLEAN
    PROVE  LET u == Persist([t EXCEPT !.lease[l] = NoLease("stopped")], saves)
           IN  /\ u \in Memory /\ u.stopFaults = t.stopFaults
               /\ \A k \in LeaseId \ {l} : u.lease[k] = t.lease[k]
               /\ u.lease[l].st = "stopped"
               /\ u.disk = t.disk \/ Written(u)
  <1> DEFINE r == NoLease("stopped")
             g == [t EXCEPT !.lease[l] = r]
  <1>1. r \in Lease /\ r.st = "stopped"
    BY NoLeaseType DEF LeaseState
  <1>2. /\ g \in Memory /\ g.lease[l] = r /\ g.stopFaults = t.stopFaults /\ g.disk = t.disk
        /\ \A k \in LeaseId \ {l} : g.lease[k] = t.lease[k]
    <2> HIDE DEF r
    <2> QED BY <1>1, OneLease
  <1> QED
    <2> HIDE DEF g, r
    <2>1. LET u == Persist(g, saves)
          IN  /\ u \in Memory /\ u.lease = g.lease /\ u.stopFaults = g.stopFaults
              /\ u.disk = g.disk \/ Written(u)
      BY <1>2, PersistEffect
    <2>2. LET u == Persist(g, saves)
          IN  /\ u \in Memory /\ u.stopFaults = t.stopFaults
              /\ \A k \in LeaseId \ {l} : u.lease[k] = t.lease[k]
              /\ u.lease[l].st = "stopped"
              /\ u.disk = t.disk \/ Written(u)
      BY <1>1, <1>2, <2>1
    <2> QED BY <2>2 DEF g, r

\* A restored lease is revoked.
LEMMA RestoredEffect ==
    ASSUME sup \in Memory, NEW l \in LeaseId, NEW file \in File
    PROVE  LET r == Restored(l, file)
           IN  /\ r \in Lease
               /\ l \in Saved(file) => r.st = "revoked" /\ r.mission = file.leases[l]
               /\ l \notin Saved(file) =>
                     r.st = IF sup.lease[l].st = "free" THEN "free" ELSE "gone"
  <1>1. \A st \in LeaseState, m \in Mission \cup {NoMission} :
           LET q == [NoLease(st) EXCEPT !.mission = m]
           IN  q \in Lease /\ q.st = st /\ q.mission = m
    <2>1. \A x \in Lease, m \in Mission \cup {NoMission} :
             LET q == [x EXCEPT !.mission = m]
             IN  q \in Lease /\ q.st = x.st /\ q.mission = m
      BY DEF Lease
    <2> QED BY <2>1, NoLeaseType
  <1>2. file.leases[l] \in Mission \cup {NoMission}
    BY DEF File
  <1> QED BY <1>1, <1>2, NoLeaseType DEF Restored, LeaseState

\* A start restores the file, or, when it cannot be read, nothing and a locked state.
LEMMA StartEffect ==
    ASSUME sup \in Memory, NEW readable \in BOOLEAN
    PROVE  \E file \in File :
              /\ IF readable THEN file = sup.disk
                 ELSE file.stopFaults = {} /\ Saved(file) = {}
              /\ LET t == Start(readable)
                 IN  /\ t \in Memory /\ t.disk = sup.disk /\ t.stopFaults = file.stopFaults
                     /\ ~readable => t.stateFault
                     /\ t.lease = [l \in LeaseId |-> Restored(l, file)]
  <1> DEFINE none == [NoFile EXCEPT !.stateFault = TRUE]
             file == IF readable THEN sup.disk ELSE none
             f    == [l \in LeaseId |-> Restored(l, file)]
             t    == [lease |-> f, stopFaults |-> file.stopFaults,
                      stateFault |-> file.stateFault, synced |-> FALSE,
                      saveFailed |-> FALSE, disk |-> sup.disk]
  <1>1. none \in File /\ none.stopFaults = {} /\ none.stateFault /\ Saved(none) = {}
    BY DEF NoFile, File, Saved
  <1>2. file \in File /\ (readable => file = sup.disk) /\ (~readable => file = none)
    BY <1>1, MemoryFields
  <1>3. f \in [LeaseId -> Lease]
    <2> HIDE DEF file
    <2> QED BY <1>2, RestoredEffect
  <1>4. t \in Memory /\ t.disk = sup.disk /\ t.stopFaults = file.stopFaults /\ t.lease = f
        /\ t.stateFault = file.stateFault
    <2> HIDE DEF f, file
    <2>1. sup.disk \in File /\ file.stopFaults \in SUBSET LeaseId /\ file.stateFault \in BOOLEAN
      BY <1>2, MemoryFields DEF File
    <2> QED BY <1>3, <2>1 DEF Memory
  <1>5. Start(readable) = t
    BY DEF Start
  <1> QED
    <2> HIDE DEF t, none
    <2> QED BY <1>1, <1>2, <1>4, <1>5

-----------------------------------------------------------------------------
(* The invariant.                                                          *)

\* No two unconfirmed leases of one mission.
Distinct(s) == \A j, k \in Unconfirmed(s) : s.lease[j].mission = s.lease[k].mission => j = k

\* The file alone: what Start would make of it is right again.
FileInv(file) ==
    /\ file.stopFaults \subseteq Saved(file)
    /\ \A j, k \in Saved(file) : file.leases[j] = file.leases[k] => j = k

\* The memory alone: a stop fault has its lease, and an unconfirmed lease its mission.
MemoryInv(s) ==
    /\ \A l \in Unconfirmed(s) : s.lease[l].mission \in Mission
    /\ Distinct(s)
    /\ \A l \in s.stopFaults : s.lease[l].st = "revoked"

\* Memory and file, for the leases a client was given: an unconfirmed one is saved under
\* its mission.
HandedInv(s, h) ==
    \A l \in h : /\ s.lease[l].st # "free"
                 /\ l \in Unconfirmed(s) => s.disk.leases[l] = s.lease[l].mission

\* Only issued leases are in the file: a free one cannot come back by a restart.
IssuedInv(s) == \A l \in Saved(s.disk) : s.lease[l].st # "free"

Good(s, h) == /\ s \in Memory /\ MemoryInv(s) /\ FileInv(s.disk)
              /\ IssuedInv(s) /\ HandedInv(s, h)

\* The last conjunct but one makes the restart of the last epoch possible.
Inv == /\ epoch \in 0 .. MaxEpoch /\ up \in BOOLEAN /\ handed \subseteq LeaseId
       /\ ~up => epoch < MaxEpoch
       /\ Good(sup, handed)

\* A file written from a good memory is good.
LEMMA WrittenFile ==
    ASSUME NEW t \in Memory, MemoryInv(t), Written(t)
    PROVE  FileInv(t.disk) /\ IssuedInv(t)
  <1>1. Saved(t.disk) = Unconfirmed(t)
    BY PermissionAssumption DEF Saved, Unconfirmed, Written, MemoryInv
  <1>2. t.stopFaults \subseteq Unconfirmed(t)
    BY MemoryFields DEF Unconfirmed, IsUnconfirmed, MemoryInv
  <1>3. FileInv(t.disk)
    BY <1>1, <1>2 DEF FileInv, Written, Unconfirmed, MemoryInv, Distinct
  <1>4. IssuedInv(t)
    BY <1>1 DEF IssuedInv, Unconfirmed, IsUnconfirmed
  <1> QED BY <1>3, <1>4

\* A handler that issues no lease keeps the invariant.
LEMMA KeptGood ==
    ASSUME NEW s, NEW h \in SUBSET LeaseId, Good(s, h), NEW t, Kept(s, t)
    PROVE  Good(t, h)
  <1>1. \A l \in Unconfirmed(t) : /\ l \in Unconfirmed(s)
                                  /\ t.lease[l].mission = s.lease[l].mission
    BY DEF Kept, Onward, Unconfirmed, IsUnconfirmed
  <1>2. MemoryInv(t)
    BY <1>1 DEF Good, MemoryInv, Distinct, Kept
  <1>3. FileInv(t.disk) /\ IssuedInv(t)
    <2>1. CASE Written(t)
      BY <1>2, <2>1, WrittenFile DEF Kept
    <2>2. CASE t.disk = s.disk
      BY <2>2 DEF Kept, Good, IssuedInv, Onward, IsUnconfirmed, Saved
    <2> QED BY <2>1, <2>2 DEF Kept
  <1>4. HandedInv(t, h)
    <2> SUFFICES ASSUME NEW l \in h
                 PROVE  /\ t.lease[l].st # "free"
                        /\ l \in Unconfirmed(t) => t.disk.leases[l] = t.lease[l].mission
      BY DEF HandedInv
    <2>1. t.lease[l].st # "free"
      BY DEF Good, HandedInv, Kept, Onward
    <2>2. ASSUME l \in Unconfirmed(t)
          PROVE  t.disk.leases[l] = t.lease[l].mission
      <3>1. CASE t.disk = s.disk
        BY <1>1, <2>2, <3>1 DEF Good, HandedInv
      <3>2. CASE Written(t)
        BY <2>2, <3>2 DEF Written, Unconfirmed
      <3> QED BY <3>1, <3>2 DEF Kept
    <2> QED BY <2>1, <2>2
  <1> QED BY <1>2, <1>3, <1>4 DEF Good, Kept

-----------------------------------------------------------------------------
(* The handlers.                                                           *)

\* What a handler may do: it issues one lease at most.
Served(s, u) ==
    /\ u \in Memory
    /\ \A l \in LeaseId : \/ Onward(s.lease[l], u.lease[l])
                          \/ s.lease[l].st = "free" /\ u.lease[l].st \in {"granted", "revoked"}
    /\ \A j, k \in LeaseId :
          /\ s.lease[j].st = "free" /\ u.lease[j].st # "free"
          /\ s.lease[k].st = "free" /\ u.lease[k].st # "free"
          => j = k
    /\ \A l \in s.stopFaults : l \in u.stopFaults \/ u.lease[l].st = "stopped"

LEMMA KeptServed ==
    ASSUME NEW s, NEW t, Kept(s, t)
    PROVE  Served(s, t)
  BY DEF Kept, Served, Onward, IsUnconfirmed

\* The tick issues none.
LEMMA TickKept ==
    ASSUME Inv, NEW in \in Inputs
    PROVE  Kept(sup, Ticked(sup, in))
  BY TickedEffect DEF Inv, Good, MemoryInv, Inputs

LEMMA TicksKept ==
    ASSUME Inv, NEW t \in Ticks
    PROVE  Kept(sup, t.sup) /\ Good(t.sup, handed)
  <1>1. PICK in \in Inputs : t.sup = Ticked(sup, in)
    BY DEF Ticks
  <1> QED BY <1>1, TickKept, KeptGood DEF Inv

\* A lease that was issued and saved may be handed out.
LEMMA GrantGood ==
    ASSUME NEW h \in SUBSET LeaseId, NEW t, Good(t, h), NEW l \in LeaseId, NEW m \in Mission,
           NEW saves \in BOOLEAN,
           \/ t.lease[l].st = "free" /\ Vacant(t, m)
           \/ t.lease[l].st = "granted" /\ t.lease[l].mission = m
    PROVE  LET u == Withdrawn(Persist(Granted(t, l, m), saves), l)
           IN  Good(u, h) /\ (u.lease[l].st = "granted" => Good(u, h \cup {l}))
  <1> DEFINE u == Withdrawn(Persist(Granted(t, l, m), saves), l)
  <1>1. /\ u \in Memory /\ u.stopFaults = t.stopFaults
        /\ \A k \in LeaseId \ {l} : u.lease[k] = t.lease[k]
        /\ u.lease[l].st \in {"granted", "revoked"} /\ u.lease[l].mission = m
        /\ \/ u.disk = t.disk /\ u.lease[l].st = "revoked"
           \/ Written(u)
    BY GrantEffect DEF Good
  <1> HIDE DEF u
  <1>2. Unconfirmed(u) = Unconfirmed(t) \cup {l}
    BY <1>1 DEF Unconfirmed, IsUnconfirmed
  <1>3. MemoryInv(u)
    <2>1. \A k \in Unconfirmed(u) : u.lease[k].mission \in Mission
      BY <1>1, <1>2 DEF Good, MemoryInv, Unconfirmed
    <2>2. Distinct(u)
      <3>1. \A k \in Unconfirmed(t) \ {l} : t.lease[k].mission # m
        BY DEF Good, MemoryInv, Distinct, Vacant, Unconfirmed, IsUnconfirmed
      <3> QED BY <1>1, <1>2, <3>1 DEF Good, MemoryInv, Distinct, Unconfirmed
    <2>3. \A k \in u.stopFaults : u.lease[k].st = "revoked"
      BY <1>1, MemoryFields DEF Good, MemoryInv
    <2> QED BY <2>1, <2>2, <2>3 DEF MemoryInv
  <1>4. FileInv(u.disk) /\ IssuedInv(u)
    <2>1. CASE Written(u)
      BY <1>1, <1>3, <2>1, WrittenFile
    <2>2. CASE u.disk = t.disk
      BY <1>1, <2>2 DEF Good, IssuedInv, Saved
    <2> QED BY <1>1, <2>1, <2>2
  <1>5. ASSUME NEW k \in h
        PROVE  /\ u.lease[k].st # "free"
               /\ k \in Unconfirmed(u) => u.disk.leases[k] = u.lease[k].mission
    <2>1. u.lease[k].st # "free"
      BY <1>1, <1>5 DEF Good, HandedInv
    <2>2. CASE Written(u)
      BY <2>1, <2>2 DEF Written, Unconfirmed
    <2>3. CASE u.disk = t.disk
      <3>1. k = l => t.lease[l].st = "granted"
        BY <1>5 DEF Good, HandedInv
      <3> QED BY <1>1, <1>2, <1>5, <2>1, <2>3, <3>1
              DEF Good, HandedInv, Unconfirmed, IsUnconfirmed
    <2> QED BY <1>1, <2>2, <2>3
  <1>6. u.lease[l].st = "granted" => u.disk.leases[l] = m
    BY <1>1 DEF Written, IsUnconfirmed
  <1> QED BY <1>1, <1>3, <1>4, <1>5, <1>6 DEF Good, HandedInv, u

\* The three requests for a permission, and the reset of a state fault.
LEMMA AcquireStep ==
    ASSUME Inv, NEW m \in Mission, Acquire(m)
    PROVE  /\ Good(sup', handed') /\ Served(sup, sup')
           /\ \/ handed' = handed
              \/ \E l \in LeaseId : /\ handed' = handed \cup {l} /\ sup.lease[l].st = "free"
                                     /\ sup'.lease[l].st = "granted"
  <1>1. PICK t \in Ticks, l \in LeaseId, saves \in BOOLEAN :
           /\ t.sup.lease[l].st = "free" /\ Vacant(t.sup, m)
           /\ sup' = Withdrawn(Persist(Granted(t.sup, l, m), saves), l)
           /\ handed' = IF sup'.lease[l].st = "granted" THEN handed \cup {l} ELSE handed
    BY DEF Acquire
  <1>2. Kept(sup, t.sup) /\ Good(t.sup, handed)
    BY TicksKept
  <1>3. Good(sup', handed) /\ (sup'.lease[l].st = "granted" => Good(sup', handed \cup {l}))
    BY <1>1, <1>2, GrantGood DEF Inv
  <1>4. /\ sup' \in Memory /\ sup'.stopFaults = t.sup.stopFaults
        /\ \A k \in LeaseId \ {l} : sup'.lease[k] = t.sup.lease[k]
        /\ sup'.lease[l].st \in {"granted", "revoked"}
    BY <1>1, <1>2, GrantEffect DEF Kept
  <1>5. sup.lease[l].st = "free"
    BY <1>1, <1>2 DEF Kept, Onward, IsUnconfirmed
  <1>6. Served(sup, sup')
    <2>1. \A k \in LeaseId \ {l} : Onward(sup.lease[k], sup'.lease[k])
      BY <1>2, <1>4 DEF Kept
    <2>2. \A k \in LeaseId : sup.lease[k].st = "free" /\ sup'.lease[k].st # "free" => k = l
      BY <2>1 DEF Onward, IsUnconfirmed
    <2>3. \A k \in sup.stopFaults : k \in sup'.stopFaults \/ sup'.lease[k].st = "stopped"
      BY <1>1, <1>2, <1>4, MemoryFields DEF Kept, Inv, Good
    <2> QED BY <1>4, <1>5, <2>1, <2>2, <2>3 DEF Served
  <1> QED BY <1>1, <1>3, <1>5, <1>6

LEMMA RenewStep ==
    ASSUME Inv, NEW l \in LeaseId, Renew(l)
    PROVE  Good(sup', handed) /\ Served(sup, sup')
  <1>1. PICK t \in Ticks, saves \in BOOLEAN :
           /\ t.sup.lease[l].st = "granted"
           /\ sup' = Withdrawn(Persist(Granted(t.sup, l, t.sup.lease[l].mission), saves), l)
    BY DEF Renew
  <1> DEFINE m == t.sup.lease[l].mission
  <1>2. Kept(sup, t.sup) /\ Good(t.sup, handed)
    BY TicksKept
  <1>3. m \in Mission
    BY <1>1, <1>2 DEF Good, MemoryInv, Unconfirmed, IsUnconfirmed
  <1>4. Good(sup', handed)
    <2> HIDE DEF m
    <2>1. t.sup.lease[l].mission = m
      BY DEF m
    <2> QED BY <1>1, <1>2, <1>3, <2>1, GrantGood DEF Inv
  <1>5. /\ sup' \in Memory /\ sup'.stopFaults = t.sup.stopFaults
        /\ \A k \in LeaseId \ {l} : sup'.lease[k] = t.sup.lease[k]
        /\ sup'.lease[l].st \in {"granted", "revoked"} /\ sup'.lease[l].mission = m
    BY <1>1, <1>2, <1>3, GrantEffect DEF Kept
  <1>6. Served(sup, sup')
    <2>1. sup.lease[l].st = "granted" /\ sup.lease[l].mission = m
      BY <1>1, <1>2 DEF Kept, Onward, IsUnconfirmed
    <2>2. \A k \in LeaseId : Onward(sup.lease[k], sup'.lease[k])
      BY <1>2, <1>5, <2>1 DEF Kept, Onward
    <2>3. \A k \in sup.stopFaults : k \in sup'.stopFaults \/ sup'.lease[k].st = "stopped"
      BY <1>1, <1>2, <1>5, MemoryFields DEF Kept, Inv, Good
    <2>4. \A k \in LeaseId : sup.lease[k].st = "free" => sup'.lease[k].st = "free"
      BY <2>2 DEF Onward, IsUnconfirmed
    <2> QED BY <1>5, <2>2, <2>3, <2>4 DEF Served
  <1> QED BY <1>4, <1>6

LEMMA ReleaseStep ==
    ASSUME Inv, NEW l \in LeaseId, Release(l)
    PROVE  Good(sup', handed) /\ Served(sup, sup')
  <1>1. PICK t \in Ticks, saves \in BOOLEAN :
           /\ t.sup.lease[l].st = "granted"
           /\ sup' = Persist([t.sup EXCEPT !.lease[l] = NoLease("stopped")], saves)
    BY DEF Release
  <1>2. Kept(sup, t.sup) /\ Good(t.sup, handed)
    BY TicksKept
  <1>3. /\ sup' \in Memory /\ sup'.stopFaults = t.sup.stopFaults
        /\ \A k \in LeaseId \ {l} : sup'.lease[k] = t.sup.lease[k]
        /\ sup'.lease[l].st = "stopped"
        /\ sup'.disk = t.sup.disk \/ Written(sup')
    BY <1>1, <1>2, ReleaseEffect DEF Kept
  <1>4. Kept(t.sup, sup')
    <2>1. \A k \in LeaseId : Onward(t.sup.lease[k], sup'.lease[k])
      BY <1>1, <1>3 DEF Onward, IsUnconfirmed
    <2>2. \A k \in t.sup.stopFaults : k \in LeaseId /\ t.sup.lease[k].st = "revoked"
      BY <1>2, MemoryFields DEF Good, MemoryInv
    <2> QED BY <1>1, <1>3, <2>1, <2>2 DEF Kept
  <1>5. Good(sup', handed)
    BY <1>2, <1>4, KeptGood DEF Inv
  <1>6. Served(sup, sup')
    <2>1. sup.lease[l].st = "granted"
      BY <1>1, <1>2 DEF Kept, Onward, IsUnconfirmed
    <2>2. \A k \in LeaseId : Onward(sup.lease[k], sup'.lease[k])
      BY <1>2, <1>3, <2>1 DEF Kept, Onward, IsUnconfirmed
    <2>3. \A k \in sup.stopFaults : k \in sup'.stopFaults \/ sup'.lease[k].st = "stopped"
      BY <1>2, <1>3, MemoryFields DEF Kept, Inv, Good
    <2>4. \A k \in LeaseId : sup.lease[k].st = "free" => sup'.lease[k].st = "free"
      BY <2>2 DEF Onward, IsUnconfirmed
    <2> QED BY <1>3, <2>2, <2>3, <2>4 DEF Served
  <1> QED BY <1>5, <1>6

LEMMA ResetStateStep ==
    ASSUME Inv, ResetStateFault
    PROVE  Kept(sup, sup')
  <1> DEFINE s == [sup EXCEPT !.stateFault = FALSE]
  <1>1. /\ s \in Memory /\ s.lease = sup.lease /\ s.stopFaults = sup.stopFaults
        /\ s.disk = sup.disk
    BY DEF Inv, Good, Memory
  <1>2. PICK in \in Inputs : sup' = Ticked(s, in)
    BY DEF ResetStateFault
  <1> HIDE DEF s
  <1>3. Kept(s, sup')
    BY <1>1, <1>2, TickedEffect DEF Inv, Good, MemoryInv, Inputs
  <1> QED BY <1>1, <1>3 DEF Kept

\* A restart has only the file: it revokes what it finds there, or locks the operation.
LEMMA RestartStep ==
    ASSUME Inv, Restart
    PROVE  /\ Good(sup', handed)
           /\ \A l \in LeaseId : IF sup.lease[l].st = "free" THEN sup'.lease[l].st = "free"
                                 ELSE sup'.lease[l].st \in {"revoked", "gone"}
           /\ \A l \in handed \cap Unconfirmed(sup) :
                 \/ sup'.stateFault
                 \/ sup'.lease[l].st = "revoked" /\ sup'.lease[l].mission = sup.lease[l].mission
  <1>1. PICK readable \in BOOLEAN : sup' = Start(readable)
    BY DEF Restart
  <1>2. PICK file \in File :
           /\ IF readable THEN file = sup.disk
              ELSE file.stopFaults = {} /\ Saved(file) = {}
           /\ sup' \in Memory /\ sup'.disk = sup.disk /\ sup'.stopFaults = file.stopFaults
           /\ ~readable => sup'.stateFault
           /\ sup'.lease = [l \in LeaseId |-> Restored(l, file)]
    BY <1>1, StartEffect DEF Inv, Good
  <1>3. \A l \in LeaseId :
           /\ l \in Saved(file) => /\ sup'.lease[l].st = "revoked"
                                   /\ sup'.lease[l].mission = file.leases[l]
           /\ l \notin Saved(file) =>
                 sup'.lease[l].st = IF sup.lease[l].st = "free" THEN "free" ELSE "gone"
    BY <1>2, RestoredEffect DEF Inv, Good
  <1>4. FileInv(file) /\ \A l \in Saved(file) : file.leases[l] \in Mission
    <2>1. FileInv(file)
      BY <1>2 DEF FileInv, Inv, Good
    <2> QED BY <2>1 DEF Saved, File
  <1>5. Unconfirmed(sup') = Saved(file)
    BY <1>3 DEF Unconfirmed, IsUnconfirmed, Saved
  <1>6. MemoryInv(sup')
    BY <1>2, <1>3, <1>4, <1>5 DEF MemoryInv, FileInv, Distinct, Saved
  <1>7. \A l \in Saved(file) : sup.lease[l].st # "free"
    BY <1>2 DEF Inv, Good, IssuedInv
  <1>8. FileInv(sup'.disk) /\ IssuedInv(sup')
    <2>1. FileInv(sup'.disk) /\ sup'.disk = sup.disk
      BY <1>2 DEF Inv, Good
    <2>2. ASSUME NEW l \in Saved(sup.disk) PROVE sup'.lease[l].st # "free"
      BY <1>3, <1>7, <2>2 DEF Inv, Good, IssuedInv, Saved
    <2> QED BY <2>1, <2>2 DEF IssuedInv
  <1>9. ASSUME NEW l \in handed
        PROVE  /\ sup'.lease[l].st # "free"
               /\ l \in Unconfirmed(sup') => sup'.disk.leases[l] = sup'.lease[l].mission
    <2>1. l \in LeaseId /\ sup.lease[l].st # "free"
      BY <1>9 DEF Inv, Good, HandedInv
    <2>2. l \in Saved(file) => readable
      BY <1>2
    <2> QED BY <1>2, <1>3, <1>5, <2>1, <2>2
  <1>10. \A l \in LeaseId : IF sup.lease[l].st = "free" THEN sup'.lease[l].st = "free"
                            ELSE sup'.lease[l].st \in {"revoked", "gone"}
    BY <1>3, <1>7
  <1>11. ASSUME NEW l \in handed \cap Unconfirmed(sup)
         PROVE  \/ sup'.stateFault
                \/ sup'.lease[l].st = "revoked" /\ sup'.lease[l].mission = sup.lease[l].mission
    <2>1. l \in LeaseId /\ sup.disk.leases[l] = sup.lease[l].mission
          /\ sup.lease[l].mission \in Mission
      BY <1>11 DEF Inv, Good, HandedInv, MemoryInv, Unconfirmed
    <2>2. l \in Saved(sup.disk)
      BY <2>1, PermissionAssumption DEF Saved
    <2> QED BY <1>2, <1>3, <2>1, <2>2
  <1> QED BY <1>2, <1>6, <1>8, <1>9, <1>10, <1>11 DEF Good, HandedInv

LEMMA InitInv == Init => Inv
  <1> SUFFICES ASSUME Init PROVE Inv
    OBVIOUS
  <1>1. NoFile \in File /\ Saved(NoFile) = {} /\ NoFile.stopFaults = {}
    BY DEF NoFile, File, Saved
  <1>2. /\ sup \in Memory /\ sup.stopFaults = {} /\ sup.disk = NoFile
        /\ \A l \in LeaseId : sup.lease[l].st = "free"
    BY <1>1, NoLeaseType DEF Init, Memory, LeaseState
  <1>3. Unconfirmed(sup) = {}
    BY <1>2 DEF Unconfirmed, IsUnconfirmed
  <1>4. MemoryInv(sup) /\ FileInv(sup.disk) /\ IssuedInv(sup)
    BY <1>1, <1>2, <1>3 DEF MemoryInv, Distinct, FileInv, IssuedInv
  <1> QED BY <1>2, <1>4 DEF Init, Inv, Good, HandedInv

\* One step per action: the tick, the requests, the transport, the clock.
LEMMA HandlerStep ==
    ASSUME Inv, Tick \/ Requests \/ Surroundings
    PROVE  /\ Good(sup', handed') /\ Served(sup, sup') /\ handed' \subseteq LeaseId
           /\ up /\ up' = up /\ epoch' = epoch
           /\ \/ handed' = handed
              \/ \E l \in LeaseId : /\ handed' = handed \cup {l} /\ sup.lease[l].st = "free"
                                     /\ sup'.lease[l].st = "granted"
  <1> DEFINE Claim == /\ Good(sup', handed') /\ Served(sup, sup')
                      /\ handed' \subseteq LeaseId
                      /\ up /\ up' = up /\ epoch' = epoch
                      /\ \/ handed' = handed
                         \/ \E l \in LeaseId :
                               /\ handed' = handed \cup {l} /\ sup.lease[l].st = "free"
                               /\ sup'.lease[l].st = "granted"
  <1> SUFFICES Claim
    OBVIOUS
  <1>0. sup \in Memory /\ handed \in SUBSET LeaseId /\ Good(sup, handed)
        /\ \A l \in sup.stopFaults : sup.lease[l].st = "revoked"
    BY DEF Inv, Good, MemoryInv
  <1>1. ASSUME Kept(sup, sup'), up, UNCHANGED <<epoch, up, handed>>
        PROVE  Claim
    BY <1>0, <1>1, KeptGood, KeptServed
  <1>2. CASE Tick
    <2>1. Kept(sup, sup')
      BY <1>2, TickKept DEF Tick
    <2> QED BY <1>1, <1>2, <2>1 DEF Tick
  <1>3. ASSUME NEW m \in Mission, Acquire(m) PROVE Claim
    BY <1>0, <1>3, AcquireStep DEF Acquire
  <1>4. ASSUME NEW l \in LeaseId, Renew(l) PROVE Claim
    BY <1>0, <1>4, RenewStep DEF Renew
  <1>5. ASSUME NEW l \in LeaseId, Release(l) PROVE Claim
    BY <1>0, <1>5, ReleaseStep DEF Release
  <1>6. ASSUME NEW l \in LeaseId, ResetStopFault(l) PROVE Claim
    <2>1. Kept(sup, sup')
      BY <1>0, <1>6, CallEffect DEF ResetStopFault, CallState
    <2> QED BY <1>1, <1>6, <2>1 DEF ResetStopFault
  <1>7. CASE ResetStateFault
    <2>1. Kept(sup, sup')
      BY <1>7, ResetStateStep
    <2> QED BY <1>1, <1>7, <2>1 DEF ResetStateFault
  <1>8. ASSUME NEW l \in LeaseId, CallProgress(l) PROVE Claim
    <2>1. PICK c \in CallState : sup' = [sup EXCEPT !.lease[l].call = c]
      BY <1>8 DEF CallProgress, CallState
    <2>2. Kept(sup, sup')
      BY <1>0, <2>1, CallEffect
    <2> QED BY <1>1, <1>8, <2>2 DEF CallProgress
  <1>9. CASE Elapse
    <2>1. Kept(sup, sup')
      BY <1>0, <1>9, OlderEffect DEF Elapse
    <2> QED BY <1>1, <1>9, <2>1 DEF Elapse
  <1> QED
    <2> HIDE DEF Claim
    <2>1. CASE Requests
      BY <2>1, <1>3, <1>4, <1>5, <1>6, <1>7, Zenon DEF Requests
    <2>2. CASE Surroundings
      BY <2>2, <1>8, <1>9, Zenon DEF Surroundings
    <2> QED BY <1>2, <2>1, <2>2

LEMMA InvStep == Inv /\ [Next]_vars => Inv'
  <1> SUFFICES ASSUME Inv, [Next]_vars PROVE Inv'
    OBVIOUS
  <1>1. CASE Tick \/ Requests \/ Surroundings
    BY <1>1, HandlerStep DEF Inv
  <1>2. CASE Crash
    BY <1>2 DEF Crash, Inv
  <1>3. CASE Restart
    <2>1. epoch' \in 0 .. MaxEpoch
      BY <1>3, PermissionAssumption DEF Restart, Inv
    <2> QED BY <1>3, <2>1, RestartStep DEF Restart, Inv
  <1>4. CASE UNCHANGED vars
    BY <1>4 DEF vars, Inv
  <1> QED BY <1>1, <1>2, <1>3, <1>4 DEF Next

(* The inductive invariant, of every reachable state: WriteAhead alone is    *)
(* not inductive, since a restart reads what the file holds about leases     *)
(* (permissions.py, restore) and a tick what memory holds about stop faults. *)
THEOREM Invariance == Spec => []Inv
  BY InitInv, InvStep, PTL DEF Spec

(* Every field of a lease, of the fault state and of the state file keeps    *)
(* its type (models.py, store.py), for any leases and missions.              *)
THEOREM TypesHold == Spec => []TypeOK
  <1>1. Inv => TypeOK
    BY DEF Inv, Good, TypeOK
  <1> QED BY <1>1, Invariance, PTL

(* A lease a client was given is in the state file as long as nobody has     *)
(* confirmed its stop: check_permission saves before it answers and revokes  *)
(* what it could not save (supervisor.py).                                   *)
THEOREM LeasesAreDurable == Spec => []WriteAhead
  <1>1. Inv => WriteAhead
    BY PermissionAssumption DEF Inv, Good, HandedInv, MemoryInv, WriteAhead, Saved, Unconfirmed
  <1> QED BY <1>1, Invariance, PTL

(* No stop fault is left without a revoked lease to confirm, neither in      *)
(* memory nor in the file (permissions.py, update; store.py, load), so the   *)
(* lock of the operation can always be reset.                                *)
THEOREM StopFaultsCanEnd == Spec => []StopFaultResolvable
  <1>1. Inv => StopFaultResolvable
    BY DEF Inv, Good, MemoryInv, FileInv, StopFaultResolvable
  <1> QED BY <1>1, Invariance, PTL

\* What one step may do to a stop fault.
LEMMA StopFaultLemma ==
    ASSUME Inv, [Next]_vars
    PROVE  [\A l \in sup.stopFaults \ sup'.stopFaults :
              \/ up /\ sup'.lease[l].st = "stopped"
              \/ ~up /\ (l \in handed => sup'.lease[l].st = "revoked" \/ sup'.stateFault)]_vars
  <1>1. CASE Tick \/ Requests \/ Surroundings
    BY <1>1, HandlerStep DEF Served
  <1>2. CASE Crash
    BY <1>2 DEF Crash
  <1>3. CASE Restart
    <2>1. \A l \in sup.stopFaults : l \in Unconfirmed(sup)
      BY MemoryFields DEF Inv, Good, MemoryInv, Unconfirmed, IsUnconfirmed
    <2> QED BY <1>3, <2>1, RestartStep DEF Restart
  <1>4. CASE UNCHANGED vars
    BY <1>4 DEF vars
  <1> QED BY <1>1, <1>2, <1>3, <1>4 DEF Next

(* A running process clears a stop fault by a confirmed stop only, and what  *)
(* a crash makes it forget comes back with the lease (permissions.py,        *)
(* update and restore; supervisor.py, _reset).                               *)
THEOREM StopFaultsAreConfirmed == Spec => StopFaultNeedsConfirmation
  BY Invariance, StopFaultLemma, PTL DEF Spec, StopFaultNeedsConfirmation

-----------------------------------------------------------------------------
(* The refinement of LeaseContract.                                        *)

LEMMA ContractInit == Init => Contract!Init
  <1> SUFFICES ASSUME Init PROVE Contract!Init
    OBVIOUS
  <1>1. \A l \in LeaseId : sup.lease[l] = NoLease("free")
    BY DEF Init
  <1>2. \A l \in LeaseId : sup.lease[l].st = "free" /\ sup.lease[l].mission = NoMission
    BY <1>1 DEF NoLease
  <1> QED BY <1>2 DEF Init, Contract!Init

\* Served is a step of the contract, and so is a restart.
LEMMA ContractStep == ASSUME Inv, [Next]_vars PROVE [Contract!Next]_(Contract!vars)
  <1> DEFINE life == [l \in LeaseId |-> sup.lease[l].st]
             owner == [l \in LeaseId |-> sup.lease[l].mission]
             life1 == [l \in LeaseId |-> sup'.lease[l].st]
             owner1 == [l \in LeaseId |-> sup'.lease[l].mission]
  <1>1. Inv'
    BY InvStep
  <1>2. /\ life1 \in [LeaseId -> Contract!Life] /\ Contract!Unconfirmed = Unconfirmed(sup)
        /\ Contract!Unconfirmed' = Unconfirmed(sup') /\ Contract!OneEach'
    <2>1. life1 \in [LeaseId -> Contract!Life]
      BY <1>1 DEF Inv, Good, Memory, Lease, LeaseState, Contract!Life
    <2>2. /\ Contract!Unconfirmed = Unconfirmed(sup)
          /\ Contract!Unconfirmed' = Unconfirmed(sup')
      BY DEF Contract!Unconfirmed, Unconfirmed, IsUnconfirmed
    <2>3. Contract!OneEach'
      BY <1>1, <2>2 DEF Contract!OneEach, Inv, Good, MemoryInv, Distinct, Unconfirmed
    <2> QED BY <2>1, <2>2, <2>3
  <1>3. CASE Tick \/ Requests \/ Surroundings
    <2>1. /\ Served(sup, sup')
          /\ \/ handed' = handed
             \/ \E l \in LeaseId : /\ handed' = handed \cup {l} /\ sup.lease[l].st = "free"
                                    /\ sup'.lease[l].st = "granted"
      BY <1>3, HandlerStep
    <2>2. \A l \in LeaseId : \/ sup'.lease[l].st = sup.lease[l].st
                             \/ <<sup.lease[l].st, sup'.lease[l].st>> \in Contract!Onward
      BY <2>1 DEF Served, Onward, IsUnconfirmed, Contract!Onward
    <2>3. \A l \in Unconfirmed(sup) \cap Unconfirmed(sup') :
             sup'.lease[l].mission = sup.lease[l].mission
      BY <2>1 DEF Served, Onward, Unconfirmed, IsUnconfirmed
    <2>4. Contract!Issued = {l \in LeaseId : sup.lease[l].st = "free" /\ sup'.lease[l].st # "free"}
      BY DEF Contract!Issued
    <2>5. \A j, k \in Contract!Issued : j = k
      BY <2>1, <2>4 DEF Served
    <2>6. handed' \in {handed, handed \cup {l \in Contract!Issued : life1[l] = "granted"}}
      BY <2>1, <2>4, <2>5
    <2>7. Contract!Serve
      BY <1>2, <2>2, <2>3, <2>5, <2>6 DEF Contract!Serve, Unconfirmed
    <2> QED BY <2>7 DEF Contract!Next
  <1>4. CASE Crash
    BY <1>4 DEF Crash, Contract!vars
  <1>5. CASE Restart
    <2>1. Contract!Recover
      BY <1>2, <1>5, RestartStep DEF Contract!Recover, Restart, Unconfirmed
    <2> QED BY <2>1 DEF Contract!Next
  <1>6. CASE UNCHANGED vars
    BY <1>6 DEF vars, Contract!vars
  <1> QED BY <1>3, <1>4, <1>5, <1>6 DEF Next

(* The Supervisor's permission manager implements LeaseContract: no lease is *)
(* granted twice, none that a client holds ends without a confirmed stop or  *)
(* a release, no mission has two, and losing one locks the operation         *)
(* (permissions.py, supervisor.py), across failed saves and restarts.        *)
THEOREM PermissionKeepsContract == Spec => ContractIsKept
  BY ContractInit, ContractStep, Invariance, PTL DEF Spec, ContractIsKept, Contract!Spec
====
