------------------------------ MODULE IdeProofs ----------------------------
(***************************************************************************)
(* Proofs about Ide, for any threads, disks and requests that lie within   *)
(* the disk: IdeInv is inductive, so the driver panics only when a disk is *)
(* slow, every call transfers its own sectors, and no command is given to  *)
(* a busy controller.                                                      *)
(***************************************************************************)
EXTENDS Ide, SyncProofs

(* The prover of the leaves that name none, with time for a slow machine. *)
USE ZenonT(60)

-----------------------------------------------------------------------------
(* A semaphore outside a lock.                                             *)

(* A call of sema_down from a client. *)
LEMMA DownCall ==
  ASSUME NEW n, LockInv(n), NEW t \in Threads, t # Idle, NEW x \in Semas,
         Call(t, "down", x), UNCHANGED cli
  PROVE  LockInv(n)'
<1>1. /\ Runs(t) /\ lk[t] = "out" /\ lk' = [lk EXCEPT ![t] = "down"]
      /\ la' = [la EXCEPT ![t] = x]
      /\ UNCHANGED <<sched, value, waiters, holder, repeat, cli, idlepc>>
  BY DEF Call, At
<1>2. SyncTypeOK /\ SchedOK(sched) /\ n \in [Threads -> [Locks -> Nat]]
  BY DEF LockInv
<1>3. /\ x \in AllSemas /\ x \notin Locks /\ x # NoSema /\ sched.status[t] # "BLOCKED"
      /\ lk \in [Threads -> LockPC] /\ la \in [Threads -> AllSemas \cup {NoSema}]
      /\ ThreadView(n, t)
  BY <1>1, <1>2, RunningFacts, SyncAssumption DEF AllSemas, SyncTypeOK, LockInv
<1>4. la[t] = NoSema /\ la'[t] = x /\ lk'[t] = "down"
  BY <1>1, <1>3 DEF ThreadView
<1>5. \A u \in Threads : u # t => lk'[u] = lk[u] /\ la'[u] = la[u]
  BY <1>1, <1>3
<1>6. SyncTypeOK'
  BY <1>1, <1>2, <1>3 DEF SyncTypeOK, LockPC
<1>7. WaitersAgree'
  <2>1. WaitersAgree
    BY DEF LockInv
  <2>2. NoSema \notin AllSemas
    BY SyncAssumption DEF AllSemas
  <2>3. QED BY <1>1, <1>3, <1>4, <1>5, <2>1, <2>2, SMT DEF WaitersAgree
<1>8. ASSUME NEW u \in Threads PROVE ThreadView(n, u)'
  <2>1. ThreadView(n, u)
    BY DEF LockInv
  <2>2. QED BY <1>1, <1>3, <1>4, <1>5, <2>1 DEF ThreadView
<1>9. ASSUME NEW u \in Threads, NEW l \in Locks PROVE LockView(n, u, l)'
  <2>1. LockView(n, u, l) /\ l # x /\ l # NoSema
    BY <1>3, SyncAssumption DEF LockInv
  <2>2. QED BY <1>1, <1>4, <1>5, <2>1 DEF LockView
<1>10. ASSUME NEW l \in Locks PROVE OneOwner(l)'
  <2>1. OneOwner(l) /\ l # x /\ l # NoSema
    BY <1>3, SyncAssumption DEF LockInv
  <2>2. \A u \in Threads : Owner(u, l)' <=> Owner(u, l)
    BY <1>1, <1>4, <1>5, <2>1 DEF Owner
  <2>3. QED BY <1>1, <2>1, <2>2 DEF OneOwner
<1>11. NoLostWakeup'
  <2>1. NoLostWakeup
    BY DEF LockInv
  <2>2. \A u \in Threads : lk[u] = "woken" => lk'[u] = lk[u] /\ la'[u] = la[u]
    BY <1>1, <1>5
  <2>3. QED BY <1>1, <2>1, <2>2, SMT DEF NoLostWakeup
<1>12. QED BY <1>1, <1>2, <1>6, <1>7, <1>8, <1>9, <1>10, <1>11 DEF LockInv

(* A step inside sync.c lowers such a semaphore only for the thread that   *)
(* waits for it, which thereby returns.                                    *)
LEMMA SyncStepValue ==
  ASSUME NEW n, LockInv(n), NEW t \in Threads, SyncStep(t), NEW x \in Semas
  PROVE  /\ la[t] # x => value'[x] = value[x]
         /\ la[t] = x => \/ UNCHANGED <<value, la>>
                         \/ value[x] = 1 /\ value'[x] = 0 /\ la'[t] = NoSema
<1>1. /\ value \in [AllSemas -> {0, 1}] /\ x \in AllSemas /\ x \notin Locks /\ x # NoSema
      /\ la \in [Threads -> AllSemas \cup {NoSema}]
  BY SyncAssumption DEF AllSemas, SyncTypeOK, LockInv
<1>2. CASE sema_down(t)
  <2>1. CASE value[la[t]] = 0
    BY <1>2, <2>1, DownBlocks
  <2>2. CASE value[la[t]] # 0
    <3>1. la[t] \in AllSemas /\ value' = [value EXCEPT ![la[t]] = @ - 1]
      BY <1>2, <2>2, AtDown DEF sema_down
    <3>2. la[t] = x => la' = [la EXCEPT ![t] = NoSema]
      BY <1>1, <1>2, <2>2 DEF sema_down, Return
    <3>3. QED BY <1>1, <2>2, <3>1, <3>2, SMT
  <2>3. QED BY <2>1, <2>2
<1>3. CASE sema_up(t)
  <2>1. la[t] \in Locks
    BY <1>3, AtLock DEF sema_up, At
  <2>2. QED BY <1>1, <1>3, <2>1 DEF sema_up, Up
<1>4. CASE ~sema_down(t) /\ ~sema_up(t)
  <2>1. lk[t] \notin {"out", "down", "woken"} /\ UNCHANGED value
    BY <1>4 DEF SyncStep, AcquireCheck, AcquireAgain, SetHolder, SetRepeat,
       ReleaseCheck, ReleaseOnce, ClearHolder, ClearRepeat, At
  <2>2. la[t] \in Locks
    BY <2>1, AtLock
  <2>3. QED BY <1>1, <2>1, <2>2
<1>5. QED BY <1>2, <1>3, <1>4

-----------------------------------------------------------------------------
(* The parts of IdeInv.                                                    *)

ThreadTypes ==
  /\ io \in [Threads -> IoPC] /\ req \in [Threads -> Requests \cup {NoReq, Identify}]
  /\ done \in [Threads -> Nat] /\ limit \in [Threads -> 0 .. TimeLimit]
  /\ rung \subseteq Threads /\ buf \in [Threads -> Seq(Contents)]

ChannelTypes ==
  /\ expecting \in BOOLEAN /\ irq \in BOOLEAN /\ slow \in BOOLEAN
  /\ disk \in [Disks -> [0 .. max_lba -> Contents]]
  /\ reg \in [hd : Disks, lba : Nat, cnt : 0 .. SecMax - 1]
  /\ dev \in [op : {"none", "read", "write", "identify"}, hd : Disks, lba : Nat,
              left : 0 .. SecMax, st : {"idle", "busy", "drq"}]

(* The part that sync.c and thread.c keep. *)
SyncPart == SyncTypeOK /\ IF sched.panic THEN slow ELSE LockInv(Nest) /\ Sleepers = {}

(* identify_disk runs before any call. *)
MainFirst ==
  /\ io[Main] # "out" => \A t \in Threads \ {Main} : io[t] = "out"
  /\ io[Main] = "disk" => reg.lba = 0

Parts ==
  /\ ThreadTypes /\ ChannelTypes /\ SyncPart /\ MainFirst
  /\ \A t \in Threads : CallView(t)
  /\ (\A t \in Threads : ~Inside(t)) => Quiet

LEMMA IdeParts == (IdeInv <=> Parts) /\ (Parts' => IdeInv')
BY DEF IdeInv, TypeOK, Parts, ThreadTypes, ChannelTypes, SyncPart, MainFirst

(* While nothing has panicked. *)
LEMMA Alive ==
  ASSUME IdeInv, ~sched.panic
  PROVE  LockInv(Nest) /\ Sleepers = {} /\ SyncTypeOK
BY DEF IdeInv, TypeOK

LEMMA SyncPartNext ==
  ASSUME NEW n, LockInv(n)', Nest' = n, Sleepers' = {}
  PROVE  SyncPart'
<1>1. LockInv(Nest)'
  OBVIOUS
<1>2. QED BY <1>1 DEF SyncPart, LockInv, SchedOK

(* The sectors of a call lie on the disk; of a call that has the channel   *)
(* the next command stays within the call.                                 *)
Fits(t) ==
  /\ req[t].op \in {"read", "write", "identify"} /\ req[t].hd \in Disks
  /\ req[t].lba \in Nat /\ req[t].cnt \in Nat \ {0}
  /\ req[t].lba + req[t].cnt - 1 <= max_lba
  /\ IF t = Main THEN req[t] = Identify
     ELSE req[t].op # "identify" /\ req[t].lba + req[t].cnt <= max_lba /\ t \in Clients

Room(t) ==
  Every(t) \in 1 .. SecMax /\ done[t] + Every(t) <= req[t].cnt /\ done[t] < req[t].cnt

(* What the provers need to know about the constants. *)
Sizes ==
  /\ max_lba \in Nat /\ SecMax \in Nat \ {0} /\ TimeLimit \in Nat \ {0}
  /\ Channel \in AllSemas /\ disk_done \in AllSemas /\ Channel # disk_done
  /\ NoSema \notin AllSemas /\ Main \in Threads \ {Idle} /\ Main \notin Clients /\ 0 \in Disks

(* What a thread in ide.c knows when it takes a step there, at p. *)
Knows(t, p) ==
  /\ At(t, "out") /\ ~sched.panic /\ io[t] = p /\ t # Idle /\ la[t] \notin AllSemas
  /\ ThreadTypes /\ ChannelTypes /\ CallView(t) /\ Fits(t)
  /\ p # "disk" => Working(t)
  /\ p \notin {"disk", "unlock"} => Room(t)

LEMMA Constants == Sizes
BY IdeAssumption, SyncAssumption, ThreadAssumption DEF Sizes, AllSemas

USE Constants

LEMMA Here ==
  ASSUME WithinDisk, IdeInv, NEW t \in Threads, NEW p, p # "out", InIde(t, p)
  PROVE  Knows(t, p)
<1>1. At(t, "out") /\ io[t] = p /\ ~sched.panic /\ lk[t] = "out"
  BY DEF InIde, At, Runs
<1>2. ThreadTypes /\ ChannelTypes /\ CallView(t)
  BY IdeParts DEF Parts
<1>3. la[t] \notin AllSemas
  <2>1. PICK n : LockInv(n)
    BY <1>1, Alive
  <2>2. ThreadView(n, t)
    BY <2>1 DEF LockInv
  <2>3. QED BY <1>1, <2>2 DEF Sizes, ThreadView
<1>4. Fits(t) /\ t # Idle
  <2>1. t \in Clients \cup {Main} /\ req[t] \in IF t = Main THEN {Identify} ELSE Requests
    BY <1>1, <1>2 DEF CallView
  <2>2. CASE t = Main
    <3>1. Identify.op = "identify" /\ Identify.hd = 0 /\ Identify.lba = 0 /\ Identify.cnt = 1
      BY DEF Identify
    <3>2. QED BY <2>1, <2>2, <3>1, SMT DEF Sizes, Fits
  <2>3. CASE t # Main
    BY <2>1, <2>3, IdeAssumption, SMT DEF WithinDisk, Fits
  <2>4. QED BY <2>2, <2>3
<1>5. p # "disk" => Working(t)
  BY <1>1, <1>2 DEF CallView, Inside
<1>6. ASSUME p \notin {"disk", "unlock"} PROVE Room(t)
  <2>1. done[t] \in Nat /\ req[t].cnt \in Nat \ {0} /\ done[t] < req[t].cnt
    BY <1>1, <1>2, <1>4, <1>5, <1>6 DEF ThreadTypes, Fits, Working, Progress
  <2>2. QED BY <2>1, SMT DEF Sizes, Room, Every
<1>7. QED BY <1>1, <1>2, <1>3, <1>4, <1>5, <1>6 DEF Knows

(* The register for the sector count holds the count of one command. *)
LEMMA CountRegister ==
  ASSUME NEW e \in 1 .. SecMax
  PROVE  /\ e % SecMax \in 0 .. SecMax - 1
         /\ e = IF e % SecMax = 0 THEN SecMax ELSE e % SecMax
<1>1. CASE e = SecMax
  BY <1>1, SMT DEF Sizes
<1>2. CASE e < SecMax
  BY <1>2, SMTT(30) DEF Sizes
<1>3. QED BY <1>1, <1>2, SMT DEF Sizes

(* One thread at a time has the channel. *)
LEMMA OneInside ==
  ASSUME IdeInv, ~sched.panic, NEW t \in Threads, io[t] # "out", la[t] # Channel,
         NEW u \in Threads, u # t, Inside(u)
  PROVE  FALSE
<1>1. /\ CallView(t) /\ CallView(u)
      /\ io[Main] # "out" => \A v \in Threads \ {Main} : io[v] = "out"
  BY DEF IdeInv
<1>2. t \in Clients /\ u \in Clients /\ io[u] # "out" /\ la[u] # Channel
  BY <1>1 DEF Sizes, CallView, Inside
<1>3. PICK n : n = Nest /\ LockInv(n)
  BY Alive
<1>4. LockView(n, t, Channel) /\ LockView(n, u, Channel) /\ Channel \in Locks
  BY <1>3, IdeAssumption DEF LockInv
<1>5. n[t][Channel] = 1 /\ n[u][Channel] = 1
  BY <1>2, <1>3, <1>4 DEF Nest
<1>6. QED BY <1>2, <1>4, <1>5, SMT DEF LockView

-----------------------------------------------------------------------------
(* Two kinds of steps.                                                     *)

(* t, which is in ide.c, leaves what belongs to the others alone and does  *)
(* not go back to the beginning.                                           *)
Drives(t) ==
  /\ io'[t] # "disk" /\ ThreadTypes' /\ ChannelTypes' /\ SyncPart'
  /\ \A u \in Threads \ {t} : /\ io'[u] = io[u] /\ req'[u] = req[u] /\ done'[u] = done[u]
                              /\ limit'[u] = limit[u] /\ buf'[u] = buf[u]
                              /\ la'[u] = la[u]

LEMMA DriverStep ==
  ASSUME IdeInv, NEW t \in Threads, NEW p, p # "out", Knows(t, p), Drives(t),
         CallView(t)', Inside(t)' \/ Quiet'
  PROVE  IdeInv'
<1>1. ~sched.panic /\ io[t] # "out" /\ la[t] # Channel
  BY DEF Sizes, Knows
<1>2. ASSUME NEW u \in Threads, u # t PROVE CallView(u)' /\ ~Inside(u)'
  <2>1. CallView(u) /\ ~Inside(u)
    BY <1>1, <1>2, OneInside DEF IdeInv
  <2>2. QED BY <1>2, <2>1 DEF Drives, CallView, Inside
<1>3. MainFirst'
  <2>1. MainFirst
    BY IdeParts DEF Parts
  <2>2. QED BY <1>1, <2>1 DEF Sizes, Drives, MainFirst
<1>4. QED BY <1>2, <1>3, IdeParts DEF Drives, Parts

(* A step that moves nobody in ide.c. *)
Passive ==
  /\ UNCHANGED <<io, req, done, limit, buf, reg, disk>> /\ rung' \subseteq Threads
  /\ ChannelTypes' /\ SyncPart'
  /\ \A u \in Threads : la'[u] \in {la[u], NoSema}

LEMMA PassiveStep ==
  ASSUME IdeInv, Passive,
         \A u \in Threads : Inside(u) => Working(u)',
         (\A u \in Threads : ~Inside(u)) => Quiet'
  PROVE  IdeInv'
<1>1. /\ UNCHANGED <<io, req, done, limit, buf, reg, disk>> /\ rung' \subseteq Threads
      /\ \A u \in Threads : la'[u] \in {la[u], NoSema}
  BY DEF Passive
<1>2. \A u \in Threads : Inside(u)' <=> Inside(u)
  BY <1>1 DEF Inside
<1>3. ASSUME NEW u \in Threads PROVE CallView(u)'
  <2>1. CallView(u) /\ la'[u] \in {la[u], NoSema}
    BY <1>1 DEF IdeInv
  <2>2. QED BY <1>1, <1>2, <2>1 DEF Sizes, CallView
<1>4. ThreadTypes' /\ MainFirst'
  BY <1>1, IdeParts DEF Parts, ThreadTypes, MainFirst
<1>5. QED BY <1>2, <1>3, <1>4, IdeParts DEF Passive, Parts

(* Nothing that Working looks at has changed. *)
LEMMA SameWork ==
  ASSUME NEW u \in Threads, Working(u), io'[u] = io[u], req'[u] = req[u],
         done'[u] = done[u], buf'[u] = buf[u], UNCHANGED <<reg, dev, disk, expecting>>,
         value'[disk_done] = value[disk_done],
         la'[u] = disk_done <=> la[u] = disk_done
  PROVE  Working(u)'
BY DEF Working, Progress, Selected, Executes, Expected, Transferred, Started, Awaits, Every

(* Steps that leave sync.c alone. *)
LEMMA StillLocked ==
  ASSUME IdeInv, ~sched.panic, UNCHANGED syncvars, Nest' = Nest
  PROVE  SyncPart'
<1>1. PICK n : n = Nest /\ LockInv(n) /\ Sleepers = {}
  BY Alive
<1>2. UNCHANGED <<sched, value, waiters, holder, repeat, lk, la, cli, idlepc>>
  BY DEF syncvars
<1>3. cli' \in SUBSET Threads /\ idlepc' \in {"block", "sti", "hlt"} /\ SchedOK(sched')
  BY <1>1, <1>2 DEF LockInv, SyncTypeOK
<1>4. LockInv(n)'
  BY <1>1, <1>2, <1>3, ScheduleStep
<1>5. Sleepers' = {}
  BY <1>1, <1>2 DEF Sleepers
<1>6. QED BY <1>1, <1>4, <1>5, SyncPartNext

LEMMA SameNest ==
  ASSUME ThreadTypes, NEW t \in Threads, NEW p, IdeGoto(t, p), io[t] # "out",
         p # "out" \/ t \notin Clients
  PROVE  Nest' = Nest
BY DEF ThreadTypes, IdeGoto, Nest

(* A step of the driver with interrupts on, at a port or a variable. *)
Ports(t, p) ==
  /\ IdeGoto(t, p) /\ p \notin {"out", "disk"} /\ UNCHANGED syncvars /\ UNCHANGED req
  /\ \A u \in Threads \ {t} : done'[u] = done[u] /\ limit'[u] = limit[u] /\ buf'[u] = buf[u]
  /\ p = "sleep" => limit'[t] > 0
  /\ p \in {"sector", "unlock"} => t # Main
  /\ ThreadTypes' /\ ChannelTypes'

LEMMA PortStep ==
  ASSUME IdeInv, NEW t \in Threads, NEW p, NEW q, q # "out", Knows(t, q), Ports(t, p),
         Working(t)'
  PROVE  IdeInv'
<1>1. io'[t] = p /\ la'[t] = la[t] /\ \A u \in Threads \ {t} : io'[u] = io[u] /\ la'[u] = la[u]
  BY DEF Knows, ThreadTypes, Ports, IdeGoto, syncvars
<1>2. Nest' = Nest
  BY SameNest DEF Knows, Ports
<1>3. SyncPart'
  BY <1>2, StillLocked DEF Knows, Ports
<1>4. Drives(t)
  BY <1>1, <1>3 DEF Ports, Drives
<1>5. CallView(t)' /\ Inside(t)'
  BY <1>1 DEF Sizes, Knows, Ports, CallView, Inside
<1>6. QED BY <1>4, <1>5, DriverStep

-----------------------------------------------------------------------------
(* The steps of a call.                                                    *)

(* select_disk: the caller has the channel now, and nobody else is inside. *)
LEMMA SelectDiskInv ==
  ASSUME IdeInv, NEW t \in Threads, Knows(t, "disk"), select_disk(t)
  PROVE  IdeInv'
<1>1. PICK p : p = IF req[t].op = "identify" THEN "expect" ELSE "sector"
  OBVIOUS
<1>2. Quiet
  <2>1. \A u \in Threads : ~Inside(u)
    BY OneInside DEF Sizes, Knows, Inside
  <2>2. QED BY <2>1, IdeParts DEF Parts
<1>3. /\ io'[t] = p /\ reg'.hd = req[t].hd /\ reg'.lba = reg.lba
      /\ UNCHANGED <<req, done, buf, dev, expecting, value, la>>
  BY <1>1 DEF select_disk, IdeGoto, Knows, ThreadTypes, ChannelTypes, Local, syncvars
<1>4. Ports(t, p)
  <2>1. ThreadTypes' /\ ChannelTypes'
    BY DEF select_disk, IdeGoto, Knows, Fits, ThreadTypes, ChannelTypes, IoPC
  <2>2. QED BY <1>1, <2>1, SMT DEF select_disk, Knows, Fits, Identify, Local, Ports
<1>5. done[t] = 0 /\ buf[t] = <<>>
  BY DEF Knows, CallView
<1>6. Working(t)'
  <2>1. Progress(t)'
    BY <1>1, <1>3, <1>5, SMTT(30) DEF Knows, Fits, Progress, Transferred
  <2>2. t = Main => reg.lba = 0 /\ req[t].lba = 0
    BY IdeParts, SMTT(30) DEF Knows, Fits, Identify, Parts, MainFirst
  <2>3. Selected(t)'
    BY <1>1, <1>3, <1>5, <2>2, SMTT(30) DEF Knows, Fits, Selected
  <2>4. Executes(t)' /\ Expected(t)'
    BY <1>1, <1>2, <1>3 DEF Sizes, Knows, Executes, Started, Expected, Awaits, Quiet
  <2>5. QED BY <2>1, <2>3, <2>4 DEF Working
<1>7. QED BY <1>4, <1>6, PortStep

(* select_sector: the assertion holds for calls within the disk. *)
LEMMA SelectSectorInv ==
  ASSUME IdeInv, NEW t \in Threads, Knows(t, "sector"), select_sector(t)
  PROVE  IdeInv'
<1>1. t # Main /\ Working(t) /\ done[t] \in Nat
  BY DEF Knows, CallView, ThreadTypes
<1>2. /\ req[t].hd \in Disks /\ req[t].lba + done[t] \in Nat
      /\ req[t].lba + done[t] < max_lba /\ Every(t) % SecMax \in 0 .. SecMax - 1
  BY <1>1, CountRegister, SMT DEF Sizes, Knows, Fits, Room
<1>3. /\ UNCHANGED syncvars /\ IdeGoto(t, "expect")
      /\ reg' = [hd |-> req[t].hd, lba |-> req[t].lba + done[t], cnt |-> Every(t) % SecMax]
      /\ UNCHANGED <<req, done, limit, rung, buf, expecting, dev, irq, disk, slow>>
  BY <1>2 DEF select_sector, Assert, syncvars
<1>4. Ports(t, "expect") /\ io'[t] = "expect"
  <2>1. ThreadTypes' /\ ChannelTypes' /\ io'[t] = "expect"
    BY <1>2, <1>3 DEF IdeGoto, Knows, ThreadTypes, ChannelTypes, IoPC
  <2>2. QED BY <1>3, <2>1 DEF Ports
<1>5. Working(t)'
  <2>1. Progress(t)'
    BY <1>1, <1>3, <1>4 DEF Knows, Working, Progress, Transferred
  <2>2. Selected(t)'
    BY <1>3 DEF Selected, Every
  <2>3. Executes(t)' /\ Expected(t)'
    BY <1>1, <1>3, <1>4
    DEF Sizes, Knows, Working, Executes, Started, Expected, Awaits, syncvars
  <2>4. QED BY <2>1, <2>2, <2>3 DEF Working
<1>6. QED BY <1>4, <1>5, PortStep

(* cmd_out: expecting_intr is set while disk_done is down. *)
LEMMA ExpectInv ==
  ASSUME IdeInv, NEW t \in Threads, Knows(t, "expect"), Expect(t)
  PROVE  IdeInv'
<1>1. Ports(t, "cmd") /\ io'[t] = "cmd"
  <2>1. ThreadTypes' /\ ChannelTypes' /\ io'[t] = "cmd"
    BY DEF Expect, IdeGoto, Knows, ThreadTypes, ChannelTypes, IoPC
  <2>2. QED BY <2>1 DEF Expect, Local, Ports
<1>2. Working(t)'
  <2>1. Progress(t)' /\ Selected(t)'
    BY <1>1 DEF Expect, Knows, Working, Progress, Transferred, Selected, Every
  <2>2. Executes(t)' /\ Expected(t)'
    BY <1>1
    DEF Sizes, Expect, Local, syncvars, Knows, Working, Executes, Started, Expected, Awaits
  <2>3. QED BY <2>1, <2>2 DEF Working
<1>3. QED BY <1>1, <1>2, PortStep

(* The command register: the controller is idle, and takes over the disk,  *)
(* the sector and the count of this call.                                  *)
LEMMA CommandInv ==
  ASSUME IdeInv, NEW t \in Threads, Knows(t, "cmd"), Command(t)
  PROVE  IdeInv'
<1>1. PICK p : p = IF req[t].op = "write" THEN "poll" ELSE "down"
  OBVIOUS
<1>2. Working(t) /\ Room(t) /\ Fits(t) /\ done[t] \in Nat /\ io[t] = "cmd"
  BY DEF Knows, ThreadTypes
<1>3. /\ Len(buf[t]) = done[t] /\ reg.hd = req[t].hd /\ reg.lba = req[t].lba + done[t]
      /\ req[t].op # "identify" => reg.cnt = Every(t) % SecMax
  BY <1>2 DEF Working, Progress, Transferred, Selected
<1>4. /\ dev'.op = req[t].op /\ dev'.hd = reg.hd /\ dev'.lba = reg.lba /\ dev'.st = "busy"
      /\ dev'.left = IF req[t].op = "identify" THEN 1 ELSE IF reg.cnt = 0 THEN SecMax ELSE reg.cnt
      /\ UNCHANGED <<req, done, buf, disk, expecting, value, la>>
  BY DEF Command, Local, syncvars
<1>5. dev'.left = Every(t)
  <2>1. CASE req[t].op = "identify"
    <3>1. req[t].cnt = 1
      BY <1>2, <2>1, SMT DEF Fits, Identify
    <3>2. QED BY <1>2, <1>4, <2>1, <3>1, SMTT(30) DEF Sizes, Room
  <2>2. CASE req[t].op # "identify"
    BY <1>2, <1>3, <1>4, <2>2, CountRegister DEF Room
  <2>3. QED BY <2>1, <2>2
<1>6. Ports(t, p) /\ io'[t] = p
  <2>1. ThreadTypes' /\ io'[t] = p /\ \A u \in Threads \ {t} : limit'[u] = limit[u]
    BY <1>1, SMTT(30) DEF Sizes, Command, IdeGoto, Knows, ThreadTypes, IoPC
  <2>2. ChannelTypes'
    BY SMTT(30) DEF Sizes, Command, Knows, Fits, ChannelTypes
  <2>3. QED BY <1>1, <2>1, <2>2 DEF Command, Local, Ports
<1>7. Working(t)'
  <2>1. Progress(t)'
    BY <1>1, <1>2, <1>3, <1>4, <1>6 DEF Working, Progress, Transferred
  <2>2. Executes(t)'
    BY <1>1, <1>2, <1>3, <1>4, <1>5, <1>6, SMTT(30) DEF Room, Executes, Started, Every
  <2>3. Expected(t)' /\ Selected(t)'
    BY <1>1, <1>2, <1>4, <1>6 DEF Working, Expected, Awaits, Selected
  <2>4. QED BY <2>1, <2>2, <2>3 DEF Working
<1>8. QED BY <1>6, <1>7, PortStep

(* sema_down(&disk_done) *)
LEMMA DownInv ==
  ASSUME IdeInv, NEW t \in Threads, Knows(t, "down"), Down(t)
  PROVE  IdeInv'
<1>1. PICK p : p = IF req[t].op = "write" THEN "next" ELSE "poll"
  OBVIOUS
<1>2. PICK n : n = Nest /\ LockInv(n) /\ Sleepers = {} /\ la \in [Threads -> AllSemas \cup {NoSema}]
  BY Alive DEF Knows, SyncTypeOK
<1>3. /\ IdeGoto(t, p) /\ Call(t, "down", disk_done) /\ la' = [la EXCEPT ![t] = disk_done]
      /\ UNCHANGED <<cli, value, req, done, limit, rung, buf, expecting, reg, dev, irq, disk, slow>>
  BY <1>1 DEF Down, Call
<1>4. /\ io'[t] = p /\ la'[t] = disk_done
      /\ \A u \in Threads \ {t} : la'[u] = la[u] /\ io'[u] = io[u]
  BY <1>2, <1>3 DEF Knows, IdeGoto, ThreadTypes
<1>5. SyncPart'
  <2>1. LockInv(n)'
    BY <1>2, <1>3, IdeAssumption, DownCall DEF Knows
  <2>2. Nest' = n
    BY <1>1, <1>2, <1>3, SameNest DEF Knows
  <2>3. Sleepers' = {}
    BY <1>2, <1>3, OtherStepFrame
  <2>4. QED BY <2>1, <2>2, <2>3, SyncPartNext
<1>6. Drives(t)
  <2>1. ThreadTypes' /\ ChannelTypes'
    BY <1>1, <1>3 DEF Knows, IdeGoto, ThreadTypes, ChannelTypes, IoPC
  <2>2. QED BY <1>1, <1>3, <1>4, <1>5, <2>1 DEF Drives
<1>7. Working(t)'
  <2>1. Progress(t)' /\ Selected(t)'
    BY <1>1, <1>3, <1>4 DEF Knows, Working, Progress, Transferred, Selected, Every
  <2>2. Executes(t)' /\ Expected(t)'
    BY <1>1, <1>3, <1>4
    DEF Knows, Working, Executes, Started, Expected, Awaits, Every
  <2>3. QED BY <2>1, <2>2 DEF Working
<1>8. CallView(t)' /\ Inside(t)'
  BY <1>1, <1>3, <1>4, <1>7 DEF Sizes, Knows, CallView, Inside
<1>9. QED BY <1>6, <1>8, DriverStep

(* busy_wait: once the controller is not busy it has data or wants some;   *)
(* only the end of the loop panics.                                        *)
LEMMA PollInv ==
  ASSUME IdeInv, NEW t \in Threads, Knows(t, "poll"), Poll(t)
  PROVE  IdeInv'
<1>1. UNCHANGED <<value, waiters, holder, repeat, lk, la, cli, idlepc,
                  req, done, limit, buf, expecting, reg, dev, irq, disk>>
  BY DEF Poll
<1>2. CASE limit[t] = 0
  <2>1. sched' = Panic(sched) /\ slow' = TRUE /\ UNCHANGED <<io, rung>>
    BY <1>2 DEF Poll
  <2>2. sched'.panic /\ SyncTypeOK'
    BY <1>1, <2>1, Alive DEF Knows, SyncTypeOK, Panic, SchedState
  <2>3. Drives(t)
    BY <1>1, <2>1, <2>2 DEF Knows, Drives, SyncPart, ThreadTypes, ChannelTypes
  <2>4. Working(t)'
    BY <1>1, <2>1, SameWork DEF Knows
  <2>5. CallView(t)' /\ Inside(t)'
    BY <1>1, <2>1, <2>4 DEF Knows, CallView, Inside
  <2>6. QED BY <2>3, <2>5, DriverStep
<1>3. CASE limit[t] # 0
  <2>1. PICK p : p = IF dev.st = "busy" THEN "sleep" ELSE "data"
    OBVIOUS
  <2>2. dev.st \in {"busy", "drq"} /\ Started(t)
    BY DEF Knows, Working, Executes, Started
  <2>3. UNCHANGED syncvars /\ IdeGoto(t, p) /\ rung' \subseteq rung /\ UNCHANGED slow
    BY <1>1, <1>3, <2>1, <2>2 DEF Poll, Assert, syncvars
  <2>4. Ports(t, p) /\ io'[t] = p
    <3>1. ThreadTypes' /\ ChannelTypes' /\ io'[t] = p
      BY <1>1, <2>1, <2>3 DEF Knows, IdeGoto, ThreadTypes, ChannelTypes, IoPC
    <3>2. limit[t] > 0
      BY <1>3, SMT DEF Sizes, Knows, ThreadTypes
    <3>3. QED BY <1>1, <2>1, <2>3, <3>1, <3>2 DEF Ports
  <2>5. Working(t)'
    <3>1. Every(t) \in 1 .. SecMax /\ done[t] \in Nat /\ Len(buf[t]) = done[t] /\ Every(t)' = Every(t)
      BY <1>1 DEF Knows, Room, ThreadTypes, Working, Progress, Transferred, Every
    <3>2. Transferred(t)'
      BY <1>1, <2>1, <2>4, <3>1, SMTT(30) DEF Sizes, Transferred
    <3>3. Progress(t)' /\ Selected(t)' /\ Expected(t)'
      BY <1>1, <2>1, <2>4, <3>2
      DEF Sizes, Knows, Working, Progress, Selected, Expected, Awaits
    <3>4. Executes(t)'
      BY <1>1, <2>1, <2>2, <2>4, <3>1 DEF Knows, Working, Executes, Started
    <3>5. QED BY <3>3, <3>4 DEF Working
  <2>6. QED BY <2>4, <2>5, PortStep
<1>4. QED BY <1>2, <1>3

(* mtime_sleep(10) in busy_wait. *)
LEMMA SleepInv ==
  ASSUME IdeInv, NEW t \in Threads, Knows(t, "sleep"), ticks_to_sleep(t)
  PROVE  IdeInv'
<1>1. UNCHANGED <<req, done, rung, buf, expecting, reg, dev, irq, disk, slow>>
  BY DEF ticks_to_sleep
<1>2. CASE Yield(t) /\ UNCHANGED <<io, limit>>
  <2>1. UNCHANGED <<value, la>>
    BY <1>2 DEF Yield
  <2>2. PICK n : n = Nest /\ LockInv(n) /\ Sleepers = {}
    BY Alive DEF Knows
  <2>3. LockInv(n)' /\ Sleepers' = {}
    BY <1>2, <2>2, YieldInv, OtherStepFrame
  <2>4. Nest' = n
    BY <1>2, <2>2 DEF Nest
  <2>5. SyncPart'
    BY <2>3, <2>4, SyncPartNext
  <2>6. Drives(t)
    BY <1>1, <1>2, <2>1, <2>5 DEF Knows, Drives, ThreadTypes, ChannelTypes
  <2>7. Working(t)'
    BY <1>1, <1>2, <2>1, SameWork DEF Knows
  <2>8. CallView(t)' /\ Inside(t)'
    BY <1>1, <1>2, <2>1, <2>7 DEF Knows, CallView, Inside
  <2>9. QED BY <2>6, <2>8, DriverStep
<1>3. CASE limit' = [limit EXCEPT ![t] = @ - 1] /\ IdeGoto(t, "poll") /\ UNCHANGED syncvars
  <2>1. Ports(t, "poll") /\ io'[t] = "poll"
    <3>1. limit[t] - 1 \in 0 .. TimeLimit
      BY SMT DEF Sizes, Knows, CallView, ThreadTypes
    <3>2. ThreadTypes' /\ ChannelTypes' /\ io'[t] = "poll"
      BY <1>1, <1>3, <3>1 DEF Knows, IdeGoto, ThreadTypes, ChannelTypes, IoPC
    <3>3. \A u \in Threads \ {t} : limit'[u] = limit[u]
      BY <1>3 DEF Knows, ThreadTypes
    <3>4. QED BY <1>1, <1>3, <3>2, <3>3 DEF Ports
  <2>2. Progress(t)' /\ Selected(t)'
    BY <1>1, <2>1 DEF Knows, Working, Progress, Transferred, Selected, Every
  <2>3. Executes(t)' /\ Expected(t)'
    BY <1>1, <1>3, <2>1
    DEF Knows, Working, Executes, Started, Expected, Awaits, Every, syncvars
  <2>4. QED BY <2>1, <2>2, <2>3, PortStep DEF Working
<1>4. QED BY <1>2, <1>3 DEF ticks_to_sleep, Local

(* One sector c goes between the buffer and the sector of the disk.        *)
Transfers(t, p, c) ==
  /\ buf' = [buf EXCEPT ![t] = Append(@, c)]
  /\ dev' = [dev EXCEPT !.lba = @ + 1, !.left = @ - 1,
                        !.st = IF dev.left = 1 THEN "idle" ELSE "drq"]
  /\ disk' = [disk EXCEPT ![req[t].hd][dev.lba] = c]
  /\ irq' \in BOOLEAN
  /\ IdeGoto(t, IF Len(buf'[t]) = done[t] + Every(t) THEN p ELSE "data")
  /\ UNCHANGED syncvars /\ UNCHANGED <<req, done, limit, rung, expecting, reg, slow>>

(* What the thread in the middle of insw or outsw knows: the controller    *)
(* serves its call of k sectors so far, at the next one, which lies on the *)
(* disk.                                                                   *)
Serves(t, d, e, k) ==
  /\ d = done[t] /\ e = Every(t) /\ k = Len(buf[t])
  /\ d \in Nat /\ e \in 1 .. SecMax /\ k \in Nat /\ d <= k /\ k < d + e /\ d < req[t].cnt
  /\ dev.op = req[t].op /\ dev.hd = req[t].hd /\ dev.st = "drq"
  /\ dev.lba = req[t].lba + k /\ dev.lba \in 0 .. max_lba
  /\ dev.left = d + e - k /\ dev.left \in 1 .. SecMax
  /\ req[t].hd \in Disks /\ req[t].lba \in Nat

LEMMA DataFacts ==
  ASSUME NEW t \in Threads, Knows(t, "data")
  PROVE  \E d, e, k : Serves(t, d, e, k)
<1>1. PICK d, e, k : d = done[t] /\ e = Every(t) /\ k = Len(buf[t])
  OBVIOUS
<1>2. /\ d \in Nat /\ e \in 1 .. SecMax /\ k \in Nat /\ d + e <= req[t].cnt /\ d < req[t].cnt
      /\ req[t].hd \in Disks /\ req[t].lba \in Nat /\ req[t].cnt \in Nat
      /\ req[t].lba + req[t].cnt - 1 <= max_lba
  BY <1>1, SMT DEF Knows, ThreadTypes, Fits, Room
<1>3. /\ dev.op = req[t].op /\ dev.hd = req[t].hd /\ dev.st = "drq"
      /\ dev.lba = req[t].lba + k /\ dev.left = d + e - k /\ d <= k /\ k < d + e
  BY <1>1 DEF Knows, Working, Executes, Started, Progress, Transferred
<1>4. dev.lba \in 0 .. max_lba /\ dev.left \in 1 .. SecMax
  BY <1>2, <1>3, SMTT(30) DEF Sizes
<1>5. QED BY <1>1, <1>2, <1>3, <1>4 DEF Serves

LEMMA TransferInv ==
  ASSUME IdeInv, NEW t \in Threads, Knows(t, "data"), NEW c \in Contents,
         NEW p, p = IF req[t].op = "write" THEN "down" ELSE "next", Transfers(t, p, c)
  PROVE  IdeInv'
<1>1. PICK d, e, k : Serves(t, d, e, k)
  BY DataFacts
<1>2. PICK q : q = IF k + 1 = d + e THEN p ELSE "data"
  OBVIOUS
<1>3. /\ d \in Nat /\ e \in Nat /\ k \in Nat /\ d <= k /\ k < d + e /\ dev.left = d + e - k
      /\ dev.lba = req[t].lba + k /\ req[t].lba \in Nat /\ dev.left <= SecMax
  BY <1>1, SMTT(30) DEF Sizes, Serves
<1>4. /\ Len(buf'[t]) = k + 1 /\ buf'[t][k + 1] = c /\ buf' \in [Threads -> Seq(Contents)]
      /\ \A i \in 1 .. k : buf'[t][i] = buf[t][i]
      /\ \A u \in Threads \ {t} : buf'[u] = buf[u]
  <2>1. buf' = [buf EXCEPT ![t] = Append(buf[t], c)] /\ buf \in [Threads -> Seq(Contents)]
    BY DEF Transfers, Knows, ThreadTypes
  <2>2. Append(buf[t], c) \in Seq(Contents) /\ Len(buf[t]) = k
    BY <1>1, <2>1, SMT DEF Serves
  <2>3. QED BY <2>1, <2>2, SMTT(30)
<1>5. IdeGoto(t, q) /\ io'[t] = q /\ io' \in [Threads -> IoPC]
  <2>1. IdeGoto(t, q)
    BY <1>1, <1>2, <1>4 DEF Transfers, Serves
  <2>2. QED BY <1>2, <2>1 DEF IdeGoto, Knows, ThreadTypes, IoPC
<1>6. /\ UNCHANGED syncvars /\ UNCHANGED <<req, done, limit, rung, expecting, reg, slow>>
      /\ irq' \in BOOLEAN
  BY DEF Transfers
<1>7. /\ disk'[req[t].hd][req[t].lba + k] = c
      /\ \A i \in 1 .. k : disk'[req[t].hd][req[t].lba + i - 1] = disk[req[t].hd][req[t].lba + i - 1]
      /\ disk' \in [Disks -> [0 .. max_lba -> Contents]]
  <2>1. PICK h, b : h = req[t].hd /\ b = req[t].lba
    OBVIOUS
  <2>2. h \in Disks /\ b \in Nat /\ k \in Nat /\ b + k \in 0 .. max_lba
    BY <1>1, <2>1 DEF Serves
  <2>3. disk' = [disk EXCEPT ![h][b + k] = c] /\ disk \in [Disks -> [0 .. max_lba -> Contents]]
    BY <1>1, <2>1 DEF Transfers, Serves, Knows, ChannelTypes
  <2>4. \A i \in 1 .. k : b + i - 1 # b + k /\ b + i - 1 \in 0 .. max_lba
    BY <2>2, SMT DEF Sizes
  <2>5. QED BY <2>1, <2>2, <2>3, <2>4
<1>8. /\ dev'.op = dev.op /\ dev'.hd = dev.hd /\ dev'.lba = dev.lba + 1
      /\ dev'.left = dev.left - 1 /\ dev'.st = IF dev.left = 1 THEN "idle" ELSE "drq"
  BY DEF Transfers, Knows, ChannelTypes
<1>9. Ports(t, q)
  <2>1. dev.lba + 1 \in Nat /\ dev.left - 1 \in 0 .. SecMax
    BY <1>3, SMT DEF Sizes
  <2>2. dev' \in [op : {"none", "read", "write", "identify"}, hd : Disks, lba : Nat,
                  left : 0 .. SecMax, st : {"idle", "busy", "drq"}]
    BY <2>1 DEF Transfers, Knows, ChannelTypes
  <2>3. ThreadTypes' /\ ChannelTypes'
    BY <1>4, <1>5, <1>6, <1>7, <2>2 DEF Knows, ThreadTypes, ChannelTypes
  <2>4. QED BY <1>2, <1>4, <1>5, <1>6, <2>3 DEF Ports
<1>10. Progress(t)'
  <2>1. \A i \in 1 .. k + 1 : buf'[t][i] = disk'[req[t].hd][req[t].lba + i - 1]
    <3>1. PICK h, b : h = req[t].hd /\ b = req[t].lba
      OBVIOUS
    <3>2. k \in Nat /\ b \in Nat /\ \A i \in 1 .. k : buf[t][i] = disk[h][b + i - 1]
      BY <1>1, <3>1 DEF Serves, Knows, Working, Progress
    <3>3. \A i \in 1 .. k + 1 : i \in 1 .. k \/ i = k + 1
      BY <3>2, SMTT(30)
    <3>4. b + (k + 1) - 1 = b + k
      BY <3>2, SMTT(30)
    <3>5. QED BY <1>4, <1>7, <3>1, <3>2, <3>3, <3>4
  <2>2. Transferred(t)'
    <3>1. done'[t] = d /\ Every(t)' = e /\ UNCHANGED req
      BY <1>1, <1>6 DEF Serves, Every
    <3>2. QED BY <1>3, <1>2, <1>4, <1>5, <3>1, SMTT(30) DEF Transferred
  <2>3. QED BY <1>1, <1>2, <1>4, <1>5, <1>6, <2>1, <2>2 DEF Serves, Progress
<1>11. Executes(t)'
  <2>1. dev'.lba = req[t].lba + (k + 1) /\ dev'.left = d + e - (k + 1) /\ (dev.left = 1 <=> k + 1 = d + e)
    BY <1>3, <1>8, SMTT(30)
  <2>2. Every(t)' = e /\ d = done'[t] /\ (Started(t)' <=> q = "data")
    BY <1>1, <1>2, <1>5, <1>6 DEF Serves, Every, Started
  <2>3. QED BY <1>1, <1>2, <1>4, <1>5, <1>6, <1>8, <2>1, <2>2 DEF Serves, Executes
<1>12. Expected(t)' /\ Selected(t)'
  BY <1>2, <1>5, <1>6 DEF Sizes, Knows, Working, Expected, Awaits, Selected, syncvars
<1>13. QED BY <1>9, <1>10, <1>11, <1>12, PortStep DEF Working

(* insw of read_from_sector. *)
LEMMA ReadInv ==
  ASSUME IdeInv, NEW t \in Threads, Knows(t, "data"), read_from_sector(t)
  PROVE  IdeInv'
<1>1. req[t].op # "write"
  BY DEF read_from_sector
<1>2. /\ dev.st = "drq" /\ dev.op # "write" /\ dev.hd = req[t].hd /\ req[t].hd \in Disks
      /\ dev.lba \in 0 .. max_lba
  BY <1>1, DataFacts DEF Serves
<1>2a. disk \in [Disks -> [0 .. max_lba -> Contents]]
  BY <1>1 DEF Knows, ChannelTypes
<1>3. PICK h \in Disks, l \in 0 .. max_lba, c \in Contents :
        h = req[t].hd /\ l = dev.lba /\ c = disk[h][l]
  BY <1>2, <1>2a
<1>4. disk = [disk EXCEPT ![h][l] = c]
  <2>1. [disk[h] EXCEPT ![l] = c] = disk[h]
    BY <1>3, <1>2a
  <2>2. QED BY <1>2a, <2>1
<1>5. Transfers(t, "next", c)
  BY <1>1, <1>2, <1>3, <1>4 DEF read_from_sector, Transfers, Local, Knows, ChannelTypes
<1>6. QED BY <1>1, <1>4, <1>5, TransferInv

(* outsw of write2sector. *)
LEMMA WriteInv ==
  ASSUME IdeInv, NEW t \in Threads, Knows(t, "data"), write2sector(t)
  PROVE  IdeInv'
<1>1. req[t].op = "write"
  BY DEF write2sector
<1>2. dev.st = "drq" /\ dev.op = "write" /\ dev.hd = req[t].hd /\ Len(buf[t]) \in Nat
  BY <1>1, DataFacts DEF Serves
<1>3. Sector(t, Len(buf[t])) \in Contents
  BY <1>2, SMT DEF Contents, Sector
<1>4. Transfers(t, "down", Sector(t, Len(buf[t])))
  BY <1>1, <1>2 DEF write2sector, Transfers, Local, Knows, ChannelTypes
<1>5. QED BY <1>1, <1>3, <1>4, TransferInv

(* A call that is through leaves the channel quiet. *)
LEMMA Leaves ==
  ASSUME NEW t \in Threads, NEW p \in {"next", "unlock"}, Knows(t, p), Forget(t),
         IdeGoto(t, "out"), UNCHANGED <<expecting, reg, dev, irq, disk, slow>>, SyncPart',
         UNCHANGED value, \A u \in Threads \ {t} : la'[u] = la[u], la'[t] # disk_done
  PROVE  Drives(t) /\ CallView(t)' /\ Quiet'
<1>1. 0 \in 0 .. TimeLimit /\ <<>> \in Seq(Contents)
  BY SMT DEF Sizes
<1>2. /\ ThreadTypes' /\ ChannelTypes' /\ io'[t] = "out" /\ done'[t] = 0 /\ buf'[t] = <<>>
      /\ \A u \in Threads \ {t} :
           /\ io'[u] = io[u] /\ req'[u] = req[u] /\ done'[u] = done[u]
           /\ limit'[u] = limit[u] /\ buf'[u] = buf[u]
  BY <1>1 DEF Knows, ThreadTypes, ChannelTypes, Forget, IdeGoto, IoPC
<1>3. Drives(t) /\ CallView(t)'
  BY <1>2 DEF Drives, CallView, Inside
<1>4. Quiet'
  BY DEF Sizes, Knows, Working, Executes, Started, Expected, Awaits, Quiet
<1>5. QED BY <1>3, <1>4

(* sec_done += sec_every *)
LEMMA NextCommandInv ==
  ASSUME IdeInv, NEW t \in Threads, Knows(t, "next"), NextCommand(t)
  PROVE  IdeInv'
<1>1. UNCHANGED syncvars /\ UNCHANGED <<expecting, reg, dev, irq, disk, slow>>
  BY DEF NextCommand, Local
<1>2. UNCHANGED <<value, la>>
  BY <1>1 DEF syncvars
<1>3. CASE req[t].op = "identify"
  <2>1. IdeGoto(t, "out") /\ Forget(t) /\ t \notin Clients
    BY <1>3 DEF Sizes, NextCommand, Knows, Fits
  <2>2. SyncPart'
    <3>1. Nest' = Nest
      BY <2>1, SameNest DEF Knows
    <3>2. QED BY <1>1, <3>1, StillLocked DEF Knows
  <2>3. Drives(t) /\ CallView(t)' /\ Quiet'
    BY <1>1, <1>2, <2>1, <2>2, Leaves DEF Sizes, Knows
  <2>4. QED BY <2>3, DriverStep
<1>4. CASE req[t].op # "identify"
  <2>1. PICK e, p : e = Every(t) /\ p = IF done[t] + e < req[t].cnt THEN "sector" ELSE "unlock"
    OBVIOUS
  <2>2. /\ e \in Nat /\ done[t] \in Nat /\ done[t] + e <= req[t].cnt /\ req[t].cnt \in Nat
        /\ Len(buf[t]) = done[t] + e
    BY <2>1, SMTT(30) DEF Sizes, Knows, Fits, Room, ThreadTypes, Working, Progress, Transferred
  <2>3. done' = [done EXCEPT ![t] = done[t] + e] /\ UNCHANGED <<req, limit, rung, buf>>
    BY <1>4, <2>1 DEF NextCommand
  <2>4. done'[t] = done[t] + e /\ done[t] + e \in Nat /\ \A u \in Threads \ {t} : done'[u] = done[u]
    BY <2>2, <2>3, SMT DEF Knows, ThreadTypes
  <2>5. IdeGoto(t, p)
    BY <1>4, <2>1, <2>4 DEF NextCommand
  <2>6. Ports(t, p) /\ io'[t] = p
    <3>1. ThreadTypes' /\ ChannelTypes' /\ io'[t] = p
      BY <1>1, <2>1, <2>3, <2>4, <2>5 DEF Knows, ThreadTypes, ChannelTypes, IdeGoto, IoPC
    <3>2. t # Main
      BY <1>4, SMT DEF Knows, Fits, Identify
    <3>3. QED BY <1>1, <2>1, <2>3, <2>4, <2>5, <3>1, <3>2 DEF Ports
  <2>7. Progress(t)'
    <3>1. IF p = "unlock" THEN done'[t] = req[t].cnt ELSE done'[t] < req[t].cnt
      BY <2>1, <2>2, <2>4, SMTT(30)
    <3>2. Transferred(t)'
      BY <2>1, <2>2, <2>3, <2>4, <2>6 DEF Transferred
    <3>3. QED BY <1>1, <2>3, <2>6, <3>1, <3>2 DEF Knows, Working, Progress
  <2>8. Selected(t)' /\ Executes(t)' /\ Expected(t)'
    BY <1>1, <1>2, <2>1, <2>6
    DEF Sizes, Knows, Working, Selected, Executes, Started, Expected, Awaits
  <2>9. QED BY <2>6, <2>7, <2>8, PortStep DEF Working
<1>5. QED BY <1>3, <1>4

(* lock_release *)
LEMMA UnlockInv ==
  ASSUME IdeInv, NEW t \in Threads, Knows(t, "unlock"), Unlock(t)
  PROVE  IdeInv'
<1>1. /\ lock_release(t, Channel) /\ IdeGoto(t, "out") /\ Forget(t)
      /\ UNCHANGED <<cli, expecting, reg, dev, irq, disk, slow>>
  BY DEF Unlock
<1>2. t \in Clients /\ t # Idle /\ Locks = {Channel}
  BY IdeAssumption DEF Knows, Fits, CallView
<1>3. PICK n : n = Nest /\ LockInv(n) /\ Sleepers = {} /\ SyncTypeOK
  BY Alive DEF Knows
<1>4. la'[t] = Channel /\ UNCHANGED value /\ \A u \in Threads \ {t} : la'[u] = la[u]
  BY <1>1, <1>3 DEF lock_release, Call, SyncTypeOK
<1>5. SyncPart'
  <2>1. PICK m : m = [n EXCEPT ![t][Channel] = @ - 1]
    OBVIOUS
  <2>2. cli' \in SUBSET Threads /\ n[t][Channel] > 0 /\ Channel \in Locks
    BY <1>1, <1>2, <1>3, SMTT(30) DEF Knows, Nest, SyncTypeOK
  <2>3. LockInv(m)'
    BY <1>1, <1>2, <1>3, <2>1, <2>2, LockReleaseCall
  <2>4. Nest' = [Nest EXCEPT ![t][Channel] = @ - 1]
    <3>1. io' = [io EXCEPT ![t] = "out"] /\ io \in [Threads -> IoPC] /\ io[t] = "unlock"
      BY <1>1 DEF IdeGoto, Knows, ThreadTypes
    <3>2. QED BY <1>2, <3>1, SMTT(30) DEF Nest
  <2>5. Nest' = m
    BY <1>3, <2>1, <2>4
  <2>6. Sleepers' = {}
    BY <1>1, <1>3, OtherStepFrame DEF lock_release
  <2>7. QED BY <2>3, <2>5, <2>6, SyncPartNext
<1>6. Drives(t) /\ CallView(t)' /\ Quiet'
  BY <1>1, <1>4, <1>5, Leaves DEF Sizes
<1>7. QED BY <1>6, DriverStep

(* A call of ide_read or ide_write: lock_acquire. *)
LEMMA BeginInv ==
  ASSUME IdeInv, NEW t \in Threads, Begin(t)
  PROVE  IdeInv'
<1>1. PICK r \in Requests : req' = [req EXCEPT ![t] = r]
  BY DEF Begin
<1>2. /\ t \in Clients /\ io[t] = "out" /\ io[Main] = "out" /\ ~sched.panic
      /\ lock_acquire(t, Channel) /\ IdeGoto(t, "disk")
      /\ UNCHANGED <<cli, done, limit, rung, buf, expecting, reg, dev, irq, disk, slow>>
  BY DEF Begin, InIde, At, Runs
<1>3. t # Idle /\ t # Main /\ Locks = {Channel}
  BY <1>2, IdeAssumption
<1>4. PICK n : n = Nest /\ LockInv(n) /\ Sleepers = {} /\ SyncTypeOK
  BY <1>2, Alive
<1>5. ThreadTypes' /\ ChannelTypes' /\ io \in [Threads -> IoPC] /\ req \in [Threads -> Requests \cup {NoReq, Identify}]
  <2>1. ThreadTypes /\ ChannelTypes
    BY IdeParts DEF Parts
  <2>2. QED BY <1>1, <1>2, <2>1 DEF ThreadTypes, ChannelTypes, IdeGoto, IoPC
<1>6. /\ io'[t] = "disk" /\ req'[t] = r /\ la'[t] = Channel /\ UNCHANGED value
      /\ \A u \in Threads \ {t} : io'[u] = io[u] /\ req'[u] = req[u] /\ la'[u] = la[u]
  BY <1>1, <1>2, <1>4, <1>5 DEF IdeGoto, lock_acquire, Call, SyncTypeOK
<1>7. SyncPart'
  <2>1. PICK m : m = [n EXCEPT ![t][Channel] = @ + 1]
    OBVIOUS
  <2>2. cli' \in SUBSET Threads /\ Channel \in Locks
    BY <1>2, <1>3, <1>4 DEF SyncTypeOK
  <2>3. LockInv(m)'
    BY <1>2, <1>3, <1>4, <2>1, <2>2, LockAcquireCall
  <2>4. Nest' = [Nest EXCEPT ![t][Channel] = @ + 1]
    BY <1>2, <1>3, <1>5, SMTT(30) DEF Nest, IdeGoto
  <2>5. Nest' = m
    BY <1>4, <2>1, <2>4
  <2>6. Sleepers' = {}
    BY <1>2, <1>4, OtherStepFrame DEF lock_acquire
  <2>7. QED BY <2>3, <2>5, <2>6, SyncPartNext
<1>8. \A u \in Threads : CallView(u) /\ (Inside(u)' <=> Inside(u))
  BY <1>2, <1>6 DEF Inside, IdeInv
<1>9. CallView(t)'
  BY <1>2, <1>3, <1>6, <1>8 DEF Sizes, CallView, Inside
<1>10. ASSUME NEW u \in Threads, u # t PROVE CallView(u)'
  <2>1. CallView(u) /\ io'[u] = io[u] /\ req'[u] = req[u] /\ la'[u] = la[u]
    BY <1>6, <1>8, <1>10
  <2>2. Inside(u) => Working(u)'
    BY <1>2, <1>6, <2>1, SameWork DEF CallView
  <2>3. QED BY <1>2, <1>8, <2>1, <2>2 DEF CallView
<1>11. MainFirst' /\ ((\A u \in Threads : ~Inside(u)') => Quiet')
  <2>1. MainFirst'
    BY <1>2, <1>3, <1>6 DEF Sizes, MainFirst
  <2>2. QED BY <1>2, <1>6, <1>8, <2>1, IdeParts DEF Parts, Quiet
<1>12. QED BY <1>5, <1>7, <1>9, <1>10, <1>11, IdeParts DEF Parts

-----------------------------------------------------------------------------
(* The controller, the interrupt and the steps outside ide.c.              *)

(* A step of the scheduler or of sync.c that the driver does not see. *)
LEMMA ElsewhereStep ==
  ASSUME IdeInv, NEW n, n = Nest, LockInv(n)', Sleepers' = {},
         UNCHANGED <<io, req, done, limit, buf, expecting, reg, dev, irq, disk, slow>>,
         rung' \subseteq Threads,
         \A u \in Threads : la'[u] \in {la[u], NoSema},
         \A u \in Threads : Inside(u) => Working(u)', value'[disk_done] \in {0, value[disk_done]}
  PROVE  IdeInv'
<1>1. SyncPart'
  <2>1. Nest' = n
    BY DEF Nest
  <2>2. QED BY <2>1, SyncPartNext
<1>2. Passive
  BY <1>1, IdeParts DEF Parts, Passive, ChannelTypes
<1>3. (\A u \in Threads : ~Inside(u)) => Quiet'
  BY IdeParts DEF Parts, Quiet
<1>4. QED BY <1>2, <1>3, PassiveStep

(* What is inside works. *)
LEMMA InsideWorks ==
  ASSUME IdeInv, NEW u \in Threads, Inside(u)
  PROVE  Working(u)
BY DEF IdeInv, CallView

(* The clock, idle and a new thread. *)
LEMMA ClockInv ==
  ASSUME IdeInv,
         \/ Clock
         \/ idle /\ UNCHANGED idevars
         \/ \E t \in Threads : kernel_thread(t) /\ UNCHANGED idevars
  PROVE  IdeInv'
<1>1. /\ ~sched.panic /\ UNCHANGED <<value, waiters, holder, repeat, lk, la>>
      /\ UNCHANGED <<io, req, done, limit, buf, expecting, reg, dev, irq, disk, slow>>
  BY DEF Clock, Tick, idle, IdleBlock, IdleHalt, kernel_thread, At, Runs, idevars
<1>2. PICK n : n = Nest /\ LockInv(n) /\ Sleepers = {}
  BY <1>1, Alive
<1>3. LockInv(n)' /\ Sleepers' = {}
  <2>1. CASE Clock
    BY <1>2, <2>1, TickInv, OtherStepFrame DEF Clock
  <2>2. CASE idle
    BY <1>2, <2>2, IdleInv, OtherStepFrame
  <2>3. CASE \E t \in Threads : kernel_thread(t)
    <3>1. /\ cli' \in SUBSET Threads /\ UNCHANGED sched
          /\ SchedOK(sched') /\ idlepc' \in {"block", "sti", "hlt"}
      BY <1>2, <2>3 DEF kernel_thread, LockInv, SyncTypeOK
    <3>2. LockInv(n)'
      BY <1>1, <1>2, <3>1, ScheduleStep
    <3>3. QED BY <1>1, <1>2, <3>1, <3>2 DEF Sleepers
  <2>4. QED BY <2>1, <2>2, <2>3
<1>4. rung' \subseteq Threads
  BY IdeParts DEF Clock, idevars, Parts, ThreadTypes
<1>5. \A u \in Threads : Inside(u) => Working(u)'
  BY <1>1, InsideWorks, SameWork
<1>6. QED BY <1>1, <1>2, <1>3, <1>4, <1>5, ElsewhereStep

(* A step inside sync.c, on the channel's lock or on disk_done. *)
LEMMA SyncInv ==
  ASSUME IdeInv, NEW t \in Threads, SyncStep(t), UNCHANGED idevars
  PROVE  IdeInv'
<1>1. UNCHANGED <<io, req, done, limit, rung, buf, expecting, reg, dev, irq, disk, slow>>
  BY DEF idevars
<1>2. ~sched.panic
  BY DEF SyncStep, AcquireCheck, AcquireAgain, sema_down, SetHolder, SetRepeat,
     ReleaseCheck, ReleaseOnce, ClearHolder, ClearRepeat, sema_up, At, Runs
<1>3. PICK n : n = Nest /\ LockInv(n) /\ Sleepers = {}
  BY <1>2, Alive
<1>4. /\ LockInv(n)' /\ Sleepers' = {} /\ la'[t] \in {la[t], NoSema}
      /\ \A u \in Threads : u # t => la'[u] = la[u]
  BY <1>3, SyncStepInv, SyncStepFrame
<1>5. /\ la[t] # disk_done => value'[disk_done] = value[disk_done]
      /\ la[t] = disk_done =>
           \/ UNCHANGED <<value, la>>
           \/ value[disk_done] = 1 /\ value'[disk_done] = 0 /\ la'[t] = NoSema
  BY <1>3, IdeAssumption, SyncStepValue
<1>6. ASSUME NEW u \in Threads, Inside(u) PROVE Working(u)'
  <2>1. Working(u) /\ CallView(t)
    BY <1>6, InsideWorks DEF IdeInv
  <2>2. CASE la[t] # disk_done \/ UNCHANGED <<value, la>>
    BY <1>1, <1>4, <1>5, <2>1, <2>2, SameWork DEF Sizes
  <2>3. CASE la[t] = disk_done /\ value[disk_done] = 1 /\ value'[disk_done] = 0
             /\ la'[t] = NoSema
    <3>1. io[t] = IF req[t].op = "write" THEN "next" ELSE "poll"
      BY <2>1, <2>3 DEF CallView
    <3>2. u = t
      BY <1>2, <1>6, <2>3, <3>1, OneInside, SMTT(30) DEF Sizes
    <3>3. Expected(u)'
      BY <1>1, <2>1, <2>3, <3>1, <3>2, SMTT(30) DEF Sizes, Awaits, Working, Expected
    <3>4. Progress(u)' /\ Selected(u)' /\ Executes(u)'
      BY <1>1, <2>1 DEF Working, Progress, Transferred, Selected, Executes, Started, Every
    <3>5. QED BY <3>3, <3>4 DEF Working
  <2>4. QED BY <1>5, <2>2, <2>3
<1>7. \A u \in Threads : la'[u] \in {la[u], NoSema}
  BY <1>4
<1>8. value'[disk_done] \in {0, value[disk_done]} /\ rung' \subseteq Threads
  BY <1>1, <1>5, IdeParts DEF Parts, ThreadTypes
<1>9. QED BY <1>1, <1>3, <1>4, <1>6, <1>7, <1>8, ElsewhereStep

(* The controller has its first sector: it is busy only for a call. *)
LEMMA ReadyInv ==
  ASSUME IdeInv, Ready
  PROVE  IdeInv'
<1>1. /\ ~sched.panic /\ dev.st = "busy" /\ irq' \in BOOLEAN /\ UNCHANGED syncvars
      /\ UNCHANGED <<io, req, done, limit, rung, buf, expecting, reg, disk, slow>>
  BY DEF Ready, Local
<1>2. ChannelTypes /\ rung \subseteq Threads
  BY IdeParts DEF Parts, ThreadTypes
<1>3. Passive /\ UNCHANGED <<value, la>>
  <2>1. Nest' = Nest
    BY <1>1 DEF Nest
  <2>2. SyncPart'
    BY <1>1, <2>1, StillLocked
  <2>3. QED BY <1>1, <1>2, <2>2 DEF Passive, ChannelTypes, Ready, syncvars
<1>4. /\ dev'.op = dev.op /\ dev'.hd = dev.hd /\ dev'.lba = dev.lba
      /\ dev'.left = dev.left /\ dev'.st = "drq"
  BY <1>2 DEF Ready, ChannelTypes
<1>5. ASSUME NEW u \in Threads, Inside(u) PROVE Working(u)'
  <2>1. Working(u)
    BY <1>5, InsideWorks
  <2>2. Progress(u)' /\ Selected(u)' /\ Expected(u)'
    BY <1>1, <1>3, <2>1
    DEF Working, Progress, Transferred, Selected, Expected, Awaits, Every
  <2>3. Executes(u)'
    BY <1>1, <1>4, <2>1 DEF Working, Executes, Started, Every
  <2>4. QED BY <2>2, <2>3 DEF Working
<1>6. \E u \in Threads : Inside(u)
  BY <1>1, IdeParts DEF Parts, Quiet
<1>7. QED BY <1>3, <1>5, <1>6, PassiveStep

(* intr_hd_handler raises disk_done only while it is down. *)
LEMMA InterruptInv ==
  ASSUME IdeInv, intr_hd_handler
  PROVE  IdeInv'
<1>1. /\ ~sched.panic /\ irq' = FALSE /\ expecting' = FALSE /\ LeaveHalt
      /\ IF expecting THEN Up(disk_done) ELSE UNCHANGED <<sched, value, waiters>>
      /\ UNCHANGED <<holder, repeat, lk, la, cli>>
      /\ UNCHANGED <<io, req, done, limit, rung, buf, reg, dev, disk, slow>>
  BY DEF intr_hd_handler
<1>2. PICK n : n = Nest /\ LockInv(n) /\ Sleepers = {} /\ SyncTypeOK
  BY <1>1, Alive
<1>3. disk_done \in AllSemas /\ disk_done \notin Locks /\ value \in [AllSemas -> {0, 1}]
  BY <1>2, IdeAssumption DEF Sizes, SyncTypeOK
<1>4. SyncPart' => Passive
  <2>1. ChannelTypes /\ rung \subseteq Threads
    BY IdeParts DEF Parts, ThreadTypes
  <2>2. QED BY <1>1, <2>1 DEF ChannelTypes, Passive
<1>5. cli' \in SUBSET Threads /\ idlepc' \in {"block", "sti", "hlt"}
  BY <1>1, <1>2 DEF SyncTypeOK, LeaveHalt
<1>6. Nest' = n
  BY <1>1, <1>2 DEF Nest
<1>7. CASE ~expecting
  <2>1. UNCHANGED <<sched, value, waiters, expecting>>
    BY <1>1, <1>7, IdeParts DEF Parts, ChannelTypes
  <2>2. LockInv(n)'
    <3>1. SchedOK(sched')
      BY <1>2, <2>1 DEF LockInv
    <3>2. QED BY <1>1, <1>2, <1>5, <2>1, <3>1, ScheduleStep
  <2>3. Sleepers' = {}
    BY <1>1, <1>2, <2>1 DEF Sleepers
  <2>4. Passive
    BY <1>4, <1>6, <2>2, <2>3, SyncPartNext
  <2>5. \A u \in Threads : Inside(u) => Working(u)'
    BY <1>1, <2>1, InsideWorks, SameWork
  <2>6. (\A u \in Threads : ~Inside(u)) => Quiet'
    BY <1>1, <2>1, IdeParts DEF Parts, Quiet
  <2>7. QED BY <2>4, <2>5, <2>6, PassiveStep
<1>8. CASE expecting
  <2>1. PICK v \in Threads : Inside(v)
    BY <1>8, IdeParts DEF Parts, Quiet
  <2>2. value[disk_done] = 0 /\ Up(disk_done)
    BY <1>1, <1>8, <2>1, InsideWorks DEF Working, Expected
  <2>3. LockInv(n)'
    <3>1. UpReturns(disk_done)
      BY <1>1, <1>2, <1>3, <1>5 DEF UpReturns, SyncTypeOK
    <3>2. QED BY <1>2, <1>3, <2>2, <3>1, UpInv
  <2>4. /\ value' = [value EXCEPT ![disk_done] = 1]
        /\ \A u \in Threads : Woken(disk_done, u) => lk[u] = "woken"
        /\ \A u \in Threads : sched'.status[u] = "BLOCKED" => sched.status[u] = "BLOCKED"
    BY <1>2, <1>3, <2>2, UpFacts
  <2>5. Sleepers' = {} /\ value'[disk_done] = 1
    BY <1>1, <1>2, <1>3, <2>4 DEF Sleepers
  <2>6. Passive
    BY <1>4, <1>6, <2>3, <2>5, SyncPartNext
  <2>7. ASSUME NEW u \in Threads, Inside(u) PROVE Working(u)'
    <3>1. Working(u)
      BY <2>7, InsideWorks, SMTT(30)
    <3>2. Expected(u)'
      BY <1>1, <1>8, <2>5, <3>1, SMTT(30) DEF Working, Expected, Awaits
    <3>3. Progress(u)' /\ Selected(u)' /\ Executes(u)'
      BY <1>1, <3>1 DEF Working, Progress, Transferred, Selected, Executes, Started, Every
    <3>4. QED BY <3>2, <3>3 DEF Working
  <2>8. QED BY <2>1, <2>6, <2>7, PassiveStep
<1>9. QED BY <1>7, <1>8

-----------------------------------------------------------------------------
(* The invariant.                                                          *)

LEMMA IdeInitInv ==
  ASSUME Init
  PROVE  IdeInv
<1>1. /\ io = [t \in Threads |-> IF t = Main THEN "disk" ELSE "out"]
      /\ req = [t \in Threads |-> IF t = Main THEN Identify ELSE NoReq]
      /\ done = [t \in Threads |-> 0] /\ buf = [t \in Threads |-> <<>>]
      /\ expecting = FALSE /\ SyncInit
      /\ reg = [hd |-> 0, lba |-> 0, cnt |-> 0]
      /\ dev = [op |-> "none", hd |-> 0, lba |-> 0, left |-> 0, st |-> "idle"]
  BY DEF Init
<1>2. ThreadTypes /\ ChannelTypes
  <2>1. 0 \in 0 .. TimeLimit /\ 0 \in 0 .. SecMax - 1 /\ 0 \in 0 .. SecMax
          /\ <<>> \in Seq(Contents)
    BY SMT DEF Sizes
  <2>2. [h \in Disks |-> [l \in 0 .. max_lba |-> <<NoThread, l>>]]
          \in [Disks -> [0 .. max_lba -> Contents]]
    BY SMT DEF Sizes, Contents
  <2>3. QED BY <2>1, <2>2 DEF Sizes, Init, ThreadTypes, ChannelTypes, IoPC
<1>3. SyncPart
  <2>1. PICK n : n = [t \in Threads |-> [l \in Locks |-> 0]]
    OBVIOUS
  <2>2. Nest = n
    BY <1>1, <2>1 DEF Sizes, Nest
  <2>3. LockInv(n) /\ Blocked(sched) = {}
    BY <1>1, <2>1, SyncInitInv
  <2>4. QED BY <2>2, <2>3 DEF SyncPart, Sleepers, Blocked, LockInv, SchedOK
<1>4. value[disk_done] = 0 /\ la = [t \in Threads |-> NoSema]
  BY <1>1, IdeAssumption, SyncAssumption DEF Sizes, SyncInit, LocksInit
<1>5. \A t \in Threads : CallView(t)
  BY <1>1, <1>4 DEF Sizes, CallView, Inside
<1>6. MainFirst /\ Quiet
  BY <1>1, <1>4 DEF Sizes, MainFirst, Quiet
<1>7. QED BY <1>2, <1>3, <1>5, <1>6, IdeParts DEF Parts

LEMMA IdeNextInv ==
  ASSUME WithinDisk, IdeInv, [Next]_vars
  PROVE  IdeInv'
<1>1. CASE Clock \/ \E t \in Threads : t = Idle /\ idle /\ UNCHANGED idevars
  BY <1>1, ClockInv
<1>2. CASE Ready \/ intr_hd_handler
  BY <1>2, ReadyInv, InterruptInv
<1>3. ASSUME NEW t \in Threads, (kernel_thread(t) \/ SyncStep(t)) /\ UNCHANGED idevars
      PROVE  IdeInv'
  BY <1>3, ClockInv, SyncInv
<1>4. ASSUME NEW t \in Threads,
             \/ Begin(t) \/ select_disk(t) \/ select_sector(t) \/ Expect(t) \/ Command(t)
             \/ Down(t) \/ Poll(t) \/ ticks_to_sleep(t)
             \/ read_from_sector(t) \/ write2sector(t) \/ NextCommand(t) \/ Unlock(t)
      PROVE  IdeInv'
  <2>1. CASE Begin(t)
    BY <2>1, BeginInv
  <2>2. CASE select_disk(t)
    BY <2>2, Here, SelectDiskInv DEF select_disk
  <2>3. CASE select_sector(t)
    BY <2>3, Here, SelectSectorInv DEF select_sector
  <2>4. CASE Expect(t)
    BY <2>4, Here, ExpectInv DEF Expect
  <2>5. CASE Command(t)
    BY <2>5, Here, CommandInv DEF Command
  <2>6. CASE Down(t)
    BY <2>6, Here, DownInv DEF Down
  <2>7. CASE Poll(t)
    BY <2>7, Here, PollInv DEF Poll
  <2>8. CASE ticks_to_sleep(t)
    BY <2>8, Here, SleepInv DEF ticks_to_sleep
  <2>9. CASE read_from_sector(t)
    BY <2>9, Here, ReadInv DEF read_from_sector
  <2>10. CASE write2sector(t)
    BY <2>10, Here, WriteInv DEF write2sector
  <2>11. CASE NextCommand(t)
    BY <2>11, Here, NextCommandInv DEF NextCommand
  <2>12. CASE Unlock(t)
    BY <2>12, Here, UnlockInv DEF Unlock
  <2>13. QED BY <1>4, <2>1, <2>2, <2>3, <2>4, <2>5, <2>6, <2>7, <2>8,
              <2>9, <2>10, <2>11, <2>12
<1>5. CASE UNCHANGED vars
  <2>1. UNCHANGED syncvars /\ UNCHANGED idevars /\ UNCHANGED <<la, value>>
    BY <1>5 DEF vars, syncvars, idevars
  <2>2. SyncPart'
    <3>1. CASE sched.panic
      BY <2>1, <3>1, IdeParts DEF Parts, SyncPart, SyncTypeOK, syncvars, idevars
    <3>2. CASE ~sched.panic
      <4>1. Nest' = Nest
        BY <2>1 DEF idevars, Nest
      <4>2. QED BY <2>1, <3>2, <4>1, StillLocked
    <3>3. QED BY <3>1, <3>2
  <2>3. Passive
    BY <2>1, <2>2, IdeParts DEF Parts, ThreadTypes, ChannelTypes, Passive, idevars
  <2>4. \A u \in Threads : Inside(u) => Working(u)'
    BY <2>1, InsideWorks, SameWork DEF idevars
  <2>5. (\A u \in Threads : ~Inside(u)) => Quiet'
    BY <2>1, IdeParts DEF Parts, Quiet, idevars
  <2>6. QED BY <2>3, <2>4, <2>5, PassiveStep
<1>6. QED BY <1>1, <1>2, <1>3, <1>4, <1>5 DEF Next, Step

(* IdeInv holds in every state, for requests within the disk: the thread   *)
(* that holds the channel, the registers, the controller and the           *)
(* interrupt agree with each other.                                        *)
THEOREM IdeInvariance ==
  ASSUME WithinDisk
  PROVE  Spec => []IdeInv
<1>1. Init => IdeInv
  BY IdeInitInv
<1>2. IdeInv /\ [Next]_vars => IdeInv'
  BY IdeNextInv
<1>3. QED BY <1>1, <1>2, PTL DEF Spec

(* No ASSERT of ide.c, sync.c or thread.c fails; only busy_wait panics,    *)
(* when it gives up on a busy disk.                                        *)
THEOREM OnlySlowDisksPanic ==
  ASSUME WithinDisk
  PROVE  Spec => []PanicsOnlyWhenSlow
<1>1. IdeInv => PanicsOnlyWhenSlow
  BY DEF IdeInv, PanicsOnlyWhenSlow
<1>2. QED BY <1>1, IdeInvariance, PTL

(* A call of ide_read or ide_write that is about to return has transferred *)
(* its own sectors, in order.                                              *)
THEOREM CallsTransferAll ==
  ASSUME WithinDisk
  PROVE  Spec => []CallDone
<1>1. ASSUME IdeInv, NEW t \in Threads, io[t] = "unlock"
      PROVE  Working(t)
  BY <1>1, InsideWorks DEF Inside
<1>2. IdeInv => CallDone
  BY <1>1, SMTT(30) DEF CallDone, Working, Progress, Transferred
<1>3. QED BY <1>2, IdeInvariance, PTL

(* disk_done is up, or expected to be, only for the thread that has the    *)
(* channel, between cmd_out and its sema_down.                             *)
THEOREM InterruptsHaveTheirWaiter ==
  ASSUME WithinDisk
  PROVE  Spec => []DoneIsExpected
<1>1. ASSUME IdeInv, value[disk_done] = 1 \/ expecting
      PROVE  \E t \in Threads : io[t] \notin {"out", "disk", "sector", "unlock"}
  <2>1. PICK t \in Threads : Inside(t)
    BY <1>1, IdeParts, SMTT(30) DEF Parts, Quiet
  <2>2. CallView(t) /\ Expected(t)
    BY <1>1, <2>1, InsideWorks DEF IdeInv, Working
  <2>3. io[t] \notin {"out", "disk", "sector", "unlock"}
    BY <1>1, <2>1, <2>2, SMTT(30) DEF CallView, Expected, Awaits, Inside
  <2>4. QED BY <2>3
<1>2. IdeInv => DoneIsExpected
  BY <1>1 DEF DoneIsExpected
<1>3. QED BY <1>2, IdeInvariance, PTL

(* cmd_out never writes the command register while the controller executes *)
(* a command.                                                              *)
THEOREM CommandsWaitTheirTurn ==
  ASSUME WithinDisk
  PROVE  Spec => NoCommandWhileBusy
<1>1. ASSUME IdeInv, NEW t \in Threads, Command(t)
      PROVE  dev.st = "idle"
  <2>1. Knows(t, "cmd")
    BY <1>1, Here DEF Command
  <2>2. QED BY <2>1 DEF Knows, Working, Executes, Started
<1>2. IdeInv /\ [Next]_vars => [\A t \in Threads : Command(t) => dev.st = "idle"]_vars
  BY <1>1
<1>3. QED BY <1>2, IdeInvariance, PTL DEF Spec, NoCommandWhileBusy
=============================================================================
